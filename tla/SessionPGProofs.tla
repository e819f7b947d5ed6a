-------------------------- MODULE SessionPGProofs ---------------------------
(***************************************************************************)
(* Theorems about SessionPG, for every set of callers, spellings, items,   *)
(* answers and openings and every time limit.                              *)
(*                                                                         *)
(* The tables agree after a commit because the writes of a submission were *)
(* computed on the row the commit finds.  The invariant therefore says     *)
(* what a pending transaction may assume (DraftOK), and that the locks     *)
(* make it assume it alone (RowMutex, SessionMutex, LockedMiss).           *)
(***************************************************************************)
EXTENDS SessionPG, TLAPS

\* The caller's program counter tells which kind of call it is in.
CallOK ==
    \A c \in Clients : /\ pc[c] \in {"lock", "row"} => req[c].op = "submit"
                       /\ pc[c] \in {"read", "write"} => req[c].op # "submit"

\* The locks: one transaction at a time holds the row, and one per spelling
\* holds the session.
RowMutex ==
    \A c, d \in Clients : pc[c] = "end" /\ pc[d] = "end" => c = d

InSubmit(c) == pc[c] \in {"row", "end"} /\ req[c].op = "submit"

SessionMutex ==
    \A c, d \in Clients :
        InSubmit(c) /\ InSubmit(d) /\ req[c].via = req[d].via => c = d

\* A submission that missed in the lookup stays unregistered by its spelling.
LockedMiss ==
    \A c \in Clients, s \in subs :
        InSubmit(c) /\ KeyOf(s) = req[c].key => s.id[2] # req[c].via

\* The ledger follows the items, and keys are unique in it.
LedgerOK ==
    /\ Len(events) <= Len(opening.items)
    /\ \A i \in DOMAIN events : /\ events[i].item = opening.items[i]
                                /\ events[i].id[3] = i
    /\ \A i, j \in DOMAIN events :
          KeyOf(events[i]) = KeyOf(events[j]) => i = j
    /\ acked \subseteq subs

\* What a pending transaction wrote, in terms of the row as it still is.
BooksNothing(c) ==
    /\ draft[c].booked = <<>>
    /\ draft[c].registered = {}
    /\ draft[c].row.index = row.index
    /\ draft[c].row.answered = row.answered
    /\ draft[c].row.closed = row.closed

BooksOne(c) ==
    /\ req[c].op = "submit"
    /\ Verdict(row, opening, req[c].key.item, req[c].at) = "ok"
    /\ \A s \in subs : KeyOf(s) # req[c].key
    /\ draft[c] = Booking(c)

DraftOK == \A c \in Clients : pc[c] = "end" => BooksNothing(c) \/ BooksOne(c)

IInv == /\ TypeOK /\ CallOK /\ RowMutex /\ SessionMutex /\ LockedMiss
        /\ TablesAgree /\ LedgerOK /\ DraftOK

-----------------------------------------------------------------------------
\* What a session is opened with has between one item and the bound of them.
LEMMA OpeningFacts ==
    ASSUME NEW o \in Openings
    PROVE  /\ o.items \in Seq(Items) /\ o.retest \in BOOLEAN
           /\ Len(o.items) \in 1 .. MaxItems /\ MaxItems \in Nat
BY OpeningsAssumption

\* A submission passes the check only for the item that is next in the order
\* of a session that has not ended.
LEMMA VerdictOk ==
    ASSUME NEW r \in Rows, NEW o \in Openings, NEW item, NEW at,
           Verdict(r, o, item, at) = "ok"
    PROVE  /\ r.status \notin Terminal
           /\ r.index + 1 \in 1 .. Len(o.items)
           /\ o.items[r.index + 1] = item
<1>1. Len(o.items) \in Nat /\ r.index \in Nat
    BY OpeningFacts DEF Rows
<1> QED
    BY <1>1 DEF Verdict, Terminal, Completed, Abandoned

\* The advance counts one more answer and closes with the last one.
LEMMA AdvanceType ==
    ASSUME NEW r \in Rows, NEW o \in Openings
    PROVE  /\ Advance(r, o) \in Rows
           /\ Advance(r, o).index = r.index + 1
           /\ Advance(r, o).answered = r.answered + 1
           /\ Advance(r, o).closed = (r.closed \/ LastAnswer(r, o))
<1> DEFINE last   == LastAnswer(r, o)
           status == IF last THEN Completed ELSE r.status
           closed == r.closed \/ last
<1>1. status \in Statuses
    BY DEF Rows, Statuses
<1>2. closed \in BOOLEAN
    BY DEF LastAnswer
<1>3. r.index + 1 \in Nat /\ r.answered + 1 \in Nat /\ r.lastResume \in Times
    BY DEF Rows
<1>4. Advance(r, o) = [status |-> status, index |-> r.index + 1,
                       answered |-> r.answered + 1,
                       lastResume |-> r.lastResume, closed |-> closed]
    <2>1. r = [status |-> r.status, index |-> r.index, answered |-> r.answered,
               lastResume |-> r.lastResume, closed |-> r.closed]
        BY DEF Rows
    <2>2. Advance(r, o) = [r EXCEPT !.index = r.index + 1,
                !.answered = r.answered + 1, !.status = status, !.closed = closed]
        BY Zenon DEF Advance
    <2> HIDE DEF status, closed
    <2> QED
        BY <2>1, <2>2
<1> HIDE DEF status, closed
<1> QED
    <2>1. Advance(r, o) \in Rows
        BY <1>1, <1>2, <1>3, <1>4 DEF Rows
    <2>2. /\ Advance(r, o).index = r.index + 1
          /\ Advance(r, o).answered = r.answered + 1
          /\ Advance(r, o).closed = closed
        BY <1>4
    <2> QED
        BY <2>1, <2>2 DEF closed

-----------------------------------------------------------------------------
\* A request that is a submission has a key, a spelling and a time.
LEMMA SubmissionFacts ==
    ASSUME NEW r \in Requests, r.op = "submit"
    PROVE  r \in Submissions
BY DEF Requests, Submissions, Ops

LEMMA InitInv == Init => IInv
<1> SUFFICES ASSUME Init PROVE IInv
    OBVIOUS
<1> USE DEF Init
<1>1. TypeOK
    BY TimesAssumption
    DEF TypeOK, FreshRow, Rows, Statuses, Active, Times, NoRequest, Requests,
        NoDraft, Update, Drafts
<1>2. CallOK /\ RowMutex /\ SessionMutex /\ LockedMiss /\ DraftOK
    BY DEF CallOK, RowMutex, SessionMutex, InSubmit, LockedMiss, DraftOK
<1>3. TablesAgree /\ LedgerOK
    <2>1. Len(opening.items) # 0
        BY OpeningFacts
    <2> QED
        BY <2>1, OpeningFacts DEF TablesAgree, LedgerOK, FreshRow
<1> QED
    BY <1>1, <1>2, <1>3 DEF IInv

-----------------------------------------------------------------------------
\* A transaction that ends without writing, whatever it answers.
LEMMA ReturnInv ==
    ASSUME IInv, NEW c \in Clients, Return(c), UNCHANGED <<table, now>>,
           acked' \subseteq subs,
           refused' \in {<<>>} \cup (Clients \X Errors)
    PROVE  IInv'
<1> USE DEF IInv
<1>1. /\ pc' = [pc EXCEPT ![c] = "idle"]
      /\ req' = [req EXCEPT ![c] = NoRequest]
      /\ draft' = [draft EXCEPT ![c] = NoDraft]
    BY DEF Return, Goto
<1>2. UNCHANGED <<opening, row, events, subs, now>>
    BY DEF table
<1>3. NoRequest \in Requests /\ NoDraft \in Drafts
    BY TimesAssumption
    DEF NoRequest, Requests, NoDraft, Update, Drafts, FreshRow, Rows, Statuses, Active, Times
<1>4. TypeOK'
    BY <1>1, <1>2, <1>3 DEF TypeOK
<1>5. \A d \in Clients : /\ pc'[d] = "idle" \/ pc'[d] = pc[d]
                         /\ pc'[d] # "idle" => /\ req'[d] = req[d]
                                               /\ draft'[d] = draft[d]
    BY <1>1 DEF TypeOK
<1>6. CallOK' /\ RowMutex' /\ SessionMutex' /\ LockedMiss'
    BY <1>2, <1>5 DEF CallOK, RowMutex, SessionMutex, LockedMiss, InSubmit
<1>7. TablesAgree' /\ LedgerOK'
    BY <1>2 DEF TablesAgree, LedgerOK
<1>8. DraftOK'
    BY <1>2, <1>5 DEF DraftOK, BooksNothing, BooksOne, Booking, NewEntry
<1> QED
    BY <1>4, <1>6, <1>7, <1>8

LEMMA TickInv == IInv /\ Tick => IInv'
<1> SUFFICES ASSUME IInv, Tick PROVE IInv'
    OBVIOUS
<1> USE DEF IInv
<1>1. UNCHANGED <<opening, row, events, subs, pc, req, draft, acked>>
    BY DEF Tick
<1>2. TypeOK'
    BY <1>1, TimesAssumption DEF Tick, TypeOK, Times
<1>3. CallOK' /\ RowMutex' /\ SessionMutex' /\ LockedMiss' /\ TablesAgree' /\ LedgerOK'
    BY <1>1 DEF CallOK, RowMutex, SessionMutex, LockedMiss, InSubmit,
                TablesAgree, LedgerOK
<1>4. DraftOK'
    BY <1>1 DEF DraftOK, BooksNothing, BooksOne, Booking, NewEntry
<1> QED
    BY <1>2, <1>3, <1>4

LEMMA BeginInv == \A c \in Clients : IInv /\ Begin(c) => IInv'
<1> SUFFICES ASSUME NEW c \in Clients, IInv, Begin(c) PROVE IInv'
    OBVIOUS
<1> USE DEF IInv
<1>1. UNCHANGED <<opening, row, events, subs, draft, acked, now>> /\ refused' = <<>>
    BY DEF Begin, table
<1>2. /\ now \in Times /\ 0 \in Times
      /\ c \in DOMAIN req /\ c \in DOMAIN pc
    BY TimesAssumption DEF TypeOK, Times
<1>3. \E r \in Requests :
         /\ req' = [req EXCEPT ![c] = r]
         /\ \/ r.op = "submit" /\ pc' = [pc EXCEPT ![c] = "lock"]
            \/ r.op # "submit" /\ pc' = [pc EXCEPT ![c] = "read"]
    <2>1. CASE /\ \E key \in Keys, via \in Spellings :
                    req' = [req EXCEPT ![c] = [op |-> "submit", key |-> key,
                                               via |-> via, at |-> now]]
               /\ Goto(c, "lock")
        <3>1. PICK key \in Keys, via \in Spellings :
                    req' = [req EXCEPT ![c] = [op |-> "submit", key |-> key,
                                               via |-> via, at |-> now]]
            BY <2>1
        <3>2. [op |-> "submit", key |-> key, via |-> via, at |-> now] \in Requests
            BY <1>2 DEF Requests, Submissions
        <3> QED
            BY <2>1, <3>1, <3>2 DEF Goto
    <2>2. CASE /\ \E op \in Ops \ {"submit"} :
                    req' = [req EXCEPT ![c] =
                           [op |-> op, at |-> IF op = "next" THEN now ELSE 0]]
               /\ Goto(c, "read")
        <3>1. PICK op \in Ops \ {"submit"} :
                    req' = [req EXCEPT ![c] =
                           [op |-> op, at |-> IF op = "next" THEN now ELSE 0]]
            BY <2>2
        <3> DEFINE at == IF op = "next" THEN now ELSE 0
        <3>2. at \in Times
            BY <1>2
        <3> HIDE DEF at
        <3>3. [op |-> op, at |-> at] \in Requests
            BY <3>2 DEF Requests
        <3> QED
            BY <2>2, <3>1, <3>3 DEF Goto, at
    <2> QED
        BY <2>1, <2>2 DEF Begin
<1> PICK r \in Requests :
         /\ req' = [req EXCEPT ![c] = r]
         /\ \/ r.op = "submit" /\ pc' = [pc EXCEPT ![c] = "lock"]
            \/ r.op # "submit" /\ pc' = [pc EXCEPT ![c] = "read"]
    BY <1>3
<1>4. TypeOK'
    BY <1>1 DEF TypeOK
<1>5. /\ pc'[c] = IF req'[c].op = "submit" THEN "lock" ELSE "read"
      /\ \A d \in Clients \ {c} : pc'[d] = pc[d] /\ req'[d] = req[d]
    BY DEF TypeOK
<1>6. CallOK'
    BY <1>5 DEF CallOK
<1>7. RowMutex' /\ SessionMutex' /\ LockedMiss'
    BY <1>1, <1>5 DEF RowMutex, SessionMutex, LockedMiss, InSubmit
<1>8. TablesAgree' /\ LedgerOK'
    BY <1>1 DEF TablesAgree, LedgerOK
<1>9. DraftOK'
    BY <1>1, <1>5 DEF DraftOK, BooksNothing, BooksOne, Booking, NewEntry
<1> QED
    BY <1>4, <1>6, <1>7, <1>8, <1>9
LEMMA LookupInv == \A c \in Clients : IInv /\ Lookup(c) => IInv'
<1> SUFFICES ASSUME NEW c \in Clients, IInv, Lookup(c) PROVE IInv'
    OBVIOUS
<1>1. CASE \E first \in subs : /\ KeyOf(first) = req[c].key
                               /\ acked' = acked \cup {first}
                               /\ Finish(c)
    <2>1. acked' \subseteq subs
        BY <1>1 DEF IInv, LedgerOK
    <2> QED
        BY <1>1, <2>1, ReturnInv DEF Lookup, Finish
<1>2. CASE /\ \A s \in subs : KeyOf(s) # req[c].key
           /\ Goto(c, "row") /\ refused' = <<>>
           /\ UNCHANGED <<req, draft, acked>>
    <2> USE DEF IInv
    <2>1. /\ UNCHANGED <<opening, row, events, subs, req, draft, acked, now>>
          /\ pc' = [pc EXCEPT ![c] = "row"] /\ refused' = <<>>
        BY <1>2 DEF Lookup, table, Goto
    <2>2. TypeOK'
        BY <2>1 DEF TypeOK
    <2>3. pc'[c] = "row" /\ \A d \in Clients \ {c} : pc'[d] = pc[d]
        BY <2>1 DEF TypeOK
    <2>4. req[c].op = "submit"
        BY DEF Lookup, CallOK
    <2>5. CallOK' /\ RowMutex'
        BY <2>1, <2>3, <2>4 DEF CallOK, RowMutex
    <2>6. SessionMutex'
        BY <2>1, <2>3 DEF Lookup, SessionFree, HoldsSession, SessionMutex, InSubmit
    <2>7. LockedMiss'
        BY <1>2, <2>1, <2>3 DEF LockedMiss, InSubmit
    <2>8. TablesAgree' /\ LedgerOK'
        BY <2>1 DEF TablesAgree, LedgerOK
    <2>9. DraftOK'
        BY <2>1, <2>3 DEF DraftOK, BooksNothing, BooksOne, Booking, NewEntry
    <2> QED
        BY <2>2, <2>5, <2>6, <2>7, <2>8, <2>9
<1> QED
    BY <1>1, <1>2 DEF Lookup

\* A transaction that has written and now holds the row lock.
LEMMA PendInv ==
    ASSUME IInv, NEW c \in Clients, NEW writes \in Drafts,
           pc[c] \in {"row", "write"}, RowFree(c), Pend(c, writes),
           UNCHANGED <<table, acked, now>>,
           BooksNothing(c)' \/ BooksOne(c)'
    PROVE  IInv'
<1> USE DEF IInv
<1>1. /\ UNCHANGED <<opening, row, events, subs, req, acked, now>>
      /\ pc' = [pc EXCEPT ![c] = "end"] /\ refused' = <<>>
      /\ draft' = [draft EXCEPT ![c] = writes]
    BY DEF Pend, table, Goto
<1>2. TypeOK'
    BY <1>1 DEF TypeOK
<1>3. /\ pc'[c] = "end"
      /\ \A d \in Clients \ {c} : pc'[d] = pc[d] /\ draft'[d] = draft[d]
    BY <1>1 DEF TypeOK
<1>4. CallOK' /\ RowMutex'
    BY <1>1, <1>3 DEF CallOK, RowMutex, RowFree, HoldsRow
<1>5. InSubmit(c)' => InSubmit(c)
    BY <1>1 DEF InSubmit, CallOK
<1>6. SessionMutex' /\ LockedMiss'
    BY <1>1, <1>3, <1>5 DEF SessionMutex, LockedMiss, InSubmit
<1>7. TablesAgree' /\ LedgerOK'
    BY <1>1 DEF TablesAgree, LedgerOK
<1>8. DraftOK'
    BY <1>3 DEF DraftOK, RowFree, HoldsRow
<1> QED
    BY <1>2, <1>4, <1>6, <1>7, <1>8

LEMMA NewEntryType ==
    ASSUME TypeOK, NEW c \in Clients, req[c].op = "submit",
           row.index + 1 \in 1 .. Len(opening.items)
    PROVE  NewEntry(c) \in Entries
<1>1. req[c] \in Submissions
    BY SubmissionFacts DEF TypeOK
<1>2. req[c].key \in Keys /\ req[c].via \in Spellings
    BY <1>1 DEF Submissions
<1>3. row.index + 1 \in 1 .. MaxItems
    BY OpeningFacts DEF TypeOK
<1> QED
    BY <1>2, <1>3 DEF NewEntry, Entries, EventIds, Keys

LEMMA JudgeInv == \A c \in Clients : IInv /\ Judge(c) => IInv'
<1> SUFFICES ASSUME NEW c \in Clients, IInv, Judge(c) PROVE IInv'
    OBVIOUS
<1> DEFINE verdict == Verdict(row, opening, req[c].key.item, req[c].at)
<1>1. /\ pc[c] = "row" /\ RowFree(c) /\ req[c].op = "submit"
      /\ UNCHANGED <<table, acked, now>> /\ TypeOK /\ acked \subseteq subs
    BY DEF Judge, IInv, CallOK, LedgerOK
<1>2. CASE /\ verdict = "ok" /\ \A s \in subs : KeyOf(s) # req[c].key
           /\ Pend(c, Booking(c))
    <2>1. row.index + 1 \in 1 .. Len(opening.items)
        BY <1>1, <1>2, VerdictOk DEF TypeOK
    <2>2. NewEntry(c) \in Entries
        BY <1>1, <2>1, NewEntryType
    <2>3. Booking(c) \in Drafts
        <3>1. Advance(row, opening) \in Rows
            BY <1>1, AdvanceType DEF TypeOK
        <3> QED
            BY <2>2, <3>1 DEF Booking, Drafts
    <2>4. BooksOne(c)'
        <3>1. UNCHANGED <<opening, row, subs, req>> /\ draft'[c] = Booking(c)
            BY <1>1, <1>2 DEF Pend, table, TypeOK
        <3> QED
            BY <1>1, <1>2, <3>1 DEF BooksOne, Booking, NewEntry
    <2> QED
        BY <1>1, <1>2, <2>3, <2>4, PendInv
<1>3. CASE verdict = "rest_required" /\ Pend(c, RestMark)
    <2>1. [row EXCEPT !.status = RestPrompted] \in Rows
        BY <1>1 DEF TypeOK, Rows, Statuses
    <2>2. RestMark \in Drafts
        BY <2>1 DEF RestMark, Update, Drafts, Errors
    <2>3. BooksNothing(c)'
        <3>1. UNCHANGED row /\ draft'[c] = RestMark
            BY <1>1, <1>3 DEF Pend, table, TypeOK
        <3> QED
            BY <1>1, <3>1 DEF BooksNothing, RestMark, Update, TypeOK, Rows
    <2> QED
        BY <1>1, <1>3, <2>2, <2>3, PendInv
<1>4. CASE \E error \in Errors : Refuse(c, error)
    BY <1>1, <1>4, ReturnInv DEF Refuse
<1> QED
    <2>1. verdict \in Errors \cup {"ok"}
        BY DEF Verdict, Errors
    <2> QED
        BY <1>2, <1>3, <1>4, <2>1 DEF Judge, Errors
LEMMA ReadInv == \A c \in Clients : IInv /\ Read(c) => IInv'
<1> SUFFICES ASSUME NEW c \in Clients, IInv, Read(c) PROVE IInv'
    OBVIOUS
<1> DEFINE at == IF req[c].op = "resume" THEN now ELSE 0
<1>1. /\ pc[c] = "read" /\ req[c].op # "submit"
      /\ UNCHANGED <<table, acked, now>> /\ TypeOK /\ acked \subseteq subs
    BY DEF Read, IInv, CallOK, LedgerOK
<1>2. CASE /\ Goto(c, "write") /\ refused' = <<>>
           /\ req' = [req EXCEPT ![c].at = at]
           /\ UNCHANGED draft
    <2> USE DEF IInv
    <2>1. UNCHANGED <<opening, row, events, subs, draft, acked, now>>
        BY <1>1, <1>2 DEF table
    <2>2. at \in Times
        BY TimesAssumption DEF TypeOK, Times
    <2> HIDE DEF at
    <2>3. req' \in [Clients -> Requests]
        BY <1>1, <1>2, <2>2 DEF TypeOK, Requests, Submissions
    <2>4. TypeOK'
        BY <1>2, <2>1, <2>3 DEF TypeOK, Goto
    <2>5. /\ pc'[c] = "write" /\ req'[c].op = req[c].op
          /\ \A d \in Clients \ {c} : pc'[d] = pc[d] /\ req'[d] = req[d]
        BY <1>1, <1>2 DEF TypeOK, Goto, Requests
    <2>6. CallOK' /\ RowMutex'
        BY <1>1, <2>5 DEF CallOK, RowMutex
    <2>7. SessionMutex' /\ LockedMiss'
        BY <2>1, <2>5 DEF SessionMutex, LockedMiss, InSubmit
    <2>8. TablesAgree' /\ LedgerOK'
        BY <2>1 DEF TablesAgree, LedgerOK
    <2>9. DraftOK'
        BY <2>1, <2>5 DEF DraftOK, BooksNothing, BooksOne, Booking, NewEntry
    <2> QED
        BY <2>4, <2>6, <2>7, <2>8, <2>9
<1>3. CASE Finish(c) \/ \E error \in Errors : Refuse(c, error)
    BY <1>1, <1>3, ReturnInv DEF Finish, Refuse
<1> QED
    BY <1>2, <1>3 DEF Read, Errors

LEMMA WriteInv == \A c \in Clients : IInv /\ Write(c) => IInv'
<1> SUFFICES ASSUME NEW c \in Clients, IInv, Write(c) PROVE IInv'
    OBVIOUS
<1>1. /\ pc[c] = "write" /\ RowFree(c)
      /\ UNCHANGED <<table, acked, now>> /\ TypeOK
    BY DEF Write, IInv
<1>2. ASSUME NEW new \in Rows, NEW error \in Errors \cup {"none"},
             new.index = row.index, new.answered = row.answered,
             new.closed = row.closed, Pend(c, Update(new, error))
      PROVE  IInv'
    <2>1. Update(new, error) \in Drafts
        BY DEF Drafts, Update
    <2>2. UNCHANGED row /\ draft'[c] = Update(new, error)
        BY <1>1, <1>2 DEF Pend, table, TypeOK
    <2>3. BooksNothing(c)'
        BY <1>2, <2>2 DEF BooksNothing, Update
    <2> QED
        BY <1>1, <1>2, <2>1, <2>3, PendInv
<1>3. CASE \E at \in req[c].at .. now : Pend(c, Resumed(at))
    <2>1. PICK at \in req[c].at .. now : Pend(c, Resumed(at))
        BY <1>3
    <2>2. req[c].at \in Times /\ now \in Times
        BY <1>1 DEF TypeOK, Requests, Submissions
    <2>3. at \in Times
        BY <2>2, TimesAssumption DEF Times
    <2> DEFINE new == [row EXCEPT !.status = Active, !.lastResume = at]
    <2>4. /\ new \in Rows /\ new.index = row.index
          /\ new.answered = row.answered /\ new.closed = row.closed
        BY <1>1, <2>3 DEF TypeOK, Rows, Statuses
    <2>5. Pend(c, Update(new, "none"))
        BY <2>1 DEF Resumed
    <2> HIDE DEF new
    <2> QED
        BY <1>2, <2>4, <2>5
<1>4. CASE Pend(c, GivenUp)
    <2> DEFINE new == [row EXCEPT !.status = Abandoned]
    <2>1. /\ new \in Rows /\ new.index = row.index
          /\ new.answered = row.answered /\ new.closed = row.closed
        BY <1>1 DEF TypeOK, Rows, Statuses
    <2> QED
        BY <1>2, <1>4, <2>1 DEF GivenUp
<1>5. CASE Pend(c, RestMark)
    <2> DEFINE new == [row EXCEPT !.status = RestPrompted]
    <2>1. /\ new \in Rows /\ new.index = row.index
          /\ new.answered = row.answered /\ new.closed = row.closed
        BY <1>1 DEF TypeOK, Rows, Statuses
    <2> QED
        BY <1>2, <1>5, <2>1 DEF RestMark, Errors
<1> QED
    BY <1>3, <1>4, <1>5 DEF Write

\* The commit: the pending writes meet the row they were computed on.
LEMMA CommitInv == \A c \in Clients : IInv /\ Commit(c) => IInv'
<1> SUFFICES ASSUME NEW c \in Clients, IInv, Commit(c) PROVE IInv'
    OBVIOUS
<1> USE DEF IInv
<1>1. /\ pc[c] = "end" /\ draft[c].error = "none"
      /\ row' = draft[c].row
      /\ events' = events \o draft[c].booked
      /\ subs' = subs \cup draft[c].registered
      /\ acked' \in {acked \cup draft[c].registered, acked}
      /\ UNCHANGED <<opening, now>> /\ refused' = <<>>
    BY DEF Commit, Finish
<1>2. /\ pc' = [pc EXCEPT ![c] = "idle"]
      /\ req' = [req EXCEPT ![c] = NoRequest]
      /\ draft' = [draft EXCEPT ![c] = NoDraft]
    BY DEF Commit, Finish, Return, Goto
<1>3. /\ pc'[c] = "idle"
      /\ \A d \in Clients \ {c} : /\ pc'[d] = pc[d] /\ req'[d] = req[d]
                                  /\ draft'[d] = draft[d] /\ pc[d] # "end"
    BY <1>1, <1>2 DEF TypeOK, RowMutex
<1>4. CallOK' /\ RowMutex' /\ SessionMutex' /\ DraftOK'
    BY <1>3 DEF CallOK, RowMutex, SessionMutex, InSubmit, DraftOK
<1>5. ASSUME events' \in Seq(Entries), subs' \subseteq Entries,
             acked' \subseteq Entries
      PROVE  TypeOK'
    <2>1. NoRequest \in Requests /\ NoDraft \in Drafts
        BY TimesAssumption
        DEF NoRequest, Requests, NoDraft, Update, Drafts, FreshRow, Rows, Statuses,
            Active, Times
    <2>2. row' \in Rows
        BY <1>1 DEF TypeOK, Drafts
    <2> QED
        BY <1>1, <1>2, <1>5, <2>1, <2>2 DEF TypeOK
<1>6. CASE BooksNothing(c)
    <2>1. /\ row'.index = row.index /\ row'.answered = row.answered
          /\ row'.closed = row.closed
          /\ subs' = subs /\ acked' = acked
        BY <1>1, <1>6 DEF BooksNothing
    <2>2. events' = events
        BY <1>1, <1>6 DEF BooksNothing, TypeOK
    <2>3. TypeOK'
        BY <1>5, <2>1, <2>2 DEF TypeOK
    <2>4. TablesAgree' /\ LedgerOK'
        BY <1>1, <2>1, <2>2 DEF TablesAgree, LedgerOK
    <2>5. LockedMiss'
        BY <1>3, <2>1 DEF LockedMiss, InSubmit
    <2> QED
        BY <1>4, <2>3, <2>4, <2>5
<1>7. CASE BooksOne(c)
    <2> DEFINE entry == NewEntry(c)
    <2>1. /\ req[c].op = "submit" /\ row \in Rows /\ opening \in Openings
          /\ \A s \in subs : KeyOf(s) # req[c].key
          /\ draft[c].row = Advance(row, opening)
          /\ draft[c].booked = <<entry>> /\ draft[c].registered = {entry}
        BY <1>7 DEF BooksOne, Booking, TypeOK
    <2>2. /\ row.index + 1 \in 1 .. Len(opening.items)
          /\ opening.items[row.index + 1] = req[c].key.item
        BY <1>7, <2>1, VerdictOk DEF BooksOne
    <2>3. entry \in Entries
        BY <2>1, <2>2, NewEntryType
    <2>4. /\ entry.item = req[c].key.item /\ KeyOf(entry) = req[c].key
          /\ entry.id[2] = req[c].via /\ entry.id[3] = row.index + 1
        <3>1. req[c].key \in Keys
            BY <2>1, SubmissionFacts DEF TypeOK, Submissions
        <3> QED
            BY <3>1 DEF NewEntry, KeyOf, Keys
    <2> HIDE DEF entry
    <2>5. /\ row.index = Len(events) /\ row.answered = Len(events)
          /\ subs = {events[i] : i \in DOMAIN events}
          /\ row.closed <=> (Len(events) = Len(opening.items) /\ ~opening.retest)
          /\ events \in Seq(Entries) /\ Len(opening.items) \in Nat
        BY <2>1, OpeningFacts DEF TablesAgree, TypeOK
    <2>6. /\ events' = Append(events, entry)
          /\ events' \in Seq(Entries)
          /\ Len(events') = Len(events) + 1
          /\ DOMAIN events' = 1 .. Len(events) + 1
          /\ events'[Len(events) + 1] = entry
          /\ \A i \in 1 .. Len(events) : events'[i] = events[i]
        <3>1. events' = Append(events, entry)
            BY <1>1, <2>1, <2>3, <2>5
        <3> QED
            BY <2>3, <2>5, <3>1
    <2>7. DOMAIN events = 1 .. Len(events) /\ Len(events) \in Nat
        BY <2>5
    <2>8. TypeOK'
        BY <1>1, <1>5, <2>1, <2>3, <2>6 DEF TypeOK
    <2>9. subs' = {events'[i] : i \in DOMAIN events'}
        BY <1>1, <2>1, <2>5, <2>6, <2>7
    <2>10. TablesAgree'
        <3>1. /\ row'.index = row.index + 1 /\ row'.answered = row.answered + 1
              /\ row'.closed = (row.closed \/ LastAnswer(row, opening))
            BY <1>1, <2>1, AdvanceType
        <3>2. ~row.closed
            BY <2>2, <2>5
        <3>3. row'.closed <=> (Len(events') = Len(opening'.items) /\ ~opening'.retest)
            <4>1. LastAnswer(row, opening) <=>
                     (Len(events') = Len(opening.items) /\ ~opening.retest)
                BY <2>2, <2>5, <2>6 DEF LastAnswer
            <4> QED
                BY <1>1, <3>1, <3>2, <4>1
        <3> QED
            BY <2>5, <2>6, <2>9, <3>1, <3>3 DEF TablesAgree
    <2>11. LedgerOK'
        <3>1. Len(events') <= Len(opening'.items)
            BY <1>1, <2>2, <2>5, <2>6
        <3>2. \A i \in DOMAIN events' : /\ events'[i].item = opening'.items[i]
                                        /\ events'[i].id[3] = i
            BY <1>1, <2>2, <2>4, <2>5, <2>6, <2>7 DEF LedgerOK
        <3>3. \A i \in DOMAIN events : KeyOf(events[i]) # KeyOf(entry)
            BY <2>1, <2>4, <2>5
        <3>4. \A i, j \in DOMAIN events' :
                 KeyOf(events'[i]) = KeyOf(events'[j]) => i = j
            BY <2>6, <2>7, <3>3 DEF LedgerOK
        <3>5. acked' \subseteq subs'
            BY <1>1, <2>1 DEF LedgerOK
        <3> QED
            BY <3>1, <3>2, <3>4, <3>5 DEF LedgerOK
    <2>12. LockedMiss'
        <3> SUFFICES ASSUME NEW d \in Clients, NEW s \in subs', InSubmit(d)',
                            KeyOf(s) = req'[d].key
                     PROVE  s.id[2] # req'[d].via
            BY DEF LockedMiss
        <3>1. d # c /\ InSubmit(d) /\ req'[d] = req[d]
            BY <1>3 DEF InSubmit
        <3>2. CASE s \in subs
            BY <3>1, <3>2 DEF LockedMiss
        <3>3. CASE s = entry
            BY <1>1, <2>1, <2>4, <3>1, <3>3 DEF SessionMutex, InSubmit
        <3> QED
            BY <1>1, <2>1, <3>2, <3>3
    <2> QED
        BY <1>4, <2>8, <2>10, <2>11, <2>12
<1> QED
    BY <1>1, <1>6, <1>7 DEF DraftOK

LEMMA RollbackInv == \A c \in Clients : IInv /\ Rollback(c) => IInv'
<1> SUFFICES ASSUME NEW c \in Clients, IInv, Rollback(c) PROVE IInv'
    OBVIOUS
<1>1. draft[c].error \in Errors /\ acked \subseteq subs
    BY DEF Rollback, IInv, TypeOK, Drafts, LedgerOK
<1> QED
    BY <1>1, ReturnInv DEF Rollback, Refuse

LEMMA CrashInv == \A c \in Clients : IInv /\ Crash(c) => IInv'
BY ReturnInv DEF Crash, Finish, IInv, LedgerOK

LEMMA NextInv == IInv /\ [Next]_vars => IInv'
<1> SUFFICES ASSUME IInv, [Next]_vars PROVE IInv'
    OBVIOUS
<1>1. CASE Tick
    BY <1>1, TickInv
<1>2. CASE \E c \in Clients : Begin(c) \/ Step(c) \/ Crash(c)
    BY <1>2, BeginInv, LookupInv, JudgeInv, ReadInv, WriteInv, CommitInv,
       RollbackInv, CrashInv DEF Step
<1>3. CASE UNCHANGED vars
    BY <1>3 DEF vars, IInv, TypeOK, CallOK, RowMutex, SessionMutex, LockedMiss,
                InSubmit, TablesAgree, LedgerOK, DraftOK, BooksNothing, BooksOne,
                Booking, NewEntry
<1> QED
    BY <1>1, <1>2, <1>3 DEF Next
-----------------------------------------------------------------------------
\* The inductive invariant holds in every reachable state.
THEOREM Invariant == Spec => []IInv
BY InitInv, NextInv, PTL DEF Spec

\* Every variable keeps its type, whatever the callers do.
THEOREM TypeCorrect == Spec => []TypeOK
BY Invariant, PTL DEF IInv

\* Session row, event ledger and registrations agree in every state
\* (core/session/pg.go: event, registration and advance in one transaction).
THEOREM TablesAlwaysAgree == Spec => []TablesAgree
BY Invariant, PTL DEF IInv

\* The statements of a call other than its commit leave the tables alone.
LEMMA OnlyCommits ==
    ASSUME [Next]_vars, \A c \in Clients : ~Commit(c)
    PROVE  UNCHANGED <<opening, row, events, subs>>
BY DEF Next, Step, Tick, Begin, Lookup, Judge, Read, Write, Rollback, Crash,
       vars, table

\* An answer is booked only on a row that would still accept it: no resume,
\* abandonment or other answer comes between its check and its commit.
THEOREM BookedAnswersStillValid == Spec => BookedAnswerStillValid
<1>1. ASSUME IInv, [Next]_vars
      PROVE  [\A c \in Clients :
                 events' # events /\ pc[c] # pc'[c] =>
                    Verdict(row, opening, req[c].key.item, req[c].at) = "ok"]_vars
    <2> SUFFICES ASSUME NEW c \in Clients, events' # events, pc[c] # pc'[c]
                 PROVE  Verdict(row, opening, req[c].key.item, req[c].at) = "ok"
        OBVIOUS
    <2>1. PICK d \in Clients : Commit(d)
        BY <1>1, OnlyCommits
    <2>2. c = d
        BY <1>1, <2>1 DEF Commit, Finish, Return, Goto, IInv, TypeOK
    <2>3. ~BooksNothing(c)
        BY <1>1, <2>1, <2>2 DEF Commit, BooksNothing, IInv, TypeOK
    <2>4. pc[c] = "end"
        BY <2>1, <2>2 DEF Commit
    <2> QED
        BY <1>1, <2>3, <2>4 DEF IInv, DraftOK, BooksOne
<1> QED
    BY <1>1, Invariant, PTL DEF Spec, BookedAnswerStillValid

\* A submission whose key its own spelling has registered is never refused.
THEOREM RetriesNotRefused == Spec => RetryNotRefused
<1>1. ASSUME IInv, [Next]_vars
      PROVE  [\A c \in Clients, s \in subs :
                 (/\ req[c].op = "submit" /\ KeyOf(s) = req[c].key
                  /\ refused' \in {c} \X Errors) => s.id[2] # req[c].via]_vars
    <2> SUFFICES ASSUME NEW c \in Clients, NEW s \in subs,
                        req[c].op = "submit", KeyOf(s) = req[c].key,
                        refused' \in {c} \X Errors, ~UNCHANGED vars
                 PROVE  s.id[2] # req[c].via
        OBVIOUS
    <2>1. PICK error \in Errors : refused' = <<c, error>>
        OBVIOUS
    <2>2. pc[c] \in {"row", "end"}
        <3>1. ASSUME NEW d \in Clients, Judge(d) \/ Read(d) \/ Rollback(d)
              PROVE  pc[c] \in {"row", "end"}
            <4>1. \A e : Refuse(d, e) => d = c
                BY <2>1 DEF Refuse
            <4>2. d = c
                BY <2>1, <3>1, <4>1 DEF Judge, Read, Rollback, Pend, Finish
            <4> QED
                BY <1>1, <3>1, <4>2 DEF Judge, Read, Rollback, IInv, CallOK
        <3> QED
            BY <1>1, <2>1, <3>1
            DEF Next, Step, Tick, Begin, Lookup, Write, Commit, Crash, Pend, Finish
    <2> QED
        BY <1>1, <2>2 DEF IInv, LockedMiss, InSubmit
<1> QED
    BY <1>1, Invariant, PTL DEF Spec, RetryNotRefused

\* The tables implement the answer ledger: the commit that books an answer is
\* a Book step, a hit in the lookup an Acknowledge step, and all others stutter.
LEMMA LedgerInit == Init => Ledger!Init
BY DEF Init, Ledger!Init, FreshRow

LEMMA LedgerStep == IInv /\ [Next]_vars => [Ledger!Next]_(Ledger!vars)
<1> SUFFICES ASSUME IInv, [Next]_vars PROVE [Ledger!Next]_(Ledger!vars)
    OBVIOUS
<1>0. /\ opening \in Openings /\ events \in Seq(Entries) /\ subs \subseteq Entries
      /\ subs = Ledger!Booked /\ Ledger!Entries = Entries
    BY DEF IInv, TypeOK, TablesAgree, Ledger!Booked, Ledger!Entries, Entries
<1>1. ASSUME NEW c \in Clients, Commit(c) PROVE [Ledger!Next]_(Ledger!vars)
    <2>1. /\ row' = draft[c].row /\ events' = events \o draft[c].booked
          /\ acked' \in {acked \cup draft[c].registered, acked}
          /\ UNCHANGED opening
        BY <1>1 DEF Commit
    <2>2. CASE BooksNothing(c)
        BY <1>0, <2>1, <2>2 DEF BooksNothing, Ledger!vars
    <2>3. CASE BooksOne(c)
        <3> DEFINE entry == NewEntry(c)
        <3>1. /\ req[c].op = "submit" /\ row \in Rows
              /\ \A s \in subs : KeyOf(s) # req[c].key
              /\ draft[c].row = Advance(row, opening)
              /\ draft[c].booked = <<entry>> /\ draft[c].registered = {entry}
            BY <2>3 DEF BooksOne, Booking, IInv, TypeOK
        <3>2. /\ row.index + 1 \in 1 .. Len(opening.items)
              /\ opening.items[row.index + 1] = req[c].key.item
            BY <1>0, <2>3, <3>1, VerdictOk DEF BooksOne
        <3>3. entry \in Entries
            BY <3>1, <3>2, NewEntryType DEF IInv
        <3>4. /\ entry.item = req[c].key.item /\ KeyOf(entry) = req[c].key
              /\ entry.id[3] = row.index + 1
            <4>1. req[c].key \in Keys
                BY <3>1, SubmissionFacts DEF IInv, TypeOK, Submissions
            <4> QED
                BY <4>1 DEF NewEntry, KeyOf, Keys
        <3> HIDE DEF entry
        <3>5. /\ row.index = Len(events)
              /\ row.closed <=> (Len(events) = Len(opening.items) /\ ~opening.retest)
              /\ Len(opening.items) \in Nat
            BY <1>0, OpeningFacts DEF IInv, TablesAgree
        <3>6. events' = Append(events, entry)
            BY <1>0, <2>1, <3>1, <3>3
        <3>7. \A e \in Ledger!Booked :
                 /\ e.id # entry.id
                 /\ <<e.item, e.digest>> # <<entry.item, entry.digest>>
            <4>1. \A i \in DOMAIN events : i < row.index + 1 /\ events[i].id[3] = i
                BY <1>0, <3>5 DEF IInv, LedgerOK
            <4>2. \A e \in subs : e.id[3] # entry.id[3]
                BY <1>0, <3>4, <3>5, <4>1 DEF Ledger!Booked
            <4>3. \A e \in subs : KeyOf(e) # KeyOf(entry)
                BY <3>1, <3>4
            <4> QED
                BY <1>0, <4>2, <4>3 DEF KeyOf
        <3>8. row'.closed = (Len(events) + 1 = Len(opening.items) /\ ~opening.retest)
            <4>1. row'.closed = (row.closed \/ LastAnswer(row, opening))
                BY <1>0, <2>1, <3>1, AdvanceType
            <4>2. ~row.closed
                BY <3>2, <3>5
            <4>3. LastAnswer(row, opening) <=>
                     (Len(events) + 1 = Len(opening.items) /\ ~opening.retest)
                BY <3>2, <3>5 DEF LastAnswer
            <4> QED
                BY <4>1, <4>2, <4>3 DEF LastAnswer
        <3>9. Ledger!Book(entry)
            BY <2>1, <3>1, <3>2, <3>4, <3>5, <3>6, <3>7, <3>8 DEF Ledger!Book
        <3> QED
            BY <1>0, <3>3, <3>9 DEF Ledger!Next
    <2> QED
        BY <1>1, <2>2, <2>3 DEF IInv, DraftOK, Commit
<1>2. ASSUME NEW c \in Clients, Lookup(c) PROVE [Ledger!Next]_(Ledger!vars)
    <2>1. UNCHANGED <<opening, row, events>>
        BY <1>2 DEF Lookup, table
    <2>2. CASE UNCHANGED acked
        BY <2>1, <2>2 DEF Ledger!vars
    <2>3. CASE \E first \in subs : acked' = acked \cup {first}
        BY <1>0, <2>1, <2>3 DEF Ledger!Next, Ledger!Acknowledge
    <2> QED
        BY <1>2, <2>2, <2>3 DEF Lookup
<1>3. ASSUME \A c \in Clients : ~Commit(c) /\ ~Lookup(c)
      PROVE  UNCHANGED Ledger!vars
    <2>1. UNCHANGED <<opening, row, events>>
        BY <1>3, OnlyCommits
    <2>2. UNCHANGED acked
        BY <1>3 DEF Next, Step, Tick, Begin, Judge, Read, Write, Rollback, Crash, vars
    <2> QED
        BY <2>1, <2>2 DEF Ledger!vars
<1> QED
    BY <1>1, <1>2, <1>3

\* The PostgreSQL store implements the answer ledger.
THEOREM Refinement == Spec => ImplementsLedger
BY LedgerInit, LedgerStep, Invariant, PTL
   DEF Spec, ImplementsLedger, Ledger!Spec
=============================================================================
