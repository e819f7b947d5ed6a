------------------------------- MODULE Ingest -------------------------------
(***************************************************************************)
(* The ingestion of generated items (cmd/ingest/ingest.go, main.go).       *)
(*                                                                         *)
(* A worker is one run of the program.  It takes the lines of its files in *)
(* order.  A line that passes the checks is entered in one transaction:    *)
(* template, template version, item, then version, certificate, gate runs  *)
(* and publication under the key of the item.  A line that fails them      *)
(* leaves a failure row per check, in a transaction of its own.  A line    *)
(* that is already entered is counted and skipped.  Any other error ends   *)
(* the run, which may be started again.                                    *)
(*                                                                         *)
(* Publish (module Publication) is part of the transaction: the version is *)
(* a draft that no other transaction sees, with a fresh certificate.       *)
(***************************************************************************)
EXTENDS Naturals, Sequences

CONSTANTS
    Workers,                     \* runs of the program at the same time
    Batches,                     \* the inputs of runs: sequences of lines
    Lines, Readable,             \* JSONL lines, and those that decode
    Validators,                  \* "digest" and "registry" in the code
    FailedBy,                    \* the checks a line fails
    TemplateOf, SpecOf, ItemOf,  \* primary keys a line is entered under
    MaxRuns                      \* bound on the runs of a worker

ASSUME LinesAssumption ==
          /\ Batches \subseteq Seq(Lines) /\ Readable \subseteq Lines
          /\ FailedBy \in [Lines -> SUBSET Validators]
          /\ \A f \in {TemplateOf, SpecOf, ItemOf} : DOMAIN f = Lines
          /\ \A l, m \in Lines : ItemOf[l] \notin {TemplateOf[m], SpecOf[m]}
          /\ MaxRuns \in Nat

Keys     == UNION {{TemplateOf[l], SpecOf[l], ItemOf[l]} : l \in Lines}
Outcomes == {"accepted", "already-ingested", "rejected", "decode-error"}

\* What a run writes is named by the worker, its run and the line's number.
Origins == Workers \X (1 .. MaxRuns) \X (Nat \ {0})

VARIABLES
    rows,        \* committed keys of item_template, _version and item
    ledger,      \* published items, each with the origin of its certificate
    trail,       \* gate_failure rows
    pc,          \* where each worker is
    batch,       \* its input
    outcomes,    \* the outcomes it has counted, one per line
    held,        \* keys its open transaction has inserted
    runs         \* how often it was started

tables == <<rows, ledger, trail>>
vars   == <<rows, ledger, trail, pc, batch, outcomes, held, runs>>

Ended   == {"idle", "done", "aborted"}
Writing == {"template", "spec", "item", "commit"}

Init ==
    /\ rows = {} /\ ledger = {} /\ trail = {}
    /\ pc = [c \in Workers |-> "idle"]
    /\ batch \in [Workers -> Batches]
    /\ outcomes = [c \in Workers |-> <<>>]
    /\ held = [c \in Workers |-> {}]
    /\ runs = [c \in Workers |-> 0]

-----------------------------------------------------------------------------
Number(c) == Len(outcomes[c]) + 1
Line(c)   == batch[c][Number(c)]
Origin(c) == <<c, runs[c], Number(c)>>

Goto(c, label) == pc' = [pc EXCEPT ![c] = label]

\* The line is dealt with, and its transaction has ended.
Count(c, outcome) ==
    /\ Goto(c, "line")
    /\ outcomes' = [outcomes EXCEPT ![c] = Append(outcomes[c], outcome)]
    /\ held' = [held EXCEPT ![c] = {}]
    /\ UNCHANGED <<batch, runs>>

Start(c) ==
    /\ pc[c] \in Ended /\ runs[c] < MaxRuns
    /\ Goto(c, "line")
    /\ \E b \in Batches : batch' = [batch EXCEPT ![c] = b]
    /\ outcomes' = [outcomes EXCEPT ![c] = <<>>]
    /\ runs' = [runs EXCEPT ![c] = @ + 1]
    /\ UNCHANGED <<tables, held>>

Take(c) ==
    /\ pc[c] = "line" /\ Number(c) <= Len(batch[c])
    /\ \/ Line(c) \notin Readable /\ Count(c, "decode-error")
       \/ /\ Line(c) \in Readable
          /\ Goto(c, IF FailedBy[Line(c)] = {} THEN "template" ELSE "trail")
          /\ UNCHANGED <<batch, outcomes, held, runs>>
    /\ UNCHANGED tables

Finish(c) ==
    /\ pc[c] = "line" /\ Number(c) > Len(batch[c])
    /\ Goto(c, "done")
    /\ UNCHANGED <<tables, batch, outcomes, held, runs>>

\* An insert waits for an open transaction that has inserted the same key.
Free(c, key) == \A d \in Workers \ {c} : key \notin held[d]

\* ON CONFLICT DO NOTHING.
Upsert(c, key, next) ==
    /\ Free(c, key)
    /\ held' = [held EXCEPT ![c] = @ \cup ({key} \ rows)]
    /\ Goto(c, next)
    /\ UNCHANGED <<tables, batch, outcomes, runs>>

UpsertTemplate(c) == pc[c] = "template" /\ Upsert(c, TemplateOf[Line(c)], "spec")
UpsertSpec(c)     == pc[c] = "spec"     /\ Upsert(c, SpecOf[Line(c)], "item")

\* Mutation: the item is inserted ON CONFLICT DO NOTHING, too.
DuplicateNever(c) == FALSE

\* A unique violation (SQLSTATE 23505): the item was entered before.
Duplicate(c) == ItemOf[Line(c)] \in rows

\* The rest of the transaction writes under fresh keys and that of the item.
InsertItem(c) ==
    /\ pc[c] = "item" /\ Free(c, ItemOf[Line(c)])
    /\ \/ Duplicate(c) /\ Count(c, "already-ingested")
       \/ /\ ~Duplicate(c)
          /\ held' = [held EXCEPT ![c] = @ \cup {ItemOf[Line(c)]}]
          /\ Goto(c, "commit")
          /\ UNCHANGED <<batch, outcomes, runs>>
    /\ UNCHANGED tables

Enter(c) == /\ rows' = rows \cup held[c]
            /\ ledger' = ledger \cup {[item |-> ItemOf[Line(c)], by |-> Origin(c)]}
            /\ UNCHANGED trail

Commit(c) == pc[c] = "commit" /\ Enter(c) /\ Count(c, "accepted")

\* Mutation: one failure row per line, not per failed check.
FailuresFirst(c) == {[by |-> Origin(c), check |-> CHOOSE v \in FailedBy[Line(c)] : TRUE]}

Failures(c) == {[by |-> Origin(c), check |-> v] : v \in FailedBy[Line(c)]}

Record(c) == trail' = trail \cup Failures(c) /\ UNCHANGED <<rows, ledger>>

\* recordFailures, after the main transaction was rolled back.
RecordFailures(c) == pc[c] = "trail" /\ Record(c) /\ Count(c, "rejected")

\* Mutation: the failed transaction is not rolled back.
AbortOpen(c) ==
    /\ pc[c] \notin Ended
    /\ Goto(c, "aborted")
    /\ \/ UNCHANGED tables
       \/ pc[c] = "commit" /\ Enter(c)
       \/ pc[c] = "trail" /\ Record(c)
    /\ UNCHANGED <<batch, outcomes, held, runs>>

\* A fault of driver, connection or process ends the run.  Its transaction is
\* rolled back, unless the fault only lost the answer of a commit.
Abort(c) ==
    /\ pc[c] \notin Ended
    /\ Goto(c, "aborted")
    /\ held' = [held EXCEPT ![c] = {}]
    /\ \/ UNCHANGED tables
       \/ pc[c] = "commit" /\ Enter(c)
       \/ pc[c] = "trail" /\ Record(c)
    /\ UNCHANGED <<batch, outcomes, runs>>

Step(c) == \/ Take(c) \/ Finish(c) \/ UpsertTemplate(c) \/ UpsertSpec(c)
           \/ InsertItem(c) \/ Commit(c) \/ RecordFailures(c)

Next == \E c \in Workers : Start(c) \/ Step(c) \/ Abort(c)

Spec == Init /\ [][Next]_vars

\* A run that is not waiting goes on, and PostgreSQL serves those who wait
\* for a key in order.  Nobody has to start a run.
Fairness == \A c \in Workers :
                /\ WF_vars(Take(c) \/ Finish(c) \/ Commit(c) \/ RecordFailures(c))
                /\ SF_vars(UpsertTemplate(c) \/ UpsertSpec(c) \/ InsertItem(c))

FairSpec == Spec /\ Fairness

-----------------------------------------------------------------------------
\* Every variable keeps its type, and keys are held in transactions only.
TypeOK ==
    /\ rows \subseteq Keys
    /\ ledger \subseteq [item : Keys, by : Origins]
    /\ trail \subseteq [by : Origins, check : Validators]
    /\ pc \in [Workers -> Ended \cup Writing \cup {"line", "trail"}]
    /\ batch \in [Workers -> Batches]
    /\ outcomes \in [Workers -> Seq(Outcomes)]
    /\ held \in [Workers -> SUBSET Keys]
    /\ \A c \in Workers : held[c] # {} => pc[c] \in Writing
    /\ runs \in [Workers -> 0 .. MaxRuns]

\* However runs overlap, fail and are repeated, an item is published at most
\* once, and exactly if its row exists.
EnteredOnce ==
    /\ \A e, f \in ledger : e.item = f.item => e = f
    /\ \A l \in Lines : ItemOf[l] \in rows <=> \E e \in ledger : e.item = ItemOf[l]

\* The n-th outcome c has counted is what the tables hold.
Reported(c, n) ==
    LET line == batch[c][n]
        by   == <<c, runs[c], n>>
    IN  /\ outcomes[c][n] = "accepted" => [item |-> ItemOf[line], by |-> by] \in ledger
        /\ outcomes[c][n] = "already-ingested" =>
               \E e \in ledger : e.item = ItemOf[line] /\ e.by # by
        /\ outcomes[c][n] = "rejected" =>
               {e.check : e \in {f \in trail : f.by = by}} = FailedBy[line]
        /\ outcomes[c][n] = "decode-error" => line \notin Readable

\* What the summary counts is what the tables hold: an accepted line was
\* published by this run, one counted as already ingested was published by
\* another line or run, a rejected one has left a failure row for each check
\* it failed; and a run that ended by itself has counted every line.
ReportTrue ==
    \A c \in Workers : /\ pc[c] = "done" => Len(outcomes[c]) = Len(batch[c])
                       /\ \A n \in DOMAIN outcomes[c] : Reported(c, n)

\* No run waits for ever for the keys of another one.
RunsEnd == \A c \in Workers : (pc[c] \notin Ended) ~> (pc[c] \in Ended)
=============================================================================
