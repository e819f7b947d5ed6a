# Verification of the practice platform (母题平台)

TLA+ models, TLC runs and TLAPS proofs for this repository. It holds two
programs with the same subject: the Go application (`core/`, `api/`, `cmd/`,
`db/`) and the Python service (`src/core/`, `src/api/`, `src/alembic/`,
`src/packs/`) that ADR-0007 has frozen. Both are modelled. Paths below are those
of the repository; `PROJECT.json` puts `src/` before them.

## 1. The system

### The Go application

| Part | State it keeps | Operations | Talks to |
|---|---|---|---|
| practice session (`core/session`) | `practice_session` row (status, `current_index`, `answered_count`, `last_resume_at`, `completed_at`), `response_submission` rows | Start, State, GetNext, Submit, Resume, Abandon | consent gate, event ledger, API |
| topic-order fixation (`core/session/topicorder*.go`) | the immutable `item_sequence` of a session | Create, Read | session |
| event ledger (`core/events`) | `response_event`, append-only | Record | session (same transaction) |
| consent ledger (`core/compliance`) | `parental_consent`, append-only, one chain per student and purpose | RecordGrant, Revoke, CheckConsent, History | session gate |
| PII vault (`core/compliance/vault*.go`) | encrypted identities, access log | Read/WriteIdentity, ListAccessLog | two executors, one for audit |
| content publication (`core/content`, `core/gate`, `core/models`) | `item_version` status, `publication`, `item.current_version_id`, certificates, gate runs | Publish, Verify, ingest | `cmd/ingest` |
| estimator pointer (`core/estimator`) | which model version is active per purpose | SetActive, GetActive, SwitchTrail | statistics, reports |
| assembly (`core/assembly`) | exposure ledgers of papers and students | load candidates, solve, record exposure | content |
| AI bus (`core/ai`, `core/ai/tts`) | targets, budget, call ledger, LRU of audio | Call, Allow/Observe, Synthesize | production, audio |
| audio (`core/audio`) | play counters, batches | Play, Reset, ProduceBatch | tts |
| API (`api`, `core/auth`) | token buckets | handlers, rate limiting, tokens | all services |
| scoring, review, production, knowledge, instantiation, statistics, report, render, monitor, registry, packs | little or none | pure functions, batches, projections | |

An API handler calls a domain service; the service opens one PostgreSQL
transaction through a runner (`cmd/school/assembly.go`), and everything the
stores do happens in it. The runner commits when the function returns no error
and rolls back otherwise. There are no background workers in the session and
consent domains; concurrency is that of callers (several devices, several tabs,
retries in flight) whose transactions interleave statement by statement at READ
COMMITTED, and failure is that of connections and processes. Tests run against
the in-memory stores, where a mutex replaces the transaction.

### The Python service

| Part | State it keeps | Operations | Talks to |
|---|---|---|---|
| gate (`src/core/gate`) | `gate_certificate`, `gate_run` | run the chain of a policy, judge, certify or file the refusal | every production line |
| production lines (`src/core/production`, `src/core/content`, `src/packs/*/word*`) | versions, templates, passages, groups, licenses, publications | D line, C line, word lines, issue page | gate, content tables |
| practice session (`src/core/session/service.py`) | the session row, `response_event` rows | start, state, next, submit, resume, abandon | scoring, events |
| review queue (`src/core/review`) | entries folded from the events | record, sync, due | events |
| consent, exposure, estimator (`compliance`, `assembly/exposure.py`, `data/active_model_pointer.py`) | three ledgers with unique keys and no locks | grant, revoke, record, switch | assembly, statistics |
| audio (`src/core/audio`, `src/core/ai/tts`, `game_session.py`) | cache of the speech bus, stored audio, play counters, games | produce a batch, play, answer | storage |
| item life cycle (`src/core/data/health.py`) | `item_lifecycle_transition` rows | transition, pool | gate |
| paper assembly (`src/core/assembly`) | none | compile a profile, solve, check a table | exposure |
| scoring (`src/core/scoring`, mathematics scorer) | none | score, parse a rubric, compare with human marks | sessions |
| instantiation, mathematics validators | none | lint, fill slots, distract, vary, check a second time | gate |
| values of the mathematics pack (`variable-types`) | none | compare, add, reduce, round, convert units, meet intervals | instantiation |
| nightly export (`data/parquet_export.py`) | a Parquet file and a manifest per day and scene | export | events, the warehouse |
| statistics (`src/core/data`) | `score_run` | item statistics, health, coverage, scoring anew | reports |
| migrations (`src/alembic`) | the catalogue | 31 migrations up and down | everything |

Its requests and jobs are coroutines with a database session each: between two
awaits any other may run, nothing is locked, and what keeps two writers apart is
a unique key or nothing. A call commits more than once: the gate commits its
certificate before the artifact is written, `record_event` its event before
the progress.

### What is hard, and what makes each part correct

Which row a decision was made on and which row it changes; two locks with
different keys (advisory lock by text, row lock by UUID); retries whose first
attempt is running, finished or lost; errors that also write; clocks read before
a wait; order of consent events and of the sessions they justify; stale copies
written back column by column; a budget asked before and charged after; a
certificate that is committed long before what it certifies; numbers that two
implementations round differently. `PROJECT.json` lists each hazard at its line.

* session: every answer is booked once, in the order of the items, judged on the
  row it changes; a retry is told the first event; tables agree after any
  failure; every call ends; ended sessions stay ended; what counts as answered
  was answered;
* consent: versions count the events; a revocation ends a grant that is in
  force; no session is opened without a consent in force;
* publication: what is published rests on a verified certificate of its own, and
  `current_version_id` points at it; testlets are whole; nobody is told of what
  is not on file;
* estimator: exactly one active run per scope and a past that stays;
* exposure: no item twice in a queue and week, all or nothing per paper;
* AI bus: no delivery without a ledger row, budget within a stated overshoot;
* life cycle: no item leaves the pool without a certificate;
* export: a reader finds a whole file, and a run that ends well has its answers in it;
* pure functions: what they report of papers, marks, items and numbers is so;
* migrations: a version has one catalogue, however it was reached.

## 2. Modules

| Module | What it is |
|---|---|
| `SessionRules` | the pure session domain, shared by both stores: `Verdict` (`validateSubmitAgainstSession`), `Advance` (the CASE of `AdvanceSessionAfterSubmit`), `NextVerdict` (`GetNext`), `MayResume`, `MayAbandon` |
| `AnswerLedger` | abstract specification of what the answers of a session promise; no clocks, statuses, locks or crashes |
| `SessionPG` | one session over PostgreSQL, one action per statement group, several callers |
| `SessionMemory` | one session over the in-memory store, one action per critical section |
| `ConsentGate` | one consent chain with concurrent writers, and the gate of `Service.Start` |
| `Publication` | `PublishService.Publish` under concurrent callers: versions, certificates, publication rows, current versions |
| `Ingest` | the program `cmd/ingest`: concurrent, aborted and repeated runs over files of items |
| `GateChain` | Python: every validator, the policy's chain, the verdict; operators |
| `Production` | Python: the production lines and the issue page over the content tables; extends `GateChain` |
| `Serving` | composes the eleven services below, each a scene of its own |
| `PracticeService`, `ReviewQueue`, `StudentLedgers`, `AudioBatch`, `PlayRoom`, `ItemLifecycle`, `Migrations`, `Archive` | Python services, scenes of `Serving` |
| `AIBus`, `ActivePointer`, `TopicOrder` | Go services, scenes of `Serving` |
| `Algorithms` | calls the functions that keep no state, one call per behaviour |
| `Assembly`, `Measurement`, `Scoring`, `Expressions`, `Instantiation`, `MathChecks`, `MathValues`, `Statistics` | these functions, operators called by `Algorithms` |
| `MC*` | values of the constants for TLC |
| `*Proofs` | theorems and their proofs, eight modules |

### SessionPG

One session is enough: sessions share neither rows nor locks. `row`, `events`
and `subs` are the committed `practice_session`, `response_event` and
`response_submission` rows. `pc`, `req`, `draft` are a caller's place in its
transaction, its request and its uncommitted writes. `acked` and `refused` are
what callers were told.

| Action | Code |
|---|---|
| `Begin` | `prepareSubmit` (fixes the time), the start of the other calls |
| `Lookup` | `pg_advisory_xact_lock` on the text of the session id, then `GetSubmissionByIdempotencyKey`; a hit ends the call |
| `Judge` | `GetSessionForSubmit` (`FOR UPDATE`), `validateSubmitAgainstSession`, and the writes its verdict allows: event, registration, advance, or the rest mark with an error |
| `Read` | the plain `RuntimeState` read of Resume, Abandon and GetNext, and their refusals |
| `Write` | the UPDATE of Resume, Abandon or MarkRestPrompted, without a predicate on the status, waiting for the row lock |
| `Commit`, `Rollback` | `poolTxRunner.InTx` |
| `Crash` | connection or process lost: rollback and unlock |

Statements that no other transaction can observe apart are one action: after the
row lock is held until the end of the transaction, the writes of `Judge` are
invisible to others until `Commit`, so they are computed at once and published
by `Commit`. The caller's spelling of the session UUID is part of the request,
because the advisory lock hashes the text while the tables compare the value.

### SessionMemory

Every store method is one action; GetNext over the `LocalRunner` is two (`Read`,
`Mark`), because the runner opens no transaction. The score bookkeeping
(`correctCount`, `wrongMarks`), which only this store does, is included. The
idempotency map is keyed by the caller's text of the session id.

### ConsentGate

`chain` is the `parental_consent` chain, `sessions` records for each opened
session how much of the chain its gate read, when it judged it, and how long the
chain was when the call began. `AppendEvent` is lock, read of the top and
insert; the lock lives until `Commit`. `Check` is the gate's plain read, `Judge`
the clock read after it, `RequireGranted` and the insert of the session. Callers may
give the time of an event (`GrantInput.At`), so it is any time.

### Publication

`status`, `certified`, `current` are the columns of `item_version` and `item` that
`Publish` writes, `published` the `publication` rows in commit order. Each caller
publishes once in its transaction; the writes are visible at `Commit`, and what
others notice before is that its rows are locked (`HoldsVersion`, `HoldsId`,
`HoldsItem`). Certificates, content and snapshots never change, so what they
prove of a version is given by constants.

| Action | Code |
|---|---|
| `Read` | `GetItemVersion`, the status switch, `verifyContentAddress`, `CertificateVerifier.Verify`, the snapshot |
| `Mark` | `UpdateItemVersionPublished`, which waits for the row and does not test the status |
| `Insert` | `InsertPublication`; a key that is taken ends the call |
| `Forward` | `ForwardItemCurrentVersion` |
| `Commit`, `Abort` | the transaction of the caller |

### Ingest

A worker is one run of the program with a database connection at a time. `rows`
are the committed keys of templates, template versions and items, `ledger` the
published items with the line and run their certificate and publication come
from, `trail` the `gate_failure` rows. `outcomes` are the counts of the summary,
kept by line. From `InsertItem` on, a transaction writes only under fresh keys or
under the key of its item, so version, certificate, gate runs and `Publish` are part
of `Commit`.

| Action | Code |
|---|---|
| `Take` | `runFile`, `decodeRecord`, the two checks |
| `UpsertTemplate`, `UpsertSpec` | the inserts that skip an existing key and wait for an uncommitted one |
| `InsertItem` | the insert of the item; a unique violation is counted as already ingested and rolls back |
| `Commit` | the rest of `writeLedger` and the commit |
| `RecordFailures` | `recordFailures`, in a transaction of its own |
| `Abort` | any other error: rollback, unless only the answer of a commit was lost; `runBatch` stops |

### GateChain and Production

A worker of `Production` is one call of one line with its own database session;
one action is what happens between two awaits that others could observe. The
tables of the content are variables, `asked`, `results`, `cert` and `seen` what
the call carries from one await to the next, `reply` what its caller was told.
A validator is an operator of `GateChain` on the values it reads; evidence,
confidence and cost are left out. A word line handles words in a loop; a call of
the model is one word of it, because nothing is carried from a word to the next.

| Action | Code |
|---|---|
| `Start` | the head of each line: what is refused before the gate, the first read, the templates of the English line |
| `Check` | one validator of the chain, sorted by cost tier; `run_gate` stops after a blocking failure, the word lines ask all |
| `Certify` | certificate, run rows and the flushed license of a C line, committed together |
| `Refuse` | the run rows of a refusal under `cert:none`, or the broken foreign key |
| `Report` | a word line without a certificate |
| `LookUpTemplate`, `Insert` | D line and word lines: template and version, a key that is taken rolls back |
| `WriteBack` | C line: passage, draft versions and group in one transaction |
| `Issue` | `issue_item_version`, on the row the session read before the gate committed |
| `Lose` | the call is cancelled or its connection lost |

### Serving

`Serving` has the variables of eleven services. They share no table, so interleaving
them would only multiply states: `scene` chooses one of them at the start, and
`Next` lets the callers of that one interleave in every way. Each service is a
module with `Init` and `Next` of its own and is instantiated without renaming;
its properties are those of `Serving` with the same name.

* `PracticeService`: `Ask` reads the row and decides on the copy, `Score` commits
  the event, `Write` updates the columns that differ from what was read
  (`Merged`, the unit of work of SQLAlchemy), `Lose` ends a request between its
  commits. `rest_prompted` is never stored, because the error leaves first.
* `ReviewQueue`: answers are committed in another order than they were created;
  `Rebuild` is the scheduler, for each item the latest of its answers applied to what
  the earlier ones lead to (`Replay`); a sync reads events, then entries, and writes the
  differing columns, or fails as a whole at a duplicate.
* `StudentLedgers`: consent, exposure and estimator rows; a transaction reads,
  inserts under unique keys, where it waits for an uncommitted row, and commits. A
  consent event is `CheckConsent` (a revocation only), `ReadVersion` (`MAX(version) + 1`) and
  `RecordEvent`, with awaits between them: of two writers that have read one version, the
  second waits for the first and then breaks the unique index of migration 0027. A
  query with `LIMIT 1` may take any of the rows of equal time (`ActiveAt`).
* `AudioBatch`: threads of a batch look up and fill an unlocked cache and store
  under the content id. `PlayRoom`: the play counter and the stars of a game.
* `ItemLifecycle`: the latest row is the state; a transition reads it, is
  certified, inserts later.
* `Migrations`: each of the 31 migrations as what it adds to and takes from the
  catalogue, and the stored rows at which it fails. A command runs several in one
  transaction.
* `Archive`: a run of the export is `Fetch`, `Judge` (the manifest), `Open` and
  `Close` of the temporary file, `Replace`, and `Note` and `Confirm` of the
  manifest; it may be killed between any two, answers and scores are added
  meanwhile, and two runs share the temporary names and even the bytes.
* `AIBus`: a call is `Ask` (key and cache), `Gate` (redaction and `Allow`),
  `Outbound`, `Observe`, `Record`, `Keep`, each under a lock of its own; refused
  and failed calls leave a row if it can be written.
* `ActivePointer`: the activation time is drawn or given in `Begin`, the scope lock
  is got in `Switch` and kept until `Commit` or `Abort`.
* `TopicOrder`: `Create` in memory is one critical section; over PostgreSQL the
  insert of a second call waits for the first and then finds itself in an aborted
  transaction.

### Algorithms

A behaviour is one call: `Init` chooses the function and its arguments from
the constants, one step computes the answer. A property relates arguments and
answer by a definition of its own, not by the algorithm. `Assembly` and
`Measurement` are the compilation of profiles, the greedy solver in its three
phases, the table of specifications with its two validators, and what the exact
search admits (not how it searches). `Scoring` has every scorer, the rubric and
the shadow comparison; `Expressions`, `Instantiation` and `MathChecks` the
expressions of templates, the engine, variants, the linter and the second
computation of an answer; `Statistics` item statistics, health, coverage and
scoring anew; `MathValues` the number types of the mathematics pack, of which only
some go together with each other and with Python's, units and intervals. Numbers are
exact fractions or tenths: the rounding of floats, the powers of expressions and
roots are left out, rounding of decimals is not. In `MathValues` a factor of a sixtieth, which the
unit table has in decimals, makes a value `near`, and nothing is claimed of it.
`Scoring` and `MathChecks` take two numbers for equal that differ by less than
`1 / Precision`, as `_answers_equal` does (`dual_check.py:358-364`, there 10^9; that the difference
is rounded to a float first is left out), and `Sixtieth` is the rounded factor of the
scorer's table (`math_equivalence.py:86-87`).

## 3. Runs

| Run | Question | Instance | Result |
|---|---|---|---|
| `pg` | do the tables agree and implement the ledger, are retries answered | 2 callers, orders `<<a,b>>` and `<<a,a>>` with a retest round, 2 digests, 2 spellings, clock 0..2, limit 1 | holds, 1.35 M states |
| `pg_live` | does every call end | 2 callers, 1 item, with and without retest | holds |
| `pg_terminal` | do ended sessions stay ended | as `pg` | violated, see 6 |
| `pg_rest` | is the rest mark recorded | as `pg` | violated, see 6 |
| `memory` | the same ledger over the other store, scores included | as `pg`, no crashes | holds, 1.2 M states |
| `consent` | versions, revocations, gate | 2 callers, 3 events, 2 sessions, clock 0..1 | holds, 1.7 M states |
| `publication` | do the tables agree, is only proved content published, does the status only move forward | 2 callers, 2 keys, 2 items with 4 versions, 6 certificates | holds, 0.8 M states |
| `publication_once` | is a version published at most once | as `publication` | violated, see 6 |
| `ingest` | is every item entered once, is the summary true, does every run end | 2 workers, 2 runs each, files with a repeated, a forged and a broken line | holds, 0.17 M states |
| `production` | is what the Python lines publish certified, whole and told, does every call end | 2 workers, 12 jobs: each line accepted and refused, equal and different artifacts, clock 0..1 | holds |
| `serving` | does each of eleven services keep its ledger, whatever overlaps or is lost | 11 scenes, 2 callers each | holds, 1.7 M states |
| `algorithms` | do the pure functions keep what they promise | every combination of small inputs | holds, 0.32 M states |

Bounds: two callers suffice for every race of two transactions, and each caller
may make any number of calls; the proofs cover more. Two items give a last and a
not-last answer; the order with one item twice covers the duplicate, which no
code forbids. Clock 0..2 with limit 1 has answers in time, at the limit and over
it, and resumes that move the anchor. Three consent events are grant, revoke,
grant; clock 0..1 has windows that are closed at once, closed later and open.
`MaxTime`, `MaxEvents`, `MaxSessions` bound what grows, and appear as guards.
In `publication` one item has two good versions, of which the first has two
certificates, the other item a good version and one without a snapshot, and one
certificate is for retiring; two keys give equal and different ones. In `ingest`
the two files share two items, one of them twice, and two templates; a second run of a worker
is the repetition after an abort, and `MaxRuns` bounds it.
In `production` two workers are two calls that overtake each other, of one job or of
two; each line has a job that passes and one that is refused. Two passages have
the same subtasks, two pages the same draft, two tasks the same template, and `MaxTime` 1
lets a license expire.
In `serving` two callers are enough for every lost update of two; `MaxEvents` 3 has
two items and a retest, `MaxAnswers` 3 a wrong answer after a right one, `MaxTransitions` 4 the way
to the retired state and back, `MaxMoves` 7 a game with more answers than items,
`MaxDays`, `LastDay` and `MaxRows` a week and the day after with one row more than two
callers need; every sequence of migration commands is run, not bounded at all.
`Limit` 3 is passed by two calls together, `Capacity` 1 makes every second text
evict, `MaxSwitches` 4 has each of two callers switch twice. `MaxExports` 3 is a run that
is killed, one that repairs and one that has nothing to do, over two answers and a score. In
`algorithms` a pool is any subset of the plain candidates, or all of them with a crowd
of groups and shared templates; a text is a class of texts that the code tells apart; the
expressions of templates nest less than `Depth` 6 deep.
`Precision` is 40 and `Sixtieth` 17/1000 in `algorithms`, coarser than the code's, so that among
numbers of two digits there are some that are not the answer and count as equal, some that are
just too far, and conversions that the rounding of the table moves across that line, all within
TLC's integers of 32 bits; the theorem is about every precision and every such factor, the code's among them.
The numbers of `MathValues` have both signs, halves and thirds, every type and both kinds of
numerals; its amounts divide by the factors of the table and do not.
Symmetry sets are used only without liveness: callers, spellings and digests are
interchangeable. Records are written with their fields in one order throughout a
module; TLC's workers otherwise race to sort them.

A definition whose comment begins with "Mutation" is the definition that follows
it with a plausible bug. No specification uses it; put in place of that
definition, it shows that a property notices the bug.

The properties, beyond one `TypeOK` per module:

* `TablesAgree`: both progress counters are the number of events, registrations
  are the events, `completed_at` is set exactly when the order is exhausted
  without a retest round.
* `BookedAnswerStillValid`: at the commit, the row is still one on which the
  answer would be accepted. It fails if the row is not locked by the read.
* `RetryNotRefused`: a registered key is never answered with an error, on ended and
  overdue sessions too. Carved out: a retry that spells the session differently
  and runs concurrently, see 6.
* `ImplementsLedger`: refinement of `AnswerLedger` under `answers <- events`,
  `acks <- acked`, `closed <- row.closed`.
* `EveryCallReturns`: no lock cycle and no starvation.
* `AccountsAgree`: counters, marks, map and ledger of the in-memory store.
* `OnlyLateMarkReopens`: in the in-memory store a session leaves its terminal
  status only by the second half of a fetch that had read it as open.
* `VersionsCount`, `RevokesEndGrants`, `OpenedWithConsent` for the consent chain;
  the last two are stated without the code's own judgement `StateAt`.
* `Accounted`: keys are distinct, a version is published exactly if it has a row,
  it carries the certificate of its latest row, and an item points at the version
  of its latest row.
* `OnlyProvedPublished`, `StatusMovesForward` for the reads that precede the writes.
* `EnteredOnce`: at most one publication per item over all runs, exactly if its row exists.
* `ReportTrue`: each counted outcome is what the tables hold, failure rows included.
* `RunsEnd`: runs that insert the same keys do not wait for ever.
* `CertifiedIsClean`, `PublishedBacked`, `GroupsWhole`, `ToldIsOnFile`, `PublicationsKept`,
  `EveryCallEnds` for the Python lines: they relate certificates, runs, artifacts
  and replies that different transactions of different calls have written.
* `AnswersBacked`, `EndedStays`: what the stale copies of the Python session cannot
  break. (They do break the index: an answer may be asked for twice.)
* `RebuildCounts`, `SyncRestores`: the fold against its history, and the repair of mixed
  columns by the next sync that is alone. `RebuildCounts` also asks of the export
  (`ArchiveHolds`), while no two runs overlap, that a reader finds a whole file or none
  wherever a run was killed, and that a run that ends well leaves every answer it read in the file.
* `LedgersSound`, `PastKept`: unlocked writers parted by unique keys only. Two writers may have read
  one version of the consent chain, and yet the chain has no double and no gap; a revocation has
  a consent in force somewhere before it. That it ends the grant just before it, as `RevokesEndGrants`
  says of the Go ledger, which locks the chain before it reads, is not so here, see 6.
* `ListeningHonest`: an audio is that of its job, a batch accounts for all jobs, plays and stars are counted.
* `LeftOnCertificate`: an item leaves the pool only on a certificate, each row from a real state.
* `MigrationsReversible`: the catalogue of a version is that of a fresh database.
* `SpentBounded`: overspending is at most one call of each caller.
* `AudioAccounted`: what was delivered or cached is on the ledger, the cache is bounded and has no key twice.
* `AnswersTrue`: one estimator is active and no conflict is told without one; who is
  told that an order is fixed has fixed this one.
* `PapersLegal`, `MarksFaithful`, `NumbersHonest`, `ChecksAgree`: see the comments in `Algorithms`.
  Of a quantity, `MarksFaithful` asks (`SameQuantity`) that the full mark needs units that go together and
  a value that the code cannot tell from the answer or one within a tolerance whose rule holds,
  and that the answer itself gets it. `ChecksAgree` tries the second computation with the
  answer, with one more and less, and with values at the edge of the precision.
  Of `MathValues`, `NumbersHonest` asks that order, equality, hash and sums agree, that
  rounding goes to the nearest, that conversions close and that overlapping intervals meet.

Deadlock is checked in the runs of single Go components but `ingest`: callers may
always begin there. It is not checked in `ingest`, `production`, `serving` and
`algorithms`, which stop by design: a batch ends, a call of a line is made once,
bounds are reached, a function has answered.

The type invariants of `SessionMemory`, `ConsentGate`, `Publication` and `Ingest`
are proved and no longer run; that of `SessionPG` is both.

## 4. Fairness

`FairSpec` assumes that an enabled `Read`, `Commit` or `Rollback` is eventually
taken (weak: the program runs on, nothing else can disable it but a crash), and
that a lock that is free again and again is eventually got by a waiter (strong:
PostgreSQL grants advisory and row locks from a queue). Nothing is assumed about
callers (`Begin`), the clock or crashes. `Ingest` assumes the same of its steps: weak
for those that wait for nobody, strong for the inserts that wait for a key;
nothing for `Start` and `Abort`.
`Production` assumes weak fairness of each worker's steps: an event loop resumes a
coroutine whose await is over, and no step waits for another call; nothing is
assumed of `Lose` and the clock. `Serving` and `Algorithms` state no fairness
and no liveness.

## 5. Proofs

For every number of callers, items, digests, spellings, orders and time bounds.
The named assumptions: `ItemsAssumption`, `OpeningsAssumption` (an order is not empty
and is no longer than `MaxItems`), `TimesAssumption`, `ClientsAssumption`,
`BoundsAssumption`; for the Python modules `JobsAssumption`, `PolicyAssumption` (a policy
that loads), `NoneAssumption`, `TextAssumption` (NONE is no text), `IntervalsAssumption`,
`BandsAssumption`, `DaysAssumption`, `StarsAssumption`, `FilesAssumption` (a file that is not
there holds no rows), `RunsAssumption` and `ReviewAssumption` (neither a run of an estimator nor
an entry of the queue is absent; a student has finitely many items), `PlaysAssumption` (what may be
heard is heard once at least), `TokensAssumption` (tokens are counted, a limit may be none, a cache
holds an entry), `VersionsAssumption`, `OrdersAssumption`. `CanonicalAssumption` names one of
the spellings of a session, `RowsAssumption` and `LinesAssumption` say of which kind the rows
and lines are. TLC evaluates each in the run of its module.

What the scorers are given is described in `Algorithms`: `ExactAssumption` (an answer is a text,
a list, a set or a mapping, compared with a response of the same kind), `MathAssumption` (a
quantity is a fraction with a unit or without, a tolerance is a fraction), `RepliesAssumption` (the model's reply is
unreadable or a list of marks), `CasesAssumption` (a case has human marks:
`shadow_mode.py:533`), `RubricsAssumption` (the bands of a dimension hold a mark that is not
negative: `rubric_template.py:59` has `ge=0`), `BindingsAssumption`, and `StepsAssumption`: no
step takes points away. The last one is meant by the schema of the steps (`scorer.yaml:107`)
but not stated there: of a step with negative points, `StepsCount` can be false.

What papers are made of, too: `PaperAssumption` (a pool is finite and its candidates have
distinct ids; groups are named apart from items, `item_group_assembler.py:113`; a rate is not
negative, `candidates.py:52`; a quota asks for one at least, `profile.py:70`) and
`RankAssumption` (the stable hash of two ids is not the same: it is SHA-256, and the
tie of two equal ones is the only thing that would be lost). `TableAssumption` says that numbers
are whole in the model's tenths and that a key joined by a slash names one content and one
level, which is so because none of the six levels has a slash. `MeasurementAssumption`,
`ListeningAssumption` and `BandAssumption` say which arguments are numbers and which bands there are.
`NoneAssumption` keeps NONE apart from numbers and reasons. `PrecisionAssumption`: the precision is a
positive number and the sixtieth a positive fraction.

`SessionPGProofs`: the invariant `IInv` adds to `TypeOK` and `TablesAgree` what a
caller between its row lock and its commit may rely on: at most one caller holds
the row, its draft was computed from the row as it still is (so its commit is a
ledger step), two callers with one spelling are not between lookup and commit
together, and a caller that has missed in the lookup misses until it commits
unless another spelling booked the key. `TablesAgree` alone is not inductive: a
commit publishes a draft, and nothing in the tables says where the draft came
from. From `IInv` follow `TypeCorrect`, `TablesAlwaysAgree`, the action properties
`BookedAnswersStillValid` and `RetriesNotRefused`, and `Refinement`: the initial
states map to initial states, `Commit` of a booking maps to `Book`, a hit to
`Acknowledge`, everything else stutters.

`ConsentGateProofs`: one writer at a time is between its read of the top and its
commit; its draft carries the version after the top and, for a revocation, a top
that is in force; what a start has read is a prefix of a chain that only grows.
From it follow `VersionsAlwaysCount`, `RevokesAlwaysEndGrants` and `GateHonoured`.

`PublicationProofs`: nothing about statuses is known between `Read` and `Commit`, so
the invariant says what survives: the version and certificate of a caller that has
read were proved, and the version is not retired; the key of a caller past `Insert`
is neither in a row nor that of another such caller. That versions and items are locked is not
needed: whatever commits last wins everywhere at once. From it follow
`TypeCorrect`, `AlwaysAccounted`, `NothingUnproved` and `OnlyForward`.

`IngestProofs`: a worker between the insert of an item and its commit is alone with its
key, which no committed row has; and no table holds the name of a line that
its run has not dealt with yet (`NamesPast`), so that a row that exists was entered
by another line or run, and the failure rows of a line are those just written.
`LinesAssumption` says that the keys of items are not keys of the template tables
(a key in the model stands for a table and an id). From it follow
`TypeCorrect`, `ItemsEnteredOnce` and `ReportsTrue`.

`SessionMemoryProofs`: one critical section books an answer, so `AccountsAgree` is
inductive once the invariant (`IInv`: `TypeOK`, `CallOK`, `AccountsAgree`, `LedgerOK`) adds that events follow
the order of the items and that a pair of key and spelling is booked once; the
count of right answers is followed by a lemma on the score of an appended trace.
From it follow `TypeCorrect`, `AccountsAlwaysAgree`, `OnlyLateMarks` and `Refinement`.
What both stores need of `Verdict` and `Advance` are lemmas of each store's own module,
about its own instance of the operators.

`ProductionProofs`: no table forgets (`Grows`): certificates are only appended,
versions and passages never go away. Thus what a call knew when its gate signed
(`Call`: its certificate is for its artifact and stands for its results) still holds
when it writes, whatever the others did between. `IInv` joins this for each worker
with `TypeOK`, the properties themselves and what each was told (`Told`). From it
follow `CertificatesAreClean`, `PublishedIsBacked`, `GroupsAreWhole`,
`AnswersAreOnFile` and `PublicationsAreKept`.

`ServingProofs`: an invariant for each service that has a theorem; that the other scenes
leave its variables alone is proved, too.

* `PracticeInv`: the row and each copy in flight say no more than the events on record
  (`Copy`), and a merge takes every column from one of two such copies; so
  `AnswersAreBacked` and `EndsAreFinal`, although nothing is locked.
* `LifeInv`: rows are never taken away, so the state that a transition read was real; so
  `LeavingIsCertified`.
* `LedgerInv`: a version that was read is the next one or taken by now, and a revocation that was
  checked has a consent of its day behind it (`Reading`); the unique index lets only the next
  version in, an insert waits for its key (`Apart`), and so what it will commit is still the next version or
  the revocation of a consent that was in force (`Holding`, `Backed`). Hence `LedgersAreSound`.
* `RunsInv`: the run that a switch has retired is the active one and no other switch's (an
  update waits for the row, an insert for the index of active runs); a lemma says that
  retiring it changes what no earlier day reads. So `PastIsKept`.
* `ReviewInv`: entries are written only for items once answered wrong, and never taken
  away. A lemma carries the closed form of an entry (`Counted`: the stage and due day that the
  last wrong answer and the right ones after it give) over one more answer, and then over
  every finite history by its size. So `HistoriesCount` and `SyncsRestore`.
* `ArchiveInv`: while runs do not overlap, the rows of a run that is under way are between
  those of the file and those on record, and the manifest names nothing that is not in the
  file (`Undisturbed`): the part of `HistoriesCount` about the export.
* `BusInv`: what is paid and not yet booked is counted as a set of tokens (`Unbooked`), and
  what is booked leaves room for the dearest answer to every call under way (`Open`),
  because a call passes the budget only below the limit; so `SpendingIsBounded` and, with
  what is known of the cache (`Cached`), `AudioIsAccounted`.
* `AudioInv`: whatever cache and storage hold under an id was spoken for a job with this
  id (`Told`), by whichever thread. `RoomInv`: the log of a game, its counter and its last
  preview agree, and plays are granted up to the limit. So `ListeningIsHonest`.
* `PointerInv`: what was read under the scope lock is in force until the commit, and the
  active run is the last one. `OrderInv`: while one caller commits an order there is none, and
  whoever was told anything knows that there is. So `ToldTruly`.

`AlgorithmsProofs`: the invariant of `Algorithms` is short (a call is one of the constants'
and its answer is that of its own scorer, `CallFits` and `AnswerFits`), because a behaviour is
one call; the work is in the operators. A total, a list without repetitions and a flattened
list are functions that count up (`Follows`); the lemmas say that such a function exists and
is the only one, and what holds of it at every step, from the first. From these: a
total of parts is the total of the wholes only if each part is whole (`TotalOfWholes`), which
gives the full mark for every step that carries points and only for them
(`StepwiseCounts`); as many parts of an answer are right as there are only if each is
(`PartsRight`, by the cardinality of the set of right ones), which gives the full mark to the
answer alone (`ExactAnswers`); the mark of a dimension is in its bands and the total between the
sums of the bands (`ModelScores`); a factor of the table of units is the quotient of what both
units measure, or the rounded sixtieth where that is one sixtieth (`Conversions`); how far a
quantity is off the answer, told with the factor and told with the measures, differs by no more
than the rounding moves it (`Carried`, `Comparison`), so that what is marked right is the same quantity up
to the precision and the rounding, or within its tolerance (`QuantityFaithful`); and `ShadowCounts`, `RecordsOnce`. Together: `MarksAreFaithful`. The proof
corrected the property: an earlier `SameQuantity` compared sizes by a table of lengths only, and was false of
minutes, seconds, grams and kilograms, which the run did not offer then and does now.

The same module proves `PapersAreLegal`: the five functions behind a paper, for every profile,
pool and table. The invariant is as short (`PaperCallFits`, `PaperAnswerFits`); what is proved
of the greedy solver is this.

* A sort is the list whose i-th member has i - 1 members before it (`InOrder`). For a strict
  total order on a finite set there is one such member at every place, because the number of
  members before it is an injection into as many numbers as there are (`Ordered`): so a sorted
  list has every member once and in order.
* The units part the eligible candidates: each unit is that of each of its members (`UnitsFit`, `OwnUnit`),
  no two of them have the same rank, and the list of units holds each once (`UnitsListed`).
* `Selections` is what every loop keeps: units of the list, none twice, no two with a common
  template if the profile forbids it. Taking a unit keeps it (`TakeKeeps`, `BestKeeps`), so a
  selection is what is made in the end (`SelectionMade`), and its members are as many as its
  sizes add up to (`SizesAre`, `SumOfParts`). Hence a paper is injective, whole in its groups, free of
  common templates and as long as its minimum; an isolated quota is served by one item a unit
  (`ServingCounts`, `PaperIsLegal`).
* Completeness is the other direction: a quota that the loop leaves short has been offered every
  unit, so without the rule on templates all that serve it were taken (`QuotaFilled`,
  `ShortOnlyOfAll`), the later loops take away nothing (`StaysShort`), and so a point that a
  refusal names is short of eligible candidates (`ShortIsShort`). That the units taken in phase 2
  do not fill a quota is part of it: the code tells the conflict after phase 1, the model after phase 2.
* Every candidate is eligible or has one of eight reasons, and the candidates with a reason are parts
  without a common member: `DropsAddUp`.
* `CompiledFits`: what the compilation gives is what the solver may be asked (every quota of one at
  least, equal points with equal quotas, a soft maximum only with its decision on record).
* `TablesAgree` (the trigger compares each key with those before it, the class all of them),
  `SearchIsHonest` (the cells are parts of what is placed; a cell with too few candidates of its
  own has no placement), `ListeningIsLegal` (what is kept and what is not are the list together,
  `KeptCounts`; shares are rounded inwards) and `BandIsKept`.

For this `Assembly` and `Measurement` had to be definitions that can be reasoned about: sums, loops and
lists are functions that count up, no recursive operator and no fold with a parameter. TLC compared
the former and the present definitions on every input of the run before they were replaced.

Only model-checked: `EveryCallReturns`, `RunsEnd` and `EveryCallEnds` (liveness is out of
the prover's reach); `MigrationsReversible`, a fact about 31 given programs, for which running
them all is the proof and no constant is left to generalise; and `NumbersHonest`
and `ChecksAgree` of `Algorithms`. Nothing stands in the way of those two but their size:
expressions are evaluated by functions on the nodes of a tree (`Parts`), and the numbers of the
mathematics pack are fractions whose common forms are found by division. No module
declares a recursive operator: `Replay` is a recursive function on the subsets of a finite set of answers, whose existence and value
`ReplayExists` and `ReplayFacts` prove by well-founded induction on their number.

## 6. Where code and text disagree

* `pg_rest`: the rest mark is written in the transaction that the error reporting
  it rolls back, so over PostgreSQL no session ever becomes `rest_prompted`
  (`service.go:317-318`, `pg.go:45-46`). The protection still works, because the
  anchor is compared on every call.
* `pg_terminal`: Resume and Abandon test the status in one statement and overwrite
  it in another; a session that another call has completed or abandoned in
  between becomes active or abandoned (`service.go:87-94`).
* `publication_once`: `Publish` tests the status in one statement and overwrites it in
  another, and `publication` is unique in its key only; a version two calls have
  read as a draft is published twice, with two rows (`publish.go:54-55`). The only
  caller today, `cmd/ingest`, publishes a version that no other transaction sees, and
  `EnteredOnce` holds for it.
* `cmd/ingest` ends with exit status 0 after an aborted batch if a line was accepted
  or nothing was rejected (`main.go:98-107`); the abort is only printed.
* Over the in-memory store a late `MarkRestPrompted` reopens a session, too; the run `memory`
  shows that it is the only way.
* Two spellings of a session id take different advisory locks, so a concurrent
  retry in another spelling may be refused (out of sequence, completed, or by
  the key) although `submit.go:142-145` promises the first event id.
* `correct_count` and `wrong_marks` are never updated over PostgreSQL.

Without a run of their own, met while modelling; the models do what the code does.
Go:

* `topicorder_pg.go:27-30` promises an idempotent success for a repeated order, but
  reads the stored order after a unique violation in the transaction PostgreSQL
  has aborted (25P02), so the repetition gets an error (`Insert` of `TopicOrder`).
* `budget.go:10-11` says that the true consumption is never higher than what was asked
  for; the speech target is registered without a limit (`synthesizer.go:200-208`), so
  the estimate of a speech call is its input only (`bus.go:360`).
* The estimator's activation time is drawn before the scope lock (`estimator/pg.go:49`);
  `SwitchTrail` (`pg.go:141-143`) orders by it and may name a predecessor that was not
  active. The in-memory store keeps the true one.
* `ErrActiveConflict` also arises from the key of version and time, while
  `pointer.go:38-42` speaks of the index of active runs only.

Python:

* `run_gate` files a refusal under `cert:none`, which no migration creates; without
  it the insert breaks `fk_gr_certificate` and the caller gets an error and no trail
  (`orchestrator.py:364-373` promises the trail).
* The default policy asks the D line for required keys and a database its context
  does not carry, so it never passes; `fact_check` never passes for a passage.
* `issue_item_version` judges the row it read before the gate committed; two
  issuers publish a version twice. The foreign key of 0028 only demands that the certificate exists.
* A failed write-back of the C line leaves its certificate behind. The D line tests and inserts
  a template without a lock and writes no publication row. The English word line
  sees to its templates and skips existing versions, the Chinese one does neither.
* The greedy solver fills quotas without asking the hard maximum
  (`heuristic.py:291-305`), so a group may make a paper too long, although lines
  13-14 promise an `InfeasibleError`. The exact solver reports a time-out as infeasible.
* `health.py:21` calls RETIRED terminal; a transition that read the item before its
  retirement and inserts after it brings it back (`health.py:450`).
* A late write of the session may push its index back or lose a wrong mark;
  completed and abandoned may overwrite each other. The rest mark is never committed.
* `revoke_consent` asks for a consent in force, reads the version and inserts in three
  statements without a lock, so of two revocations that have both found the consent the
  second may follow the first (`parental_consent.py:236-247`), which the comment there rules out.
* `check_consent` does not look at `valid_from`: a consent that begins tomorrow is in force today.
* Without a tolerance the mathematics scorer is to compare exactly
  (`math_equivalence.py:199`, `:314`); the comparison it calls takes every difference below 1e-9
  for none (`dual_check.py:361`), so `0.3333333333` is `1/3` (`Equal` of `Scoring`).
* Overlapping syncs may leave an entry with columns of two states; `enqueued_at` is
  never compared.
* A game accepts more answers than it has items, after which `finish` refuses for
  ever (`game_session.py:137`, `:166`).
* The rubric scorer reads a missing "correct" dimension as 0; `compute_consistency`
  and its detail disagree (`shadow_mode.py:161-173`, `:187-209`).
* The item id is computed from normalised parameters, the answer from raw ones;
  slot bounds are never checked; variants may repeat; `kp_set_unchanged` is a constant.
* The second computation of the mathematics pack rounds decimal quotients down, the
  engine toward zero; it divides in both branches of a condition; boolean answers
  raise an uncaught error.
* Rescoring recognises a repeated run without its version, though its text says otherwise;
  old totals count all events, new ones the rescored.
* Two overlapping exports write one temporary file; a reader may see a torn archive, although
  `parquet_export.py:317-319` speaks of atomic writing, and the manifest may name rows that
  the file does not have, after which every later run skips. A run killed between file and
  manifest, followed by a score that returns to what the manifest says, leaves the file with
  the other score. (TLC shows both when `ArchiveHolds` loses its `alone` or asks for scores.)
* An interval without points is kept as it is, although `variable_types.py:510` says it is
  normalised; `interval_overlap` is then true where no point is common (`functions.py:387`).
  `Decimal("100")` prints as `1E+2` against `variable_types.py:335-336`.
* A km goes to cm and an h to s, but not back; minutes and seconds lose digits on the way;
  `convert_unit` refuses the pack's own numbers. `MathInteger(1) == 1`, but their hashes
  differ; `Fraction(1.5)` is 1.
* After a downgrade to 3 a function of 0004 stays; roles survive; 0027 cannot be
  applied when two consents share a version; 0028 cannot be undone while a run has no
  certificate.

## 7. What is not modelled, and why

* Of the Go application: the PII vault, tokens and token buckets (one call, one row or one
  clock; no order of two actors decides anything but numbers), the consent ledger in
  memory (a mutex around the same core), exposure, scoring, statistics, instantiation and
  audio playing (ports of the Python parts that are modelled), FSRS, IRT and Elo (real numbers),
  production, reports, rendering, static registries and packs, command-line
  drivers.
* Of the Python service: the duration guard, which nothing uses; adapters of models,
  redaction and encryption (text and cipher); knowledge graph and corpora (loaded
  from files); rendering, reports and scripts.
* Within modelled parts: texts, prompts and evidence; floats, the powers of
  expressions and roots, the digits numbers are printed with; the columns of the export;
  the search of the exact solver.
* Seen and left without a property: `Start` of the Go session draws a fresh id for
  every call, so a repeated start opens a second session (`service.go:252`);
  `correct_count` and `wrong_marks` over PostgreSQL (`pg.go:132`); the in-memory exposure
  ledger keeps the rows before a duplicate (`exposure.go:222`); a pruned token bucket
  gives a full burst again (`ratelimit.go:205`); an identity is delivered together
  with the error of its audit row (`vault.go:378`).

What is left to do: theorems for the other two properties of `Algorithms`, item by item of
`NumbersHonest` first; the in-memory exposure ledger against
the one over PostgreSQL; and the report and monitoring queries as functions of the
modelled tables.
