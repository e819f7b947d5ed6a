----------------------------- MODULE Statistics -----------------------------
(***************************************************************************)
(* What is computed from the ledger of responses: item statistics          *)
(* (data/ctt), the health of an item (data/health), coverage of the targets*)
(* (data/coverage_gap) and the scoring of old responses anew (data/replay).*)
(***************************************************************************)
EXTENDS Integers, Sequences, FiniteSets, SequencesExt, FiniteSetsExt

CONSTANT NONE

SumOf(s, of(_)) == FoldLeft(LAMBDA n, x : n + of(x), 0, s)

-----------------------------------------------------------------------------
(* A response: [item, student, correct]. The total of a student leaves the *)
(* response out, other responses of the student to the item stay in it.    *)
TotalOf(records, student) == SumOf(records, LAMBDA r : IF r.student = student THEN r.correct ELSE 0)

(* _pearson, as what it is the quotient of: the covariance and the two     *)
(* variances, each times the square of the number; NONE without variance.  *)
Pearson(xs, ys) ==
  LET n == Len(xs)
      Cov(a, b) == n * FoldLeft(LAMBDA t, i : t + a[i] * b[i], 0, [i \in 1..n |-> i])
                   - SumOf(a, LAMBDA x : x) * SumOf(b, LAMBDA x : x)
  IN IF n < 2 \/ Cov(xs, xs) = 0 \/ Cov(ys, ys) = 0 THEN NONE
     ELSE <<Cov(xs, ys), Cov(xs, xs), Cov(ys, ys)>>

(* compute_ctt and compute_discrimination: of every item, and of one item  *)
(* that has been answered often enough.                                    *)
OfItem(records, item) == SelectSeq(records, LAMBDA r : r.item = item)
Discrimination(records, mine) ==
  Pearson([i \in DOMAIN mine |-> mine[i].correct],
          [i \in DOMAIN mine |-> TotalOf(records, mine[i].student) - mine[i].correct])
ItemStatistics(records) ==
  [item \in {r.item : r \in Range(records)} |->
     LET mine == OfItem(records, item)
     IN [size |-> Len(mine), right |-> SumOf(mine, LAMBDA r : r.correct), discrimination |-> Discrimination(records, mine)]]
DiscriminationOf(records, item, least) ==
  LET mine == OfItem(records, item) IN IF Len(mine) < least THEN NONE ELSE Discrimination(records, mine)

(* run_ctt_calibration: the parameters that are written. *)
Calibrated(records, least) == {item \in DOMAIN ItemStatistics(records) : ItemStatistics(records)[item].size >= least}

-----------------------------------------------------------------------------
(* evaluate_health. Rates are in hundredths, durations in seconds; options *)
(* are those of one version of the item, selections those of all of them.  *)
Median(s) ==
  LET sorted == SortSeq(s, <)  n == Len(s)
  IN IF n % 2 = 1 THEN 2 * sorted[(n + 1) \div 2] ELSE sorted[n \div 2] + sorted[n \div 2 + 1]

\* Mutation: an item that was hardly answered is judged like any other.
AnomaliesAlways(e, least) ==
  (IF 100 * e.right > 95 * e.size THEN {"correct_rate_too_high"} ELSE {})
  \cup (IF 100 * e.right < 5 * e.size THEN {"correct_rate_too_low"} ELSE {})

(* _detect_anomalies: none in a small sample. Twice the median is compared.*)
Anomalies(e, least) ==
  IF e.size < least THEN {}
  ELSE (IF 100 * e.right > 95 * e.size THEN {"correct_rate_too_high"} ELSE {})
       \cup (IF 100 * e.right < 5 * e.size THEN {"correct_rate_too_low"} ELSE {})
       \cup (IF e.discrimination # NONE /\ e.discrimination < 20 THEN {"low_discrimination"} ELSE {})
       \cup (IF e.answer # NONE /\ e.selected # <<>>
                /\ \E o \in e.options \ {e.answer} : ~Contains(e.selected, o) THEN {"no_distractor_selected"} ELSE {})
       \cup (IF e.durations # <<>> /\ Median(e.durations) < 2 * 2 THEN {"time_too_fast"} ELSE {})
       \cup (IF e.durations # <<>> /\ Median(e.durations) > 2 * 30 THEN {"time_too_slow"} ELSE {})
Health(e, least) ==
  IF e.size = 0 THEN [score |-> 0, anomalies |-> {}, insufficient |-> TRUE]
  ELSE [score |-> 10 - 2 * Cardinality(Anomalies(e, least)), anomalies |-> Anomalies(e, least),
        insufficient |-> e.size < least]

-----------------------------------------------------------------------------
(* compute_coverage_gap: a target: [cell, purpose, target]; the published  *)
(* items of a cell count for the targets of every purpose.                 *)
Purposes == {"practice", "diagnosis", "measurement"}
Smaller(a, b) == IF a < b THEN a ELSE b
CoverageCell(t, actual) ==
  [actual |-> actual[t.cell], gap |-> IF t.target > actual[t.cell] THEN t.target - actual[t.cell] ELSE 0,
   covered |-> IF t.target = 0 THEN 100 ELSE Smaller((100 * actual[t.cell]) \div t.target, 100)]
CoverageGap(profile, actual) ==
  LET Of(t) == CoverageCell(t, actual)
  IN IF \E t \in Range(profile) : t.target < 0 \/ t.purpose \notin Purposes THEN [kind |-> "refused"]
     ELSE [kind |-> "matrix", cells |-> [i \in DOMAIN profile |-> Of(profile[i])],
           target |-> SumOf(profile, LAMBDA t : t.target),
           actual |-> SumOf(profile, LAMBDA t : Smaller(actual[t.cell], t.target)),
           gap |-> SumOf(profile, LAMBDA t : Of(t).gap)]

-----------------------------------------------------------------------------
(* An event: [id, item, scene, old], old the earlier verdict or NONE. score*)
(* gives for an item a verdict, or why there is none. A run is told by its *)
(* event and its label, whatever version scored it.                        *)
Verdicts == {"right", "wrong"}

\* Mutation: events that were scored under the label are scored again.
OutcomeAgain(e, runs, label, score) == score[e.item]

(* _rescore_one_event *)
Outcome(e, runs, label, score) == IF <<e.id, label>> \in runs THEN "skipped" ELSE score[e.item]
Report(events, runs, label, score) ==
  LET outcomes == [i \in DOMAIN events |-> Outcome(events[i], runs, label, score)]
      done == {i \in DOMAIN events : outcomes[i] \in Verdicts}
      comparable == {i \in done : events[i].old # NONE}
  IN [rescored |-> Cardinality(done),
      skipped |-> Cardinality({i \in DOMAIN events : outcomes[i] = "skipped"}),
      failed |-> Cardinality({i \in DOMAIN events : outcomes[i] \in {"missing", "scorer_failed"}}),
      comparable |-> Cardinality(comparable),
      consistent |-> Cardinality({i \in comparable : outcomes[i] = events[i].old}),
      summary |-> {<<events[i].id, outcomes[i]>> : i \in done},
      runs |-> runs \cup {<<events[i].id, label>> : i \in done}]

(* incremental_rescore: the events of some items, of one scene or of all.  *)
IncrementalRescore(events, items, scene, runs, label, score) ==
  Report(SelectSeq(events, LAMBDA e : e.item \in items /\ (scene = NONE \/ e.scene = scene)), runs, label, score)

(* replay_all: the events of a scene, by the active estimator or a version *)
(* that is given; the old verdicts counted are those of all events, the new*)
(* ones of the events that were scored now.                                *)
Replay(events, scene, version, active, runs, label, score) ==
  LET mine == SelectSeq(events, LAMBDA e : e.scene = scene)
      r == Report(mine, runs, label, score)
  IN IF version = NONE /\ active[scene] = NONE THEN [kind |-> "refused"]
     ELSE [kind |-> "replay", report |-> r,
           oldTotal |-> Len(SelectSeq(mine, LAMBDA e : e.old # NONE)),
           oldRight |-> Len(SelectSeq(mine, LAMBDA e : e.old = "right")),
           newRight |-> Cardinality({x \in r.summary : x[2] = "right"})]

-----------------------------------------------------------------------------
(* Both computations of the discrimination agree, it is a correlation, and *)
(* an item that all students answered alike has none.                      *)
CorrelationSound(records, least) ==
  LET stats == ItemStatistics(records) IN
  \A item \in DOMAIN stats :
    LET d == stats[item].discrimination  mine == OfItem(records, item) IN
    /\ item \in Calibrated(records, least) => DiscriminationOf(records, item, least) = d
    /\ d # NONE => d[1] * d[1] <= d[2] * d[3]
    /\ stats[item].right \in {0, stats[item].size} /\ (\A r \in Range(mine) : r.correct \in {0, 1}) => d = NONE

(* An item is not blamed on a sample that is called insufficient, and no   *)
(* item loses more than four fifths of its health.                         *)
HealthSound(e, h) == (h.insufficient => h.anomalies = {}) /\ h.score \in 0..10 /\ (e.size > 0 => h.score >= 2)

(* What is missing and what is there add up to the target.                 *)
CoverageAddsUp(m) ==
  m.kind = "matrix" => /\ m.actual + m.gap = m.target
                       /\ m.gap = 0 <=> \A i \in DOMAIN m.cells : m.cells[i].covered = 100

(* Scoring anew accounts for every event, never writes twice under a label,*)
(* and a second time scores only what failed the first time.               *)
RescoreAccounts(events, runs, label, score, r) ==
  LET again == Report(events, r.runs, label, score) IN
  /\ r.rescored + r.skipped + r.failed = Len(events)
  /\ r.consistent <= r.comparable /\ r.comparable <= r.rescored
  /\ Cardinality(r.runs) = Cardinality(runs) + r.rescored
  /\ again.rescored = 0 /\ again.failed = r.failed /\ again.runs = r.runs

(* The share of right answers before and after is one of the same events   *)
(* only if nothing was skipped, failed or had no verdict before.           *)
SharesCompare(r) ==
  r.kind = "replay" /\ r.report.skipped = 0 /\ r.report.failed = 0 =>
    /\ r.newRight <= r.report.rescored /\ r.oldTotal = r.report.comparable
    /\ r.report.consistent = r.report.comparable /\ r.report.comparable = r.report.rescored => r.oldRight = r.newRight
=============================================================================
