------------------------------ MODULE Scoring -------------------------------
(***************************************************************************)
(* Marks for one response: the platform scorers (scoring/platform_scorers),*)
(* the rubric of the model and its reply (rubric_parser, ai_rubric_scorer),*)
(* the scorer of mathematics (subject-math/scorers/math_equivalence), the  *)
(* causes told with a mark (scoring/service) and the shadow comparison     *)
(* with human marks (shadow_mode). A full mark is Whole parts; confidences *)
(* are in tenths.                                                          *)
(***************************************************************************)
EXTENDS Integers, Sequences, FiniteSets, SequencesExt, FiniteSetsExt

CONSTANTS NONE,
  Precision,   \* numbers that differ by less than 1 / Precision count as equal: 10^9 in the code
  Sixtieth     \* the factor of s -> min and min -> h: 0.0166666666666666666666666667 as <<n, d>>

Whole == 12
Mark(correct, errors, confidence) == [correct |-> correct, errors |-> errors, confidence |-> confidence]
Unscored == Mark(0, <<>>, 0)
Total(s) == LET sum[n \in 0..Len(s)] == IF n = 0 THEN 0 ELSE sum[n - 1] + s[n] IN sum[Len(s)]

-----------------------------------------------------------------------------
(* normalize_text: a text is a word in full-width letters, in capitals or  *)
(* with blanks around it; each option undoes one of them.                  *)
Normal(t, norm) == [word  |-> t.word,
                    wide  |-> t.wide /\ "fullwidth_to_half" \notin norm,
                    blank |-> t.blank /\ "strip" \notin norm,
                    upper |-> t.upper /\ "casefold" \notin norm]
SameText(a, b, norm) == Normal(a, norm) = Normal(b, norm)

(* ExactMatchScorer: what is right of the parts of an answer.              *)
JudgeScalar(answer, response, norm) ==
  [part \in {"answer"} |-> response # NONE /\ SameText(response, answer, norm)]

JudgeOrdered(answer, response, norm) ==
  LET parts == Len(answer) + (IF Len(response) > Len(answer) THEN 1 ELSE 0)
  IN [i \in 1..parts |-> i <= Len(answer) /\ i <= Len(response) /\ SameText(response[i], answer[i], norm)]
JudgeSet(answer, response, norm) ==
  LET actual == {Normal(t, norm) : t \in Range(response)}
      extra == actual \ {Normal(t, norm) : t \in Range(answer)}
  IN [i \in 1..(Len(answer) + Cardinality(extra)) |-> i <= Len(answer) /\ Normal(answer[i], norm) \in actual]
JudgeMapping(answer, response, norm) ==
  [k \in DOMAIN answer |-> k \in DOMAIN response /\ SameText(response[k], answer[k], norm)]
Judged(p, response) ==
  CASE p.form = "scalar" -> JudgeScalar(p.answer, response, p.norm)
    [] p.form = "ordered" -> JudgeOrdered(p.answer, response, p.norm)
    [] p.form = "set" -> JudgeSet(p.answer, response, p.norm)
    [] p.form = "mapping" -> JudgeMapping(p.answer, response, p.norm)

ExactMatch(p, response) ==
  LET parts == Judged(p, response)
      total == Cardinality(DOMAIN parts)
      hits == Cardinality({k \in DOMAIN parts : parts[k]})
  IN IF p.form = "none" THEN Unscored
     ELSE Mark(IF total = 0 THEN 0 ELSE IF p.perItem THEN (Whole * hits) \div total
               ELSE IF hits = total THEN Whole ELSE 0, <<>>, 10)

(* KeypointHitScorer: a point is hit if any of its patterns is found; a    *)
(* regular expression meets the normalised text as it was written.         *)
Found(pattern, texts, norm) ==
  (IF pattern.regex THEN pattern.text ELSE Normal(pattern.text, norm)) \in {Normal(t, norm) : t \in texts}
KeypointHit(p, texts) ==
  LET Hit(kp) == \E pattern \in kp.patterns : Found(pattern, texts, p.norm)
      Missed(kp) == IF ~Hit(kp) /\ kp.error # NONE THEN <<<<kp.error, kp.id>>>> ELSE <<>>
      total == Total([i \in DOMAIN p.keypoints |-> IF Hit(p.keypoints[i]) THEN p.keypoints[i].score ELSE 0])
      pass == IF p.minPass = NONE THEN \A i \in DOMAIN p.keypoints : Hit(p.keypoints[i]) ELSE total >= p.minPass
  IN IF p.keypoints = <<>> THEN Unscored
     ELSE Mark(IF pass THEN Whole ELSE 0, FlattenSeq([i \in DOMAIN p.keypoints |-> Missed(p.keypoints[i])]), 10)

-----------------------------------------------------------------------------
(* parse_rubric: a dimension: [id, bands], the marks that it may be given. *)
MaxDimensions == 16
RubricParses(rubric) ==
  /\ rubric # <<>> /\ Len(rubric) <= MaxDimensions
  /\ \A i \in DOMAIN rubric : rubric[i].id # NONE /\ rubric[i].bands # {}
MostOf(rubric, given) == IF given # NONE THEN given ELSE Total([i \in DOMAIN rubric |-> Max(rubric[i].bands)])

(* parse_ai_response: NONE for a reply that cannot be read, otherwise the  *)
(* marks: [id, score, reason, confidence]. Of two marks for a dimension the*)
(* later one counts, marks for others are ignored; a mark is moved into its*)
(* bands, one without a reason is trusted little.                          *)
Reviewed == 6
MarkOf(reply, d) ==
  LET mine == {i \in DOMAIN reply : reply[i].id = d.id} IN
  IF mine = {} THEN [score |-> 0, confidence |-> 0]
  ELSE LET m == reply[Max(mine)]
       IN [score |-> Max({Min({m.score, Max(d.bands)}), Min(d.bands)}),
           confidence |-> IF m.reason THEN m.confidence ELSE Min({m.confidence, 3})]

\* Mutation: a dimension the reply leaves out does not lower the confidence.
OverallMarked(rubric, reply) ==
  Min({10} \cup {m.confidence : m \in {MarkOf(reply, d) : d \in {d \in Range(rubric) : \E i \in DOMAIN reply : reply[i].id = d.id}}})

Overall(rubric, reply) == Min({10} \cup {MarkOf(reply, d).confidence : d \in Range(rubric)})
AIScore(rubric, reply) ==
  IF reply = NONE
  THEN [dims |-> [i \in DOMAIN rubric |-> 0], total |-> 0, confidence |-> 0, review |-> TRUE]
  ELSE [dims |-> [i \in DOMAIN rubric |-> MarkOf(reply, rubric[i]).score],
        total |-> Total([i \in DOMAIN rubric |-> MarkOf(reply, rubric[i]).score]),
        confidence |-> Overall(rubric, reply), review |-> Overall(rubric, reply) < Reviewed]

(* AIRubricScorer: its marks have no part "correct", which its callers read*)
(* as zero; a review is asked for as an error of the response.             *)
AIRubric(p, reply) ==
  IF p.rubric = <<>> THEN Unscored
  ELSE LET s == AIScore(p.rubric, reply)
       IN Mark(0, IF s.review THEN <<"low_confidence_needs_human_review">> ELSE <<>>, s.confidence)

-----------------------------------------------------------------------------
(* math_equivalence. A quantity: [n, d, unit, upper], a fraction and, or   *)
(* NONE, a unit. Not every unit is converted into every other.             *)
Factor == [m   |-> [cm |-> <<100, 1>>, mm |-> <<1000, 1>>, km |-> <<1, 1000>>],
           cm  |-> [m |-> <<1, 100>>, mm |-> <<10, 1>>],
           mm  |-> [cm |-> <<1, 10>>, m |-> <<1, 1000>>],
           km  |-> [m |-> <<1000, 1>>, cm |-> <<100000, 1>>],
           kg  |-> [g |-> <<1000, 1>>],
           g   |-> [kg |-> <<1, 1000>>],
           min |-> [s |-> <<60, 1>>, h |-> Sixtieth],
           s   |-> [min |-> Sixtieth],
           h   |-> [min |-> <<60, 1>>, s |-> <<3600, 1>>]]
Scaled(q, f) == [n |-> q.n * f[1], d |-> q.d * f[2], unit |-> q.unit, upper |-> q.upper]
Known(from, to) == from \in DOMAIN Factor /\ to \in DOMAIN Factor[from]

(* Two values: how far apart they are, of the product of their             *)
(* denominators; whether they count as equal, which they do if they are    *)
(* near (_answers_equal, whose rounding to a float is left out); whether   *)
(* they are within a tolerance.                                            *)
Distance(a, b) == IF a > b THEN a - b ELSE b - a
Gap(a, b) == Distance(a.n * b.d, b.n * a.d)
Equal(a, b) == Gap(a, b) * Precision < a.d * b.d
Within(a, b, t) == Gap(a, b) * t[2] <= t[1] * (a.d * b.d)

(* Without rules, or with a list of none, all of them hold.                *)
Rules(p) == IF p.rules = {} THEN {"fraction_reduce", "unit_convert", "decimal_tolerance"} ELSE p.rules

\* Mutation: units that cannot be converted are taken to agree.
ConvertedAnyway(q, expected, rules) ==
  IF q.unit # NONE /\ expected.unit # NONE /\ Known(q.unit, expected.unit) /\ "unit_convert" \in rules
  THEN Scaled(q, Factor[q.unit][expected.unit]) ELSE q

(* _try_unit_conversion; NONE if the units do not go together. *)
Converted(q, expected, rules) ==
  IF q.unit = NONE \/ expected.unit = NONE \/ q.unit = expected.unit THEN q
  ELSE IF "unit_convert" \in rules /\ Known(q.unit, expected.unit) THEN Scaled(q, Factor[q.unit][expected.unit])
  ELSE NONE

(* infer_error_type: it converts what was converted before, and compares   *)
(* the units with their capitals. Only the difference of one is exact.     *)
ErrorType(compared, actual, expected) ==
  LET differ == actual.unit # NONE /\ expected.unit # NONE
                /\ (actual.unit # expected.unit \/ actual.upper # expected.upper)
      again == Known(actual.unit, expected.unit)
               /\ Equal(Scaled(compared, Factor[actual.unit][expected.unit]), expected)
  IN CASE differ /\ again -> <<>>
       [] differ /\ ~again -> <<"wrong_unit">>
       [] ~differ /\ Gap(compared, expected) = compared.d * expected.d -> <<"off_by_one">>
       [] OTHER -> <<"value_mismatch">>

(* score: an answer: [kind, answer, rules, tolerance], missing, unreadable *)
(* or a quantity, and a response: [kind, q].                               *)
MathScore(p, response) ==
  CASE p.kind = "missing" \/ response.kind = "blanks" -> Unscored
    [] p.kind # "missing" /\ response.kind = "empty" -> Mark(0, <<"empty_response">>, 10)
    [] p.kind # "missing" /\ response.kind = "unreadable" -> Mark(0, <<"invalid_response">>, 10)
    [] p.kind = "unreadable" /\ response.kind = "quantity" -> Unscored
    [] p.kind = "quantity" /\ response.kind = "quantity" ->
         LET q == response.q
             rules == Rules(p)
             converted == Converted(q, p.answer, rules)
             compared == IF converted = NONE THEN q ELSE converted
             equal == \/ Equal(compared, p.answer)
                      \/ "decimal_tolerance" \in rules /\ p.tolerance[1] > 0 /\ Within(compared, p.answer, p.tolerance)
         IN IF equal /\ converted # NONE THEN Mark(Whole, <<>>, 10)
            ELSE Mark(0, ErrorType(compared, q, p.answer), 10)

(* StepwiseRubricScorer: every step by its own scorer; one without answer  *)
(* has no mark and an error.                                               *)
SubMark(step, response) ==
  CASE step.scorer = "exact_match" -> ExactMatch(step.params, response)
    [] step.scorer = "keypoint_hit" -> KeypointHit(step.params, response)
    [] step.scorer = "ai_rubric" -> AIRubric(step.params, response)
    [] step.scorer = "math_equivalence" -> MathScore(step.params, response)
Stepwise(steps, responses) ==
  LET Sub(i) == IF steps[i].id \in DOMAIN responses THEN SubMark(steps[i], responses[steps[i].id])
                ELSE Mark(0, <<"missing_step">>, 10)
      subs == [i \in DOMAIN steps |-> Sub(i)]
      most == Total([i \in DOMAIN steps |-> steps[i].max])
      points == Total([i \in DOMAIN steps |-> subs[i].correct * steps[i].max])
  IN IF steps = <<>> THEN Unscored
     ELSE Mark(IF most = 0 THEN 0 ELSE points \div most,
               FlattenSeq([i \in DOMAIN steps |-> [k \in DOMAIN subs[i].errors |-> <<subs[i].errors[k], steps[i].id>>]]),
               Min({subs[i].confidence : i \in DOMAIN steps}))

-----------------------------------------------------------------------------
(* infer_option_errors and score_and_record: the error bound to an option  *)
(* that was selected, once for every option and error.                     *)
Once(s) ==
  LET kept[n \in 0..Len(s)] ==
        IF n = 0 THEN <<>> ELSE IF Contains(kept[n - 1], s[n]) THEN kept[n - 1] ELSE Append(kept[n - 1], s[n])
  IN kept[Len(s)]
OptionErrors(choice, bindings, selected) ==
  LET Told(b) == IF b.error # NONE /\ b.option \in selected THEN <<<<b.error, b.option>>>> ELSE <<>>
  IN IF ~choice THEN <<>> ELSE Once(FlattenSeq([i \in DOMAIN bindings |-> Told(bindings[i])]))
Recorded(mark, choice, bindings, selected) ==
  [correct |-> mark.correct >= Whole,
   errors |-> Once(mark.errors \o OptionErrors(choice, bindings, selected)), confidence |-> mark.confidence]

-----------------------------------------------------------------------------
(* Shadow mode. The human marks are compared by their places; -1 is an     *)
(* entry that is no mark.                                                  *)
Consistent(dims, human, tolerance) ==
  \A i \in DOMAIN dims : i <= Len(human) /\ human[i] # -1 /\ Distance(dims[i], human[i]) <= tolerance

(* The benchmark counts by the detail, where a missing mark is a zero. *)
DetailDeltas(dims, human) ==
  [i \in DOMAIN dims |-> Distance(dims[i], IF i <= Len(human) /\ human[i] # -1 THEN human[i] ELSE 0)]
DetailConsistent(dims, human, tolerance) ==
  dims # <<>> /\ \A i \in DOMAIN dims : DetailDeltas(dims, human)[i] <= tolerance
ShadowScore(rubric, c, tolerance) ==
  LET s == AIScore(rubric, c.reply)
  IN [dims |-> s.dims, review |-> s.review,
      status |-> CASE c.human = NONE -> "pending"
                   [] c.human # NONE /\ Consistent(s.dims, c.human, tolerance) -> "consistent"
                   [] OTHER -> "inconsistent"]
Benchmark(rubric, cases, tolerance) ==
  LET records == [i \in DOMAIN cases |-> ShadowScore(rubric, cases[i], tolerance)]
      counted == {i \in DOMAIN cases : DetailConsistent(records[i].dims, cases[i].human, tolerance)}
  IN [records |-> records, counted |-> counted, passed |-> 10 * Cardinality(counted) >= 7 * Len(cases)]

-----------------------------------------------------------------------------
(* ExactMatchScorer gives the full mark to the answer and to nothing else: *)
(* the same texts in the same order, the same set of texts, every part of  *)
(* a mapping; part marks never make a whole one.                           *)
ExactlyTheAnswer(p, response, mark) ==
  LET Plain(s) == [i \in DOMAIN s |-> Normal(s[i], p.norm)]
      right == CASE p.form = "none" -> FALSE
                 [] p.form = "scalar" -> response # NONE /\ Normal(response, p.norm) = Normal(p.answer, p.norm)
                 [] p.form = "ordered" -> p.answer # <<>> /\ Plain(response) = Plain(p.answer)
                 [] p.form = "set" -> p.answer # <<>> /\ Range(Plain(response)) = Range(Plain(p.answer))
                 [] p.form = "mapping" -> DOMAIN p.answer \subseteq DOMAIN response /\ DOMAIN p.answer # {}
                      /\ \A k \in DOMAIN p.answer : Plain(response)[k] = Plain(p.answer)[k]
  IN (mark.correct = Whole <=> right) /\ mark.correct \in 0..Whole

(* The full mark of a stepwise item needs every step that carries points,  *)
(* a step without an answer is named, and a step that the model marks earns*)
(* nothing.                                                                *)
StepsCount(steps, responses, mark) ==
  LET carrying == {i \in DOMAIN steps : steps[i].max > 0}
      answered == {i \in DOMAIN steps : steps[i].id \in DOMAIN responses}
  IN /\ mark.correct = Whole => carrying # {} /\ carrying \subseteq answered
                                /\ \A i \in carrying : SubMark(steps[i], responses[steps[i].id]).correct = Whole
     /\ (carrying # {} /\ \A i \in carrying : i \in answered /\ steps[i].scorer # "ai_rubric"
                            /\ SubMark(steps[i], responses[steps[i].id]).correct = Whole) => mark.correct = Whole
     /\ \A i \in DOMAIN steps \ answered : Contains(mark.errors, <<"missing_step", steps[i].id>>)

(* A mark of the model goes without review only if the reply gives a       *)
(* reason and confidence enough for every dimension; the total adds up and *)
(* stays within the bands of what was marked.                              *)
ReviewedWhenUnsure(rubric, reply, s) ==
  /\ ~s.review => /\ reply # NONE
                  /\ \A d \in Range(rubric) : \E m \in Range(reply) : m.id = d.id /\ m.reason /\ m.confidence >= Reviewed
  /\ s.total = Total(s.dims) /\ s.total <= MostOf(rubric, NONE)
  /\ \A i \in DOMAIN rubric : s.dims[i] # 0 => s.dims[i] \in Min(rubric[i].bands)..Max(rubric[i].bands)

(* What the units measure. A quantity q is off another, a, by Off(q, a) of *)
(* Parts(q, a), in the unit of a; the sixtieth of the table moves it by    *)
(* Moved(q, a) of them.                                                    *)
Measured == [mm |-> <<"length", 1>>, cm |-> <<"length", 10>>, m |-> <<"length", 1000>>, km |-> <<"length", 1000000>>,
             g |-> <<"mass", 1>>, kg |-> <<"mass", 1000>>, s |-> <<"time", 1>>, min |-> <<"time", 60>>, h |-> <<"time", 3600>>]
Together(from, to) == from \in DOMAIN Measured /\ to \in DOMAIN Measured /\ Measured[from][1] = Measured[to][1]
Alike(q, a) == q.unit = NONE \/ a.unit = NONE \/ q.unit = a.unit
Ratio(q, a) == IF Alike(q, a) \/ ~Together(q.unit, a.unit) THEN <<1, 1>> ELSE <<Measured[q.unit][2], Measured[a.unit][2]>>
Sixty(r) == r[2] = 60 * r[1]
Fine(r) == IF Sixty(r) THEN Sixtieth[2] ELSE 1
Off(q, a) == Gap(Scaled(q, Ratio(q, a)), a) * Fine(Ratio(q, a))
Moved(q, a) ==
  LET r == Ratio(q, a)
  IN IF Sixty(r) THEN (Distance(q.n, 0) * a.d) * Distance(r[2] * Sixtieth[1], r[1] * Sixtieth[2]) ELSE 0
Parts(q, a) == ((q.d * Ratio(q, a)[2]) * a.d) * Fine(Ratio(q, a))

(* A quantity has the full mark only if the units go together and, up to   *)
(* the rounding of the table, it is nearer to the answer than the code     *)
(* tells apart or, if that rule holds, within the tolerance; the answer    *)
(* itself has the full mark, in every unit that can be converted, unless   *)
(* the rounding of the table is as large as what the code tells apart; what*)
(* is right has no error, and what is wrong has one unless it was          *)
(* converted.                                                              *)
SameQuantity(p, response, mark) ==
  p.kind = "quantity" /\ response.kind = "quantity" =>
    LET q == response.q  a == p.answer
        surely == Off(q, a) - Moved(q, a)
    IN /\ mark.correct = Whole =>
            /\ mark.errors = <<>>
            /\ Alike(q, a) \/ ("unit_convert" \in Rules(p) /\ Together(q.unit, a.unit))
            /\ \/ surely * Precision < Parts(q, a)
               \/ /\ "decimal_tolerance" \in Rules(p) /\ p.tolerance[1] > 0
                  /\ surely * p.tolerance[2] <= p.tolerance[1] * Parts(q, a)
       /\ mark.correct # Whole /\ Alike(q, a) => mark.errors # <<>>
       /\ /\ Off(q, a) = 0 /\ Moved(q, a) * Precision < Parts(q, a)
          /\ Alike(q, a) \/ ("unit_convert" \in Rules(p) /\ Known(q.unit, a.unit))
          => mark.correct = Whole

(* A record that is called consistent is counted as consistent; they only  *)
(* part where the human marks are incomplete, and then the count is higher.*)
ShadowHonest(cases, tolerance, b) ==
  \A i \in DOMAIN cases :
    /\ b.records[i].status = "consistent" => i \in b.counted
    /\ i \in b.counted /\ b.records[i].status # "consistent" =>
         \/ Len(cases[i].human) < Len(b.records[i].dims)
         \/ Contains(cases[i].human, -1)
=============================================================================
