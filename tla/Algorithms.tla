----------------------------- MODULE Algorithms -----------------------------
(***************************************************************************)
(* The functions of the system that keep no state of their own, each called*)
(* once: a call is chosen, then answered as the code answers it. The calls *)
(* are the constants; a case of a call is a function of its arguments.     *)
(***************************************************************************)
EXTENDS Integers, Sequences, FiniteSets

CONSTANTS NONE, Rank, Templates,
  Pools, Shown, Profiles,             \* papers by rule
  Tables, Blueprints, MeasurementPools, Listenings, Bands,   \* measurement
  Forms, Answers(_), Responses(_), Norms, StepLists, Given, Rubrics, Replies,
  MathAnswers, MathResponses, Precision, Sixtieth, Cases, Bindings, Choices,   \* marks
  Operands, Parameters(_), Axes(_), Counts, Ranges(_), SampleCounts,   \* templates
  Numbers, Wholes, Roundings, Amounts, UnitNames, Bounds, Points,   \* values of the mathematics pack
  Records, Evidence, Coverages, Actuals, EventLists, Runs, Scores   \* statistics

VARIABLES call, answer

A == INSTANCE Assembly
M == INSTANCE Measurement
S == INSTANCE Scoring
I == INSTANCE Instantiation
C == INSTANCE MathChecks
V == INSTANCE MathValues
D == INSTANCE Statistics

Listed(s) == Len(s) \in Nat /\ DOMAIN s = 1..Len(s)

(* What papers are made of: candidates of which no two have one id, with   *)
(* hashes that tell ids and groups apart and a rate that is not negative   *)
(* (candidates.py), settings of the kinds that an overlay has and quotas of*)
(* one at least (profile.py), cells whose levels hold no slash and whose   *)
(* numbers are whole here, a maximum and a share for listening.            *)
PoolFits(pool) ==
  /\ IsFiniteSet(pool)
  /\ \A c \in pool : c.id \in DOMAIN Rank /\ c.group \in DOMAIN Rank \cup {NONE} /\ c.p \in Nat \cup {NONE}
  /\ \A c, d \in pool : (c.id = d.id => c = d) /\ c.group # d.id
ProfileFits(p) ==
  /\ Listed(p.kps) /\ Listed(p.overlays) /\ p.least \in (Nat \ {0}) \cup {NONE}
  /\ \A i \in DOMAIN p.overlays : LET o == p.overlays[i] IN
       /\ "item_count_range" \in DOMAIN o => o["item_count_range"] \in Int \X Int
       /\ "content_mix" \in DOMAIN o =>
            \A tag \in DOMAIN o["content_mix"] : o["content_mix"][tag] \in Int
CellsFit(cells) == Listed(cells) /\ \A i \in DOMAIN cells : {cells[i].count, cells[i].low, cells[i].high} \subseteq Int
KeysFit(cells) == \A i, j \in DOMAIN cells :
  {cells[i].level, cells[j].level} \subseteq M!Levels /\ M!Key(cells[i]) = M!Key(cells[j]) =>
    cells[i].content = cells[j].content /\ cells[i].level = cells[j].level
BandFits(b) ==
  /\ b.band \in {"L", "M", "H"}
  /\ \A f \in {"items", "minutes"} : b.spec[f] \in Int \cup {NONE} /\ (f \in DOMAIN b.over => b.over[f] \in Int)

(* What the scorers are given: texts in an order, in a set or by their     *)
(* keys, quantities, steps that take no points away, rubrics that have a   *)
(* mark that is not negative (max_score of rubric_template.py), replies as *)
(* the schema has them and human marks for every case.                     *)
Worded == [word : STRING, wide : BOOLEAN, blank : BOOLEAN, upper : BOOLEAN]
ExactFits(form, a, response) ==
  /\ form \in {"scalar", "ordered", "set", "mapping", "none"}
  /\ form \in {"ordered", "set"} => a \in Seq(Worded) /\ response \in Seq(Worded)
  /\ form = "mapping" => IsFiniteSet(DOMAIN a)
Quantities == [n : Int, d : Nat \ {0}, unit : STRING \cup {NONE}, upper : BOOLEAN]
MathFits(p, response) ==
  /\ p.kind \in {"missing", "unreadable", "quantity"}
  /\ p.kind = "quantity" => p.answer \in Quantities /\ p.tolerance \in Int \X (Nat \ {0})
  /\ response.kind \in {"empty", "unreadable", "blanks", "quantity"}
  /\ response.kind = "quantity" => response.q \in Quantities
StepFits(step, response) ==
  /\ step.scorer \in {"exact_match", "keypoint_hit", "ai_rubric", "math_equivalence"}
  /\ step.scorer = "exact_match" => /\ step.params.perItem \in BOOLEAN
                                    /\ ExactFits(step.params.form, step.params.answer, response)
  /\ step.scorer = "keypoint_hit" => Listed(step.params.keypoints)
  /\ step.scorer = "math_equivalence" => MathFits(step.params, response)
Dimensions == [id : STRING, bands : SUBSET Int]
Opinions == [id : STRING, score : Int, reason : BOOLEAN, confidence : Int]

ASSUME NoneAssumption ==
  NONE \notin Quantities /\ NONE \notin Nat /\ \A i \in DOMAIN A!Reasons : A!Reasons[i] # NONE
ASSUME PrecisionAssumption == Precision \in Nat \ {0} /\ Sixtieth \in (Nat \ {0}) \X (Nat \ {0})
ASSUME RankAssumption == \A x, y \in DOMAIN Rank : Rank[x] \in Int /\ (Rank[x] = Rank[y] => x = y)
ASSUME PaperAssumption == (\A pool \in Pools : PoolFits(pool)) /\ \A p \in Profiles : ProfileFits(p)
ASSUME TableAssumption == \A cells \in Tables : CellsFit(cells) /\ KeysFit(cells)
ASSUME MeasurementAssumption ==
  /\ \A cells \in Blueprints : CellsFit(cells)
  /\ \A pool \in MeasurementPools : IsFiniteSet(pool) /\ \A c \in pool : c.p \in Int
ASSUME ListeningAssumption == \A l \in Listenings : Listed(l.items) /\ l.total \in Int /\ l.ratio \in Int \X Int
ASSUME BandAssumption == \A b \in Bands : BandFits(b)
ASSUME ExactAssumption == \A form \in Forms : \A a \in Answers(form), r \in Responses(form) : ExactFits(form, a, r)
ASSUME MathAssumption == \A p \in MathAnswers, r \in MathResponses : MathFits(p, r)
ASSUME StepsAssumption ==
  \A steps \in StepLists, given \in Given :
    /\ Listed(steps)
    /\ \A i \in DOMAIN steps : /\ steps[i].max \in Nat
                               /\ steps[i].id \in DOMAIN given => StepFits(steps[i], given[steps[i].id])
ASSUME RubricsAssumption ==
  \A rubric \in Rubrics : /\ rubric \in Seq(Dimensions)
                          /\ \A i \in DOMAIN rubric : /\ IsFiniteSet(rubric[i].bands)
                                                      /\ rubric[i].bands # {} => \E n \in rubric[i].bands : n >= 0
ASSUME RepliesAssumption == Replies \subseteq {NONE} \cup Seq(Opinions)
ASSUME CasesAssumption ==
  \A cases \in Cases : \A i \in DOMAIN cases : /\ cases[i].reply \in {NONE} \cup Seq(Opinions)
                                               /\ cases[i].human # NONE /\ cases[i].human \in Seq(Int)
ASSUME BindingsAssumption == \A b \in Bindings : Listed(b)

vars == <<call, answer>>
Call(kind, of) == call = [kind |-> kind, of |-> of] /\ answer = NONE

-----------------------------------------------------------------------------
InitPapers ==
  \/ \E p \in Profiles, pool \in Pools, shown \in Shown : Call("paper", [p |-> p, pool |-> pool, shown |-> shown])
  \/ \E t \in Tables : Call("table", t)
  \/ \E b \in Blueprints, pool \in MeasurementPools, shown \in Shown, limited \in BOOLEAN :
       Call("measurement", [cells |-> b, pool |-> pool, shown |-> shown, limited |-> limited])
  \/ \E l \in Listenings : Call("listening", l)
  \/ \E b \in Bands : Call("band", b)
InitMarks ==
  \/ \E form \in Forms : \E a \in Answers(form), r \in Responses(form), norm \in Norms, perItem \in BOOLEAN :
       Call("exact", [p |-> [form |-> form, answer |-> a, norm |-> norm, perItem |-> perItem], response |-> r])
  \/ \E steps \in StepLists, given \in Given : Call("steps", [steps |-> steps, given |-> given])
  \/ \E rubric \in Rubrics, reply \in Replies : Call("rubric", [rubric |-> rubric, reply |-> reply])
  \/ \E p \in MathAnswers, r \in MathResponses : Call("math", [p |-> p, response |-> r])
  \/ \E rubric \in Rubrics, cases \in Cases : Call("shadow", [rubric |-> rubric, cases |-> cases])
  \/ \E b \in Bindings, selected \in Choices, choice \in BOOLEAN :
       Call("record", [bindings |-> b, selected |-> selected, choice |-> choice])
InitTemplates ==
  \/ \E x, y \in Operands : Call("expression", [x |-> x, y |-> y])
  \/ \E t \in DOMAIN Templates : \E a, b \in Parameters(t) : Call("items", [t |-> t, a |-> a, b |-> b])
  \/ \E t \in DOMAIN Templates : \E base \in Parameters(t), axis \in Axes(t), n \in Counts :
       Call("variants", [t |-> t, base |-> base, axis |-> axis, n |-> n])
  \/ \E t \in DOMAIN Templates : \E r \in Ranges(t), n \in SampleCounts : Call("solvable", [t |-> t, ranges |-> r, n |-> n])
InitValues ==
  \/ \E x, y \in Numbers : Call("values", <<x, y>>)
  \/ \E a, b \in Wholes, digits \in Roundings : Call("wholes", [a |-> a, b |-> b, digits |-> digits])
  \/ \E v \in Amounts, from, to, by \in UnitNames : Call("conversion", [v |-> v, from |-> from, to |-> to, by |-> by])
  \/ \E low, high, l, h \in Bounds, c \in [1..4 -> BOOLEAN] :
       Call("intervals", [i |-> V!Interval(low, high, c[1], c[2]), j |-> V!Interval(l, h, c[3], c[4])])
InitStatistics ==
  \/ \E r \in Records : Call("statistics", r)
  \/ \E e \in Evidence : Call("health", e)
  \/ \E c \in Coverages, actual \in Actuals : Call("coverage", [profile |-> c, actual |-> actual])
  \/ \E e \in EventLists, runs \in Runs, score \in Scores :
       Call("rescore", [events |-> e, runs |-> runs, score |-> score])
Init == InitPapers \/ InitMarks \/ InitTemplates \/ InitValues \/ InitStatistics

-----------------------------------------------------------------------------
Answer(kind, value) == call.kind = kind /\ answer = NONE /\ answer' = value /\ UNCHANGED call

Paper ==
  LET p == call.of.p
      profile == A!Compile(p.purpose, "M", p.kps, p.overlays, p.least, p.soften)
  IN Answer("paper", [profile |-> profile, result |-> IF profile.kind = "refused" THEN profile
                        ELSE A!Assemble(profile, call.of.pool, call.of.shown)])
Table == Answer("table", M!TableFits(call.of))
MeasurementPaper ==
  /\ call.kind = "measurement"
  /\ \E s \in M!Solve(call.of.cells, call.of.pool, call.of.shown, call.of.limited) : Answer("measurement", s)
Listening ==
  LET l == call.of
      share == M!Overlay(l.total, Len(l.items), l.ratio)
  IN Answer("listening", [share |-> share, marked |-> IF share = NONE THEN NONE ELSE M!MarkListening(l.items, l.heard, share)])
Band == Answer("band", M!BandConflicts(call.of.spec, call.of.band, call.of.over))

Exact == Answer("exact", S!ExactMatch(call.of.p, call.of.response))
Steps == Answer("steps", S!Stepwise(call.of.steps, call.of.given))
Rubric == Answer("rubric", IF S!RubricParses(call.of.rubric) THEN S!AIScore(call.of.rubric, call.of.reply) ELSE "refused")
Math == Answer("math", S!MathScore(call.of.p, call.of.response))
Shadow == Answer("shadow", IF S!RubricParses(call.of.rubric) THEN S!Benchmark(call.of.rubric, call.of.cases, 1) ELSE "refused")
Record == Answer("record", S!Recorded(S!Mark(0, <<<<"first", "A">>>>, 10), call.of.choice, call.of.bindings, call.of.selected))

Expression == Answer("expression", I!Apply("//", call.of.x, call.of.y))
Items ==
  /\ call.kind = "items"
  /\ LET t == Templates[call.of.t]
         a == I!Instantiate(t, call.of.a)
     IN Answer("items", [a |-> a, b |-> I!Instantiate(t, call.of.b), event |-> I!Emit(t, call.of.a, call.of.b),
                         again |-> IF a.kind = "item" THEN C!DualCheck(t, call.of.a, a.answer) ELSE NONE])
Variants ==
  /\ call.kind = "variants"
  /\ Answer("variants", I!GenerateVariants(Templates[call.of.t], call.of.axis, call.of.n, call.of.base))
Solvable ==
  /\ call.kind = "solvable"
  /\ \E s \in C!Samples(call.of.ranges, call.of.n) :
       Answer("solvable", [sample |-> s, verdict |-> C!Solvability(Templates[call.of.t], s)])

Values == Answer("values", V!Combine("+", call.of[1], call.of[2]))
WholeNumbers == Answer("wholes", [simplified |-> V!Simplified(call.of.a, call.of.b),
                                  rounded |-> IF call.of.b > 0 THEN V!RoundHalfUp(V!Value("decimal", call.of.a, call.of.b), call.of.digits) ELSE NONE])
Conversion == Answer("conversion", V!Convert(call.of.v, FALSE, call.of.from, call.of.to))
Intervals ==
  LET refused == V!Error \in {call.of.i, call.of.j} IN
  Answer("intervals", [refused |-> refused, overlap |-> ~refused /\ V!IntervalOverlap(call.of.i, call.of.j)])

ItemNumbers == Answer("statistics", D!ItemStatistics(call.of))
Health == Answer("health", D!Health(call.of, 2))
Coverage == Answer("coverage", D!CoverageGap(call.of.profile, call.of.actual))
Rescore == Answer("rescore", [again |-> D!IncrementalRescore(call.of.events, {"i1", "i2"}, NONE, call.of.runs, "label", call.of.score),
                              replay |-> D!Replay(call.of.events, "practice", NONE, [practice |-> "v1"], call.of.runs, "label", call.of.score)])

Next ==
  \/ Paper \/ Table \/ MeasurementPaper \/ Listening \/ Band
  \/ Exact \/ Steps \/ Rubric \/ Math \/ Shadow \/ Record
  \/ Expression \/ Items \/ Variants \/ Solvable
  \/ Values \/ WholeNumbers \/ Conversion \/ Intervals
  \/ ItemNumbers \/ Health \/ Coverage \/ Rescore
Spec == Init /\ [][Next]_vars

-----------------------------------------------------------------------------
Answered(kind) == call.kind = kind /\ answer # NONE

(* A paper of the greedy solver keeps what the profile asks for, as far as *)
(* the solver guards it; the class and the trigger that validate a table   *)
(* accept the same tables; what the exact search reports is so; listening  *)
(* comes first and in its share (assembly/).                               *)
PapersLegal ==
  /\ Answered("paper") /\ answer.profile.kind = "profile" =>
       A!PaperLegal(answer.profile, call.of.pool, call.of.shown, answer.result)
  /\ Answered("table") => M!ValidatorsAgree(call.of)
  /\ Answered("measurement") => M!SearchHonest(call.of.cells, call.of.pool, call.of.shown, call.of.limited, answer)
  /\ Answered("listening") =>
       M!ListeningLegal(call.of.items, call.of.heard, call.of.total, call.of.ratio, answer.share, answer.marked)
  /\ Answered("band") /\ answer = {} => \A f \in {"items", "minutes"} :
       call.of.spec[f] # NONE => call.of.spec[f] <= M!Resolved(call.of.band, call.of.over)[f]

(* A mark is the mark of the response: the full mark for the answer only,  *)
(* for all steps only, without review only where the model was sure, for   *)
(* the same quantity only; a case of the shadow comparison that is called  *)
(* consistent is counted, and no cause is told twice (scoring/).           *)
MarksFaithful ==
  /\ Answered("exact") => S!ExactlyTheAnswer(call.of.p, call.of.response, answer)
  /\ Answered("steps") => S!StepsCount(call.of.steps, call.of.given, answer)
  /\ Answered("rubric") /\ S!RubricParses(call.of.rubric) => S!ReviewedWhenUnsure(call.of.rubric, call.of.reply, answer)
  /\ Answered("math") => S!SameQuantity(call.of.p, call.of.response, answer)
  /\ Answered("shadow") /\ S!RubricParses(call.of.rubric) => S!ShadowHonest(call.of.cases, 1, answer)
  /\ Answered("record") => \A i, j \in DOMAIN answer.errors : answer.errors[i] = answer.errors[j] => i = j

(* The validators of the mathematics pack compute what the engine computes,*)
(* by a second implementation: they fail no item that is right, pass none  *)
(* that is wrong, pass no template that has an item with two equal options *)
(* in the space they tried, and certify what the variation engine does     *)
(* (subject-math/validators, instantiation/).                              *)
ChecksAgree ==
  /\ Answered("items") => C!DualCheckSound(Templates[call.of.t], answer.a, answer.again)
  /\ Answered("solvable") => C!SolvabilitySound(Templates[call.of.t], call.of.ranges, answer.sample, answer.verdict)
  /\ Answered("variants") /\ answer.kind = "variants" => C!InvarianceAgrees(Templates[call.of.t], answer.certificate)

(* An id stands for one item and no option is the answer; variants change  *)
(* only what their axis names; a change of difficulty is told if and only  *)
(* if it is seen; equal values of the mathematics pack have one hash,      *)
(* conversions close and intervals that meet overlap; the two computations *)
(* of a discrimination agree; health, coverage and new scores add up       *)
(* (instantiation/, subject-math/variable-types, data/).                   *)
NumbersHonest ==
  /\ Answered("expression") => I!GuardedDivision(call.of.x, call.of.y) /\ I!DivisionCloses(call.of.x, call.of.y)
  /\ Answered("items") => /\ I!OneItemPerId(Templates[call.of.t], answer.a, answer.b)
                          /\ I!EmitsWhatIsDetected(Templates[call.of.t], call.of.a, call.of.b)
  /\ Answered("values") => V!ValuesCoherent(call.of[1], call.of[2], answer)
  /\ Answered("wholes") => V!WholesCoherent(call.of.a, call.of.b, call.of.digits, answer.simplified, answer.rounded)
  /\ Answered("conversion") => V!ConversionCloses(call.of.v, call.of.from, call.of.to, call.of.by, answer)
  /\ Answered("intervals") /\ ~answer.refused => V!OverlapMeets(call.of.i, call.of.j, Points, answer.overlap)
  /\ Answered("variants") => I!VariantsHonest(Templates[call.of.t], call.of.axis, call.of.n, call.of.base, answer)
  /\ Answered("statistics") => D!CorrelationSound(call.of, 2)
  /\ Answered("health") => D!HealthSound(call.of, answer)
  /\ Answered("coverage") => D!CoverageAddsUp(answer)
  /\ Answered("rescore") => /\ D!RescoreAccounts(call.of.events, call.of.runs, "label", call.of.score, answer.again)
                            /\ D!SharesCompare(answer.replay)
=============================================================================
