---------------------------- MODULE MCAlgorithms ----------------------------
(* Small inputs for the functions: every one of the cases that they tell   *)
(* apart occurs.                                                           *)
EXTENDS Algorithms, TLC

Upto(members, n) == UNION {[1..k -> members] : k \in 0..n}

-----------------------------------------------------------------------------
Item(id, kps, mode, p, group, template, mix) ==
  [id |-> id, band |-> IF id = "c7" THEN "H" ELSE "M", kps |-> kps, mode |-> mode, p |-> p,
   purposes |-> IF id = "c3" THEN {"practice"} ELSE {"practice", "diagnosis"}, group |-> group, template |-> template, mix |-> mix]
Plain == {Item("c1", {"k1"}, "single", 8, NONE, "t1", "A"), Item("c2", {"k1"}, "single", 5, NONE, "t1", "B"),
          Item("c3", {"k2"}, "single", 5, "g", "t2", "A"), Item("c4", {"k1"}, "single", 2, "g", "t3", "B"),
          Item("c5", {"k1", "k2"}, "all_required", NONE, NONE, NONE, "A"),
          Item("c6", {"k2"}, "single", 4, NONE, "t4", "B"), Item("c7", {"k2"}, "single", 4, NONE, "t5", "B")}
Crowd == {Item(id, {"k1"}, "single", 5, "h", NONE, "A") : id \in {"d1", "d2", "d3", "d4", "d5", "d6", "d7"}}
MCRank == [x \in {"c1", "c2", "c3", "c4", "c5", "c6", "c7", "d1", "d2", "d3", "d4", "d5", "d6", "d7", "g", "h"} |->
             CASE x = "c1" -> 3 [] x = "c2" -> 1 [] x = "c3" -> 5 [] x = "c4" -> 2 [] x = "c5" -> 8 [] x = "c6" -> 6
               [] x = "c7" -> 7 [] x = "g" -> 4 [] x = "h" -> 9 [] x = "d1" -> 10 [] x = "d2" -> 11 [] x = "d3" -> 12
               [] x = "d4" -> 13 [] x = "d5" -> 14 [] x = "d6" -> 15 [] x = "d7" -> 16]
MCPools == SUBSET Plain \cup {Plain \cup Crowd}
MCShown == {[items |-> {}, templates |-> {}], [items |-> {"c1", "m1"}, templates |-> {"t4", "t9"}]}
Overlays ==
  {<<>>, <<[item_count_range |-> <<1, 2>>, same_template_different_paper |-> FALSE]>>,
   <<[item_count_range |-> <<3, 4>>], [content_mix |-> [A |-> 7, B |-> 3], cross_period_repeat |-> TRUE]>>,
   <<[item_count_range |-> <<2, 3>>, target_p_correct_range |-> <<4, 7>>, require_gradient_monotone |-> FALSE]>>}
MCProfiles == {[purpose |-> u, kps |-> k, overlays |-> o, least |-> l, soften |-> f] :
                 u \in {"practice", "diagnosis"}, k \in {<<"k1">>, <<"k1", "k2">>}, o \in Overlays, l \in {NONE, 2}, f \in BOOLEAN}

-----------------------------------------------------------------------------
Cell(content, level, count, low, high) == [content |-> content, level |-> level, count |-> count, low |-> low, high |-> high]
MCTables == Upto({Cell(c, l, n, r[1], r[2]) : c \in {"", "x"}, l \in {"apply", "create", "guess"}, n \in {-1, 0, 1},
                                              r \in {<<0, 5>>, <<6, 3>>, <<-1, 4>>, <<2, 11>>}}, 2)
MCBlueprints == {<<Cell("x", "apply", 1, 0, 6)>>, <<Cell("x", "apply", 2, 0, 6), Cell("y", "apply", 1, 4, 10)>>,
                 <<Cell("x", "apply", 1, 0, 10), Cell("x", "create", 0, 0, 10)>>}
Entry(id, kps, p, group, template) == [id |-> id, kps |-> kps, level |-> "apply", p |-> p, group |-> group, template |-> template]
MCMeasurementPools == SUBSET {Entry("m1", {"x"}, 5, NONE, "t8"), Entry("m2", {"x", "y"}, 5, "g", NONE),
                              Entry("m3", {"y"}, 8, "g", NONE), Entry("m4", {"x"}, 9, NONE, "t9"), Entry("m5", {"y", "x"}, 4, NONE, NONE)}
MCListenings == {[items |-> <<1, 2, 3, 4>>, heard |-> h, total |-> n, ratio |-> r] :
                   h \in SUBSET (1..4), n \in 1..12, r \in {<<2, 4>>, <<3, 4>>, <<5, 5>>}}
MCBands == {[spec |-> [items |-> i, minutes |-> m], band |-> b, over |-> o] :
              i \in {NONE, 10, 25}, m \in {NONE, 20, 90}, b \in {"L", "M", "H"},
              o \in {[f \in {} |-> 0], [f \in {"items"} |-> 30]}}

-----------------------------------------------------------------------------
Text(word, wide, upper) == [word |-> word, wide |-> wide, blank |-> FALSE, upper |-> upper]
Texts == {Text("a", FALSE, FALSE), Text("a", FALSE, TRUE), Text("b", TRUE, FALSE)}
MCForms == {"scalar", "ordered", "set", "mapping", "none"}
MCAnswers(form) ==
  CASE form \in {"scalar", "none"} -> Texts
    [] form \in {"ordered", "set"} -> {<<>>, <<Text("a", FALSE, FALSE)>>, <<Text("a", FALSE, FALSE), Text("b", FALSE, FALSE)>>}
    [] form = "mapping" -> [{"left", "right"} -> Texts]
MCResponses(form) ==
  CASE form \in {"scalar", "none"} -> Texts \cup {NONE}
    [] form \in {"ordered", "set"} -> Upto(Texts, 3)
    [] form = "mapping" -> UNION {[k -> Texts] : k \in SUBSET {"left", "right", "more"}}
MCNorms == {{}, {"casefold"}, {"casefold", "fullwidth_to_half", "strip"}}

Told(id, score, reason, confidence) == [id |-> id, score |-> score, reason |-> reason, confidence |-> confidence]
TwoDimensions == <<[id |-> "d1", bands |-> {1, 3, 5}], [id |-> "d2", bands |-> {0, 2}]>>
MCRubrics == {TwoDimensions, <<[id |-> "d1", bands |-> {2, 4}], [id |-> "d1", bands |-> {0, 1}]>>, <<>>,
              [i \in 1..17 |-> [id |-> "d1", bands |-> {1}]]}
MCReplies == {NONE} \cup Upto({Told(i, s, r, c) : i \in {"d1", "d2", "other"}, s \in {0, 4, 9}, r \in BOOLEAN, c \in {2, 8}}, 2)

KeyPoint(id, word, regex, score) ==
  [id |-> id, patterns |-> {[text |-> Text(word, FALSE, TRUE), regex |-> regex]}, score |-> score, error |-> "missed"]
KeyPoints(least) == [keypoints |-> <<KeyPoint("p1", "a", FALSE, 2), KeyPoint("p2", "b", TRUE, 1)>>,
                     norm |-> {"casefold", "fullwidth_to_half"}, minPass |-> least]
Step(id, scorer, most, params) == [id |-> id, scorer |-> scorer, max |-> most, params |-> params]
Exactly(perItem) == [form |-> "set", answer |-> <<Text("a", FALSE, FALSE), Text("b", FALSE, FALSE)>>,
                     norm |-> {"casefold", "fullwidth_to_half"}, perItem |-> perItem]
Metre == [n |-> 1, d |-> 1, unit |-> "m", upper |-> FALSE]
StepOf(id, most, least) ==
  CASE id = "exact" -> Step(id, "exact_match", most, Exactly(least = NONE))
    [] id = "points" -> Step(id, "keypoint_hit", most, KeyPoints(least))
    [] id = "model" -> Step(id, "ai_rubric", most, [rubric |-> TwoDimensions])
    [] id = "math" -> Step(id, "math_equivalence", most, [kind |-> "quantity", answer |-> Metre, rules |-> {"unit_convert"}, tolerance |-> <<0, 1>>])
MCStepLists == {[i \in DOMAIN ids |-> StepOf(ids[i], most, least)] :
                  ids \in {<<>>, <<"exact", "points">>, <<"exact", "math">>, <<"points", "model">>, <<"math">>},
                  most \in 0..2, least \in {NONE, 2}}
MCGiven ==
  LET Response(id, x) ==
        CASE id = "exact" -> IF x THEN <<Text("b", TRUE, FALSE), Text("a", FALSE, TRUE)>> ELSE <<Text("a", FALSE, FALSE)>>
          [] id = "points" -> IF x THEN {Text("a", TRUE, TRUE)} ELSE {Text("b", FALSE, FALSE)}
          [] id = "model" -> IF x THEN <<Told("d1", 5, TRUE, 8), Told("d2", 2, TRUE, 8)>> ELSE <<>>
          [] id = "math" -> [kind |-> "quantity", q |-> [Metre EXCEPT !.n = IF x THEN 100 ELSE 3, !.unit = "cm"]]
  IN UNION {{[id \in ids |-> Response(id, id \in right)] : right \in SUBSET ids} : ids \in SUBSET {"exact", "points", "model", "math"}}

MCSixtieth == <<17, 1000>>
Amount(n, d, unit) == [n |-> n, d |-> d, unit |-> unit, upper |-> FALSE]
MCMathAnswers ==
  {[kind |-> k, answer |-> Metre, rules |-> {}, tolerance |-> <<0, 1>>] : k \in {"missing", "unreadable"}}
  \cup {[kind |-> "quantity", answer |-> a, rules |-> r, tolerance |-> t] :
          a \in {Amount(n, 1, u) : n \in {1, 100, 1000}, u \in {NONE, "cm", "g"}}
                \cup {Metre, Amount(2, 1, "m"), Amount(1, 8, NONE), Amount(1, 1, "h"), Amount(2, 1, "h"), Amount(1, 2, "h"), Amount(1, 1, "min")},
          r \in {{}, {"fraction_reduce"}, {"unit_convert"}, {"decimal_tolerance"}, {"unit_convert", "decimal_tolerance"}},
          t \in {<<0, 1>>, <<1, 2>>}}
MCMathResponses ==
  {[kind |-> k, q |-> Metre] : k \in {"empty", "unreadable", "blanks"}}
  \cup {[kind |-> "quantity", q |-> [n |-> n, d |-> d, unit |-> u, upper |-> c]] :
          n \in {1, 2, 100}, d \in {1, 2}, u \in {NONE, "m", "cm", "mm"}, c \in BOOLEAN}
  \cup {[kind |-> "quantity", q |-> q] :
          q \in {Amount(n, d, "kg") : n \in {1, 2}, d \in {1, 2}} \cup {Amount(n, d, u) : n \in {1000, 20000}, d \in {1, 2}, u \in {"cm", "mm"}}
                \cup {Amount(n, 1, "min") : n \in {1, 30, 58, 59, 60, 120}}
                \cup {Amount(30, 1, "s"), Amount(60, 1, "s"), Amount(1, 7, NONE), Amount(1, 6, NONE)}}

MCCases == Upto({[reply |-> r, human |-> h] :
  r \in {NONE, <<Told("d1", 5, TRUE, 8), Told("d2", 2, TRUE, 8)>>, <<Told("d1", 1, TRUE, 8)>>},
  h \in {<<>>, <<5>>, <<5, 2>>, <<4, 0>>, <<-1, 2>>, <<0, 0, 7>>}}, 2)
MCBindings == Upto({[error |-> e, option |-> o] : e \in {NONE, "e1", "e2"}, o \in {"A", "B"}}, 3)
MCChoices == SUBSET {"A", "B"}

-----------------------------------------------------------------------------
MCOperands == {I!Value(t, n, 1) : t \in {"int", "decimal", "fraction", "float"}, n \in {-3, 0, 2}}
              \cup {I!Value(t, n, 2) : t \in {"decimal", "fraction"}, n \in {-7, -1, 1, 5}}
Slot(type, hard, min, max, many) == [type |-> type, hard |-> hard, min |-> min, max |-> max, many |-> many]
Plus(x, y) == I!Node("+", <<I!Name(x), I!Name(y)>>)
Minus(x, y) == I!Node("-", <<I!Name(x), I!Name(y)>>)
Rule(type, e) == [type |-> type, error |-> "e", expression |-> e]
Template(id, slots, axes, refs, a, rules) ==
  [id |-> id, blocks |-> IF id = "short" THEN I!Blocks \ {"slots"} ELSE I!Blocks, slots |-> slots, axes |-> axes, refs |-> refs,
   answer |-> a, rules |-> rules, objective |-> "o"]
MCTemplates ==
  [x \in {"sum", "mixed", "loose", "short", "quotient", "floor", "order", "near"} |->
     CASE x \in {"sum", "short"} ->
            Template(x, [a |-> Slot("int", "yes", 1, 4, 0), b |-> Slot("int", "no", NONE, NONE, 0), c |-> Slot("choice", "yes", NONE, NONE, 3)],
                     [one |-> {"a"}, all |-> {"a", "b", "c"}, two |-> {"b", "c"}], {"a", "b"}, Plus("a", "b"),
                     <<Rule("deterministic", Minus("a", "b")), Rule("corpus_sample", Plus("a", "b"))>>)
       [] x = "mixed" ->
            Template(x, [a |-> Slot("decimal", "yes", NONE, NONE, 0), b |-> Slot("fraction", "no", NONE, NONE, 0), c |-> Slot("choice", "yes", NONE, NONE, 2)],
                     [one |-> {"a"}, two |-> {"c"}, three |-> {"a", "zz"}], {"a"},
                     I!Node("if", <<I!Node("==", <<I!Name("c"), I!Const(I!Value("text", 1, 1))>>), I!Name("a"), I!Name("b")>>),
                     <<Rule("deterministic", Plus("a", "a"))>>)
       [] x \in {"quotient", "floor"} ->
            Template(x, [a |-> Slot("decimal", "yes", NONE, NONE, 0), b |-> Slot("int", "yes", 0, 4, 0), c |-> Slot("fraction", "no", NONE, NONE, 0)],
                     [one |-> {"b"}, two |-> {"c"}], {"a"},
                     I!Node("if", <<I!Node("==", <<I!Name("b"), I!Const(I!Value("int", 0, 1))>>), I!Name("a"),
                                    I!Node(IF x = "floor" THEN "//" ELSE "/", <<I!Name("a"), I!Name("b")>>)>>),
                     <<Rule("deterministic", Plus("a", "b")), Rule("deterministic", I!Node("*", <<I!Name("a"), I!Name("b")>>))>>)
       [] x = "order" ->
            Template(x, [a |-> Slot("int", "yes", 0, 4, 0), b |-> Slot("int", "yes", 0, 4, 0), c |-> Slot("int", "no", 0, 9, 0)],
                     [one |-> {"c"}], {"a", "b"},
                     I!Node("if", <<I!Node("<", <<I!Name("a"), I!Name("b")>>), I!Node("//", <<I!Name("b"), I!Name("c")>>),
                                    I!Node("between", <<I!Name("b"), I!Name("a"), I!Name("c")>>)>>),
                     <<Rule("deterministic", I!Node("neg", <<I!Name("a")>>)), Rule("deterministic", Minus("b", "a"))>>)
       [] x = "near" ->
            Template(x, [a |-> Slot("fraction", "yes", NONE, NONE, 0), b |-> Slot("fraction", "no", NONE, NONE, 0), c |-> Slot("choice", "yes", NONE, NONE, 3)],
                     [one |-> {"a"}, two |-> {"c"}], {"a", "b"}, I!Name("a"),
                     <<Rule("deterministic", Plus("a", "b")), Rule("deterministic", Minus("a", "b"))>>)
       [] x = "loose" ->
            Template(x, [a |-> Slot("complex", "text", NONE, NONE, 0), b |-> Slot("int", "yes", 0, 0, 0), c |-> Slot("bool", "no", NONE, NONE, 0)],
                     [one |-> {"b"}], {}, I!Node("attribute", <<I!Name("b")>>), <<>>)]
Raw(form, n, d) == [form |-> form, q |-> I!Lowest(n, d)]
MCParameters(t) ==
  LET all == CASE t = "mixed" -> {[a |-> a, b |-> b, c |-> c] : a \in {Raw("point", 3, 2), Raw("float", 1, 2), Raw("int", 0, 1)},
                                     b \in {Raw("slash", 1, 2), Raw("point", 1, 2)}, c \in {Raw("choice", 1, 1), Raw("choice", 2, 1)}}
               [] t \in {"quotient", "floor", "order"} ->
                     {[a |-> a, b |-> b, c |-> c] : a \in IF t = "order" THEN {Raw("int", n, 1) : n \in {-7, 2, 3}} ELSE {Raw("point", n, d) : n \in {-7, 2, 3}, d \in {1, 2}},
                        b \in {Raw("int", n, 1) : n \in {-2, 0, 2, 4}},
                        c \in IF t = "order" THEN {Raw("int", n, 1) : n \in {0, 3}} ELSE {Raw("slash", 1, 2)}}
               [] t = "near" -> {[a |-> a, b |-> b, c |-> Raw("choice", 3, 1)] : a \in {Raw("slash", 1, 2), Raw("slash", 2, 3)},
                                   b \in {Raw("slash", 1, 2), Raw("slash", 1, 50)}}
               [] OTHER -> {[a |-> a, b |-> b, c |-> c] : a \in {Raw("int", 1, 1), Raw("int", 3, 1), Raw("float", 7, 2), Raw("point", 3, 2)},
                               b \in {Raw("int", 0, 1), Raw("int", 2, 1), Raw("float", 1, 2)}, c \in {Raw("choice", 3, 1)}}
  IN all \cup {[a |-> Raw("int", 2, 1), b |-> Raw("int", 1, 1)], [a |-> Raw("int", 2, 1), zz |-> Raw("int", 1, 1)]}
MCAxes(t) == {"one", "two", "three", "all"}
MCCounts == {0, 1, 4}
MCRanges(t) ==
  LET Taken(s) == {p[s] : p \in {q \in MCParameters(t) : s \in DOMAIN q}}
      Some(s) == {{x} : x \in Taken(s)} \cup {Taken(s)}
  IN {[a |-> a, b |-> b, c |-> c] : a \in Some("a") \cup {{}}, b \in Some("b"), c \in Some("c")}
MCSampleCounts == {2, 100}

-----------------------------------------------------------------------------
Num(type, n, d) == I!Value(type, n, d)
Mixed == {Num(t, n, 1) : t \in {"int", "decimal", "MathInteger", "Fraction", "Decimal"}, n \in -1..2}
          \cup {Num(t, n, 2) : t \in {"decimal", "fraction", "float", "Fraction", "Decimal"}, n \in {-1, 3}}
          \cup {Num("bool", 0, 1), Num("bool", 1, 1)}
MCNumbers == Mixed \cup {V!Quantity(v, u) : v \in {w \in Mixed : w.type \in {"int", "Fraction", "Decimal"}},
                                            u \in {<<"cm", FALSE>>, <<"cm", TRUE>>, <<"g", FALSE>>}}
MCWholes == -12..12
MCPlaces == {-1, 0, 1, 2}
MCAmounts == {Num("int", n, 1) : n \in {-3, 0, 1, 30, 60}} \cup {Num("point", 3, 2), Num("whole", 7, 1), Num("decimal", 1, 4),
              Num("bool", 1, 1), Num("float", 1, 2), Num("MathInteger", 5, 1)}
MCUnits == {<<u, FALSE>> : u \in {"m", "cm", "mm", "km", "kg", "g", "min", "s", "h", "inch", ""}} \cup {<<"cm", TRUE>>}
MCBounds == {NONE, Num("int", 0, 1), Num("int", 1, 1), Num("Fraction", 0, 1), Num("Fraction", 1, 2), Num("Fraction", 1, 1),
             Num("point", 1, 2), V!Quantity(Num("int", 1, 1), <<"cm", FALSE>>), Num("bool", 1, 1)}
MCPoints == {Num(t, n, 4) : t \in {"Fraction", "Decimal"}, n \in -2..6} \cup {Num("MathInteger", n, 1) : n \in -1..2}

-----------------------------------------------------------------------------
MCRecords == Upto({[item |-> i, student |-> s, correct |-> c] : i \in {"i1", "i2"}, s \in {"s1", "s2"}, c \in {0, 1}}, 4)
MCEvidence ==
  {e \in [size : {0, 1, 2, 20, 40}, right : {0, 1, 20, 39}, discrimination : {NONE, 10, 50}, answer : {NONE, "A"}, options : {{"A", "B"}},
          selected : {<<>>, <<"A">>, <<"A", "B">>, <<"B", "C">>}, durations : {<<>>, <<1>>, <<40, 50>>, <<50, 1>>}] :
     e.right <= e.size /\ Len(e.selected) <= e.size /\ Len(e.durations) <= e.size}
MCCoverages == Upto({[cell |-> c, purpose |-> p, target |-> n] : c \in {"u", "v"}, p \in {"practice", "diagnosis", "play"}, n \in -1..3}, 2)
MCActuals == [{"u", "v"} -> 0..2]
MCEventLists == {[i \in 1..3 |-> [id |-> i, item |-> IF i = 2 THEN "i2" ELSE "i1", scene |-> "practice", old |-> old[i]]] :
                   old \in [1..3 -> {NONE, "right", "wrong"}]}
MCRuns == {{<<i, "label">> : i \in s} : s \in SUBSET (1..3)}
MCScores == [{"i1", "i2"} -> {"right", "wrong", "missing", "scorer_failed"}]
=============================================================================
