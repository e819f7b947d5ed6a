----------------------------- MODULE MathChecks -----------------------------
(***************************************************************************)
(* The validators of the mathematics pack (subject-math/validators): they  *)
(* compute the answer of an item a second time, with exact numbers and a   *)
(* converter of their own (dual_check), try a template over a space of     *)
(* parameters (solvability), and compare what a variant examines with what *)
(* its parent does (objective_invariance).                                 *)
(***************************************************************************)
EXTENDS Instantiation

CONSTANT Precision   \* numbers that differ by less than 1 / Precision count as equal: 10^9 in the code

(* What the exact arithmetic adds to the values: a condition on a text that*)
(* stays open, and the TypeError of a truth value among numbers, which no  *)
(* validator catches.                                                      *)
Exact(v) == Value("fraction", v.q[1], v.q[2])
Open == Value("open", 0, 1)
Raised == Value("raised", 0, 1)

(* _to_sympy_value: by the type of the slot, and as it stands if that fails.*)
SympyValue(type, raw) ==
  CASE type = "bool" -> Truth(raw.form \in {"point", "slash", "choice"} \/ raw.q[1] # 0)
    [] type # "bool" /\ raw.form = "choice" -> Value("text", raw.q[1], raw.q[2])
    [] type = "int" /\ raw.form \in {"int", "float"} -> Value("fraction", Toward(raw.q), 1)
    [] OTHER -> Value("fraction", raw.q[1], raw.q[2])
SympyEnv(t, params) == [s \in DOMAIN params \cap DOMAIN t.slots |-> SympyValue(t.slots[s].type, params[s])]

(* The comparison operators of _convert_node, and a condition over them.   *)
Related(op, a, b) ==
  LET texts == {a.type, b.type} \cap {"text", "open"} # {} IN
  CASE op \in {"==", "!="} /\ (~texts \/ SameValue(a, b)) -> Compare(op, a, b)
    [] op \in {"<", "<="} /\ ~texts -> IF "bool" \in {a.type, b.type} THEN Raised ELSE Compare(op, a, b)
    [] OTHER -> Open
Piecewise(test, yes, no) ==
  CASE test.type = "bool" -> Branch(test, yes, no)
    [] test.type = "open" -> IF yes = no THEN yes ELSE Open
    [] OTHER -> Raised
Joined(op, a, b) ==
  LET ends == IF op = "and" THEN 0 ELSE 1
      Ends(v) == v.type \notin {"open", "text"} /\ ((v.q[1] = 0) <=> (ends = 0))
  IN IF Ends(a) \/ Ends(b) THEN Truth(ends = 1)
     ELSE IF {a.type, b.type} \cap {"open", "text"} # {} THEN Open ELSE Truth(ends = 0)

(* _convert_node: every node is converted before it is used, the branch    *)
(* that a condition would not take as well; numbers are exact and a        *)
(* quotient is rounded down.                                               *)
Convert(tree, env) ==
  LET value[e \in Parts(tree)] ==
        LET vs == [i \in DOMAIN e.args |-> value[e.args[i]]]
            Some(types) == \E i \in DOMAIN vs : vs[i].type \in types
        IN CASE e.op = "constant" -> IF e.v.type \in {"bool", "text"} THEN e.v ELSE Exact(e.v)
             [] e.op = "name" -> IF e.name \in DOMAIN env THEN env[e.name] ELSE Error
             [] e.op \notin Allowed \/ Some({"error"}) -> Error
             [] Some({"raised"}) -> Raised
             [] e.op = "if" -> Piecewise(vs[1], vs[2], vs[3])
             [] e.op = "not" -> IF Some({"open", "text"}) THEN Open ELSE Truth(vs[1].q[1] = 0)
             [] e.op \in {"and", "or"} -> Joined(e.op, vs[1], vs[2])
             [] e.op \in Compares -> Related(e.op, vs[1], vs[2])
             [] e.op = "between" -> Joined("and", Related("<=", vs[1], vs[2]), Related("<=", vs[2], vs[3]))
             [] e.op \in {"/", "//", "%"} /\ vs[2].type = "fraction" /\ vs[2].q[1] = 0 -> Error
             [] Some({"bool"}) -> Raised
             [] Some({"open", "text"}) -> Open
             [] e.op \in Binary -> Exact(Apply(e.op, vs[1], vs[2]))
             [] e.op = "neg" -> Exact(Apply("-", Truth(FALSE), vs[1]))
             [] OTHER -> Exact(Call(e.op, vs))
  IN value[tree]

(* _answers_equal: the same value, or two numbers that are near; a         *)
(* condition that stays open is neither. Its rounding to a float is left   *)
(* out.                                                                    *)
AnswersEqual(a, b) ==
  \/ a = b /\ a # Open
  \/ /\ a.type = "fraction" /\ b.type = "fraction"
     /\ LET gap == a.q[1] * b.q[2] - b.q[1] * a.q[2]
        IN Max({gap, -gap}) * Precision < a.q[2] * b.q[2]

(* DualCheckValidator: no judgement of what either side cannot compute. *)
DualCheck(t, params, engine) ==
  LET v == Convert(t.answer, SympyEnv(t, params)) IN
  CASE IsError(v) -> "review"
    [] v.type = "raised" -> "raised"
    [] v.type \in {"bool", "open", "text", "fraction"} ->
         IF engine.type = "text" THEN "review"
         ELSE IF "bool" \in {v.type, engine.type} THEN "raised"
         ELSE IF AnswersEqual(v, Exact(engine)) THEN "pass" ELSE "fail"

-----------------------------------------------------------------------------
(* sample_solvability: the whole space if it is small, else a sample; a    *)
(* value that cannot be computed, or two options that are the same.        *)
Space(ranges) ==
  {f \in [DOMAIN ranges -> UNION {ranges[s] : s \in DOMAIN ranges}] : \A s \in DOMAIN ranges : f[s] \in ranges[s]}
Drawn(space, count) == {S \in {{f[i] : i \in 1..count} : f \in [1..count -> space]} : Cardinality(S) = count}
Samples(ranges, count) == IF Cardinality(Space(ranges)) <= count THEN {Space(ranges)} ELSE Drawn(Space(ranges), count)

(* The answer (0) and the options that an expression makes, in order.      *)
Values(t, params) ==
  LET own == {i \in DOMAIN t.rules : t.rules[i].type = "deterministic"}
      env == SympyEnv(t, params)
  IN [i \in own \cup {0} |-> Convert(IF i = 0 THEN t.answer ELSE t.rules[i].expression, env)]

\* Mutation: an option is compared with the answer only.
DegenerateAlone(v) ==
  (\E i \in DOMAIN v : IsError(v[i])) \/ \E i \in DOMAIN v : 0 < i /\ AnswersEqual(v[i], v[0])

Degenerate(v) ==
  (\E i \in DOMAIN v : IsError(v[i])) \/ \E i, j \in DOMAIN v : i < j /\ AnswersEqual(v[i], v[j])

(* A truth value cannot be compared: the difference raises a TypeError.    *)
Breaks(v) ==
  LET computed == {i \in DOMAIN v : ~IsError(v[i])} IN
  \E i \in computed : v[i].type = "raised" \/ (v[i].type = "bool" /\ computed # {i})

(* SolvabilityValidator, on one sample. *)
Solvability(t, sample) ==
  LET many == Cardinality({p \in sample : Degenerate(Values(t, p))})
      broken == \E p \in sample : Breaks(Values(t, p))
  IN CASE broken -> "raised"
       [] ~broken /\ (sample = {} \/ (many > 0 /\ 2 * many < Cardinality(sample))) -> "review"
       [] ~broken /\ sample # {} /\ many = 0 -> "pass"
       [] ~broken /\ sample # {} /\ 2 * many >= Cardinality(sample) -> "fail"

-----------------------------------------------------------------------------
(* check_objective_invariance: what is examined is the same, and the axis  *)
(* names slots that make an item harder and none that decide the objective.*)
AxisFaults(t, axis) ==
  {s \in axis : \/ s \notin DOMAIN t.slots \/ t.slots[s].hard = "no"
                \/ t.slots[s].type = "choice" /\ s \in NamesIn(t.answer)}
ObjectiveInvariance(t, axis, parent, variant) ==
  IF parent = NONE \/ variant = NONE THEN "review"
  ELSE IF parent = variant /\ AxisFaults(t, axis) = {} THEN "pass" ELSE "fail"

-----------------------------------------------------------------------------
Nodes(tree) == {e.op : e \in Parts(tree)}

(* What the two implementations are known to differ in: a quotient of      *)
(* decimals is rounded towards zero by the one and down by the other, a    *)
(* condition on a text stays open for the second, which does not judge a   *)
(* text or a truth value either.                                           *)
Comparable(t, params) ==
  /\ {"//", "%"} \cap Nodes(t.answer) # {} => \A s \in DOMAIN params : t.slots[s].type # "decimal"
  /\ \A s \in DOMAIN params : t.slots[s].type \in {"string", "choice"} => s \notin NamesIn(t.answer)

(* The second computation agrees with the engine on every item: it never   *)
(* fails one that is right, and it never passes an answer that is off by as*)
(* little as it tells apart, or by one.                                    *)
DualCheckSound(t, item, verdict) ==
  item.kind = "item" /\ Proper(t, item.params) /\ Comparable(t, item.params) =>
    /\ verdict # "fail"
    /\ verdict = "pass" =>
         LET Beside(n, d) == Value("fraction", item.answer.q[1] * d + n * item.answer.q[2], item.answer.q[2] * d)
         IN \A n \in {-1, 1}, d \in {1, Precision} : DualCheck(t, item.params, Beside(n, d)) = "fail"

(* A template that passes over its whole space has no item in it with two  *)
(* options that are the same, which the engine itself does not look at; and*)
(* one that fails has parameters for which the engine refuses or makes one,*)
(* or whose values are so near that the validator takes them for equal.    *)
SolvabilitySound(t, ranges, sample, verdict) ==
  LET Made(p) == Instantiate(t, p)
      Twice(o) == \E i, j \in DOMAIN o : i < j /\ o[i].value # NONE /\ o[j].value # NONE /\ SameValue(o[i].value, o[j].value)
      Sound(p) == Made(p).kind = "item" /\ ~Twice(Made(p).options)
      Near(v) == \E i, j \in DOMAIN v : v[i] # v[j] /\ AnswersEqual(v[i], v[j])
      Told(p) == Proper(t, p) /\ Comparable(t, p)
                 /\ \A i \in DOMAIN t.rules : Comparable([t EXCEPT !.answer = t.rules[i].expression], p)
  IN /\ verdict = "pass" /\ sample = Space(ranges) =>
          \A p \in sample : Told(p) /\ Made(p).kind = "item" => Sound(p)
     /\ verdict = "fail" /\ (\A p \in sample : Told(p) /\ "if" \notin Nodes(t.answer)) => \E p \in sample : ~Sound(p) \/ Near(Values(t, p))

(* What the engine certifies, the validator passes, unless the axis varies *)
(* a slot that does not make an item harder: the engine never asks that.   *)
(* What the engine leaves uncertified, the validator fails, unless the axis*)
(* is all of the slots: the validator never asks that.                     *)
InvarianceAgrees(t, certificate) ==
  LET verdict == ObjectiveInvariance(t, certificate.axis, t.objective, certificate.objective) IN
  /\ certificate.certified => (verdict = "pass" <=> \A s \in certificate.axis : t.slots[s].hard # "no")
  /\ ~certificate.certified /\ ~(DOMAIN t.slots \subseteq certificate.axis) => verdict = "fail"
=============================================================================
