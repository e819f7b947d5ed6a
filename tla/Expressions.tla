---------------------------- MODULE Expressions -----------------------------
(***************************************************************************)
(* The safe expressions of item templates (instantiation/expr/evaluator):  *)
(* trees of nodes, checked against a list of allowed nodes as a whole and  *)
(* then evaluated. A value is a number of one of Python's types, a truth   *)
(* value or a text; its number is a fraction in lowest terms. The rounding *)
(* of floats is left out, and so are powers, roots, round and ceil.        *)
(***************************************************************************)
EXTENDS Integers, Sequences, FiniteSets, FiniteSetsExt, SequencesExt

Lowest(n, d) ==
  LET size == IF n < 0 THEN -n ELSE n
      common == Max({k \in 1..d : size % k = 0 /\ d % k = 0})
  IN <<n \div common, d \div common>>
Value(type, n, d) == [type |-> type, q |-> Lowest(n, d)]
Truth(b) == Value("bool", IF b THEN 1 ELSE 0, 1)
Error == Value("error", 0, 1)
IsError(v) == v.type = "error"

(* A node: [op, v, name, args]: a constant, a name, or an operation on the *)
(* nodes that are its arguments.                                           *)
Node(op, args) == [op |-> op, v |-> Error, name |-> "", args |-> args]
Const(v) == [op |-> "constant", v |-> v, name |-> "", args |-> <<>>]
Name(x) == [op |-> "name", v |-> Error, name |-> x, args |-> <<>>]

Binary == {"+", "-", "*", "/", "//", "%"}
Unary == {"neg", "not"}
Compares == {"<", "<=", "==", "!="}
Functions == {"abs", "min", "max", "floor"}
Allowed == {"constant", "name", "and", "or", "if", "between"} \cup Binary \cup Unary \cup Compares \cup Functions

(* The nodes of a tree; Depth bounds the nesting of those in a template.   *)
Depth == 6
Parts(tree) ==
  LET level[n \in Nat] == IF n = 0 THEN {tree} ELSE UNION {Range(e.args) : e \in level[n - 1]}
  IN UNION {level[n] : n \in 0..Depth}

(* _validate_node: every node of the tree, evaluated or not, is allowed.   *)
Safe(tree) == \A e \in Parts(tree) : e.op \in Allowed

(* What two numbers have in common: a decimal goes with whole numbers only *)
(* and not with fractions or floats; texts do not take part.               *)
Joint(s, t) ==
  LET types == {IF x = "bool" THEN "int" ELSE x : x \in {s, t}} IN
  CASE types \cap {"text", "error"} # {} -> "error"
    [] types = {"int"} -> "int"
    [] types \in {{"decimal"}, {"int", "decimal"}} -> "decimal"
    [] types \in {{"fraction"}, {"int", "fraction"}} -> "fraction"
    [] types \subseteq {"int", "fraction", "float"} /\ "float" \in types -> "float"
    [] OTHER -> "error"

Less(a, b) == a.q[1] * b.q[2] < b.q[1] * a.q[2]
SameValue(a, b) == a.q = b.q /\ (a.type = "text" <=> b.type = "text")
Flow(a) == a.q[1] \div a.q[2]

(* _apply_binop: a division by zero, or types that do not go together, is  *)
(* an error; a quotient of whole numbers is a float. For decimals // and % *)
(* round towards zero.                                                     *)
Apply(op, a, b) ==
  LET t == Joint(a.type, b.type)
      n == a.q[1] * b.q[2]   m == b.q[1] * a.q[2]   d == a.q[2] * b.q[2]
      Down(x, y) == IF y > 0 THEN x \div y ELSE (-x) \div (-y)
      quotient == IF t = "decimal" /\ ((n < 0) # (m < 0)) THEN -Down(-n, m) ELSE Down(n, m)
  IN CASE t = "error" -> Error
       [] op = "+" -> Value(t, n + m, d)
       [] op = "-" -> Value(t, n - m, d)
       [] op = "*" -> Value(t, a.q[1] * b.q[1], d)
       [] op \in {"/", "//", "%"} /\ m = 0 -> Error
       [] op = "/" -> IF m > 0 THEN Value(IF t = "int" THEN "float" ELSE t, n, m)
                      ELSE Value(IF t = "int" THEN "float" ELSE t, -n, -m)
       [] op = "//" -> Value(IF t = "fraction" THEN "int" ELSE t, quotient, 1)
       [] op = "%" -> Value(t, n - quotient * m, d)

(* _apply_cmpop: numbers of any types compare; texts only for equality. *)
Compare(op, a, b) ==
  CASE op = "==" -> Truth(SameValue(a, b))
    [] op = "!=" -> Truth(~SameValue(a, b))
    [] "text" \in {a.type, b.type} -> Error
    [] op = "<" -> Truth(Less(a, b))
    [] op = "<=" -> Truth(~Less(b, a))

(* The functions of the list. *)
Call(f, vs) ==
  LET worst == IF \E i \in DOMAIN vs : vs[i].type = "text" THEN Error ELSE vs[1]
  IN CASE IsError(worst) -> Error
       [] f = "abs" -> [worst EXCEPT !.q = <<IF @[1] < 0 THEN -@[1] ELSE @[1], @[2]>>]
       [] f = "floor" -> Value("int", Flow(worst), 1)
       [] f = "min" -> FoldLeft(LAMBDA m, v : IF Less(v, m) THEN v ELSE m, worst, vs)
       [] f = "max" -> FoldLeft(LAMBDA m, v : IF Less(m, v) THEN v ELSE m, worst, vs)

Branch(test, yes, no) == IF test.q[1] # 0 THEN yes ELSE no

(* _eval_node: from left to right; "and", "or", a chain of comparisons and *)
(* a condition leave unevaluated what they do not need.                    *)
Eval(tree, env) ==
  LET value[e \in Parts(tree)] ==
        LET Arg(i) == value[e.args[i]]
            vs == [i \in DOMAIN e.args |-> Arg(i)]
            Strict(v) == IF \E i \in DOMAIN vs : IsError(vs[i]) THEN Error ELSE v
        IN CASE e.op = "constant" -> e.v
             [] e.op = "name" -> IF e.name \in DOMAIN env THEN env[e.name] ELSE Error
             [] e.op \in Binary -> Strict(Apply(e.op, Arg(1), Arg(2)))
             [] e.op = "neg" -> IF Arg(1).type \in {"text", "error"} THEN Error
                                ELSE Apply("-", Value("int", 0, 1), Arg(1))
             [] e.op = "not" -> Strict(Truth(Arg(1).q[1] = 0))
             [] e.op \in Compares -> Strict(Compare(e.op, Arg(1), Arg(2)))
             [] e.op = "between" -> LET low == Compare("<=", Arg(1), Arg(2))
                                    IN IF IsError(Arg(1)) \/ IsError(Arg(2)) \/ IsError(low) THEN Error
                                       ELSE IF low.q[1] = 0 THEN low
                                       ELSE IF IsError(Arg(3)) THEN Error ELSE Compare("<=", Arg(2), Arg(3))
             [] e.op = "and" -> IF IsError(Arg(1)) \/ Arg(1).q[1] = 0 THEN Arg(1) ELSE Arg(2)
             [] e.op = "or" -> IF IsError(Arg(1)) \/ Arg(1).q[1] # 0 THEN Arg(1) ELSE Arg(2)
             [] e.op = "if" -> IF IsError(Arg(1)) THEN Error ELSE Branch(Arg(1), Arg(2), Arg(3))
             [] e.op \in Functions -> Strict(Call(e.op, vs))
  IN value[tree]

Evaluate(e, env) == IF Safe(e) THEN Eval(e, env) ELSE Error

-----------------------------------------------------------------------------
(* A division that a condition guards never fails, whatever it divides by, *)
(* and a forbidden node is refused even where it would not be evaluated.   *)
GuardedDivision(x, y) ==
  LET guarded == Node("if", <<Node("==", <<Name("y"), Const(Value("int", 0, 1))>>),
                              Const(Value("int", 0, 1)), Node("/", <<Name("x"), Name("y")>>)>>)
      env == [n \in {"x", "y"} |-> IF n = "x" THEN x ELSE y]
      hidden == Node("if", <<Const(Truth(FALSE)), Node("attribute", <<Name("x")>>), Name("x")>>)
  IN /\ Joint(x.type, y.type) # "error" => ~IsError(Evaluate(guarded, env))
     /\ IsError(Evaluate(hidden, env))

(* Quotient and remainder belong together: what was divided is the divisor *)
(* taken so many times and the rest, and the rest is smaller.              *)
DivisionCloses(x, y) ==
  LET q == Apply("//", x, y)  r == Apply("%", x, y)
      back == Apply("+", Apply("*", q, y), r)
  IN ~IsError(q) => /\ back.q = x.q
                    /\ Less(Call("abs", <<r>>), Call("abs", <<y>>))
=============================================================================
