----------------------------- MODULE MathValues -----------------------------
(***************************************************************************)
(* The values of the mathematics pack and its functions on them            *)
(* (subject-math/variable-types): whole numbers, fractions and decimals of *)
(* its own, quantities with a unit, intervals. They meet the numbers of    *)
(* Python in templates, and only some of the pairs go together. The digits *)
(* a number is written with are left out, and so is sqrt_decimal.          *)
(***************************************************************************)
EXTENDS Expressions

CONSTANT NONE

Python == {"int", "bool", "float", "decimal", "fraction"}
Own == {"MathInteger", "Fraction", "Decimal"}

(* What is given may also be a text: "whole" and "point" are numerals,     *)
(* "word" is none. The constructors refuse by an exception; int() cuts the *)
(* numbers that a fraction is made of.                                     *)
MathInteger(raw) == IF raw.type \in {"int", "whole"} THEN Value("MathInteger", raw.q[1], raw.q[2]) ELSE Error
Decimal(raw) == IF raw.type \in {"whole", "point", "decimal"} THEN Value("Decimal", raw.q[1], raw.q[2]) ELSE Error
Cut(raw) == IF raw.q[1] < 0 THEN -((-raw.q[1]) \div raw.q[2]) ELSE raw.q[1] \div raw.q[2]
Fraction(n, d) ==
  IF {n.type, d.type} \subseteq {"int", "whole", "float", "decimal", "fraction"} /\ Cut(d) # 0
  THEN Value("Fraction", (IF Cut(d) < 0 THEN -1 ELSE 1) * Cut(n), IF Cut(d) < 0 THEN -Cut(d) ELSE Cut(d)) ELSE Error

(* A quantity: the type its number has (of), and a unit: a name, and       *)
(* whether it is written in capitals. near: rounded by a conversion.       *)
Number(raw) ==
  CASE raw.type \in Own -> raw
    [] raw.type \in {"int", "whole"} -> MathInteger(raw)
    [] raw.type \in {"decimal", "point"} -> Decimal(raw)
    [] OTHER -> Error
Quantity(raw, unit) ==
  LET v == Number(raw) IN
  IF IsError(v) \/ unit[1] = "" THEN Error
  ELSE [type |-> "Quantity", q |-> v.q, of |-> v.type, unit |-> unit, near |-> FALSE]
Lower(unit) == unit[1]

-----------------------------------------------------------------------------
(* __lt__ with its reflection: a value of the pack goes with its own kind, *)
(* with int, and with its counterpart in Python; quantities with nothing;  *)
(* the numbers of Python go together.                                      *)
Comparable(x, y) ==
  LET types == {x.type, y.type} IN
  \/ types \subseteq Python
  \/ \E own \in Own : types \subseteq {own, "int"}
  \/ types \in {{"Fraction", "fraction"}, {"Decimal", "decimal"}}

(* __eq__ and __hash__. *)
Equal(x, y) ==
  \/ Comparable(x, y) /\ x.q = y.q
  \/ {x.type, y.type} = {"Quantity"} /\ Lower(x.unit) = Lower(y.unit) /\ <<x.of, x.q, x.near>> = <<y.of, y.q, y.near>>
Hash(x) == IF x.type = "Quantity" THEN <<Lower(x.unit), x.of, x.q, x.near>> ELSE <<x.type, x.q>>

(* The operators: MathInteger has +, - and *, Fraction + and -, but nothing*)
(* is taken from the left of it, Decimal has none; add, sub, mul and div.  *)
Exactly(op, x, y) == Apply(op, Value("fraction", x.q[1], x.q[2]), Value("fraction", y.q[1], y.q[2])).q
Plain(op, x, y) ==
  LET types == {x.type, y.type}
      Is(type) == [type |-> type, q |-> Exactly(op, x, y)]
  IN CASE types \subseteq Python -> Apply(op, x, y)
       [] "MathInteger" \in types /\ types \subseteq {"MathInteger", "int"} /\ op \in {"+", "-", "*"} -> Is("MathInteger")
       [] "Fraction" \in types /\ types \subseteq {"Fraction", "int"} /\ (op = "+" \/ (op = "-" /\ x.type = "Fraction")) -> Is("Fraction")
       [] OTHER -> Error
Combine(op, x, y) ==
  IF {x.type, y.type} # {"Quantity"} THEN Plain(op, x, y)
  ELSE IF op \notin {"+", "-"} \/ Lower(x.unit) # Lower(y.unit) THEN Error
  ELSE Quantity(Plain(op, [type |-> x.of, q |-> x.q], [type |-> y.of, q |-> y.q]), x.unit)

(* minimum and maximum: the first of two that are equal. *)
Extreme(f, x, y) ==
  IF ~Comparable(x, y) THEN Error
  ELSE IF (f = "minimum" /\ Less(y, x)) \/ (f = "maximum" /\ Less(x, y)) THEN y ELSE x

-----------------------------------------------------------------------------
Size(n) == IF n < 0 THEN -n ELSE n

(* gcd, lcm, simplify_fraction and is_reduced, of whole numbers. *)
Gcd(a, b) == IF a = 0 THEN Size(b) ELSE IF b = 0 THEN Size(a) ELSE Max({k \in 1..Size(a) : a % k = 0 /\ b % k = 0})
Lcm(a, b) == IF a # 0 /\ b # 0 THEN Size(a * b) \div Gcd(a, b) ELSE 0
Simplified(n, d) == Fraction(Value("int", n, 1), Value("int", d, 1))
IsReduced(n, d) == d > 0 /\ (Gcd(n, d) = 1 \/ n = 0)

(* round_half_up: to so many places, halves away from zero.                *)
RoundHalfUp(v, digits) ==
  LET unit == 10 ^ (IF digits < 0 THEN 0 ELSE digits)
      up == (2 * Size(v.q[1]) * unit + v.q[2]) \div (2 * v.q[2])
  IN Value("decimal", IF v.q[1] < 0 THEN -up ELSE up, unit)

(* power: no negative exponents, and none of the pack's own values.        *)
Power(base, exponent) ==
  IF exponent.type # "int" \/ exponent.q[1] < 0 \/ base.type \notin Python THEN Error
  ELSE Value(IF base.type = "bool" THEN "int" ELSE base.type, base.q[1] ^ exponent.q[1], base.q[2] ^ exponent.q[1])

-----------------------------------------------------------------------------
(* _DEFAULT_UNIT_TABLE: <<n, d>> for the factor n/d. A sixtieth has been   *)
(* rounded to its last digit and no product with it is whole any more.     *)
UnitTable ==
  [m |-> [cm |-> <<100, 1>>, mm |-> <<1000, 1>>, km |-> <<1, 1000>>],
   cm |-> [m |-> <<1, 100>>, mm |-> <<10, 1>>],
   mm |-> [cm |-> <<1, 10>>, m |-> <<1, 1000>>],
   km |-> [m |-> <<1000, 1>>, cm |-> <<100000, 1>>],
   kg |-> [g |-> <<1000, 1>>],
   g |-> [kg |-> <<1, 1000>>],
   min |-> [s |-> <<60, 1>>, h |-> <<1, 60>>],
   s |-> [min |-> <<1, 60>>],
   h |-> [min |-> <<60, 1>>, s |-> <<3600, 1>>]]
Rule(from, to) == Lower(from) \in DOMAIN UnitTable /\ Lower(to) \in DOMAIN UnitTable[Lower(from)]
Factor(from, to) == UnitTable[Lower(from)][Lower(to)]

(* convert_unit: a number of Python or a numeral, none of the pack; what   *)
(* is whole becomes a MathInteger, anything else a Decimal. Within a unit  *)
(* nothing is computed.                                                    *)
Convert(raw, near, from, to) ==
  CASE raw.type \in {"bool", "float"} -> Error
    [] Lower(from) = Lower(to) -> Quantity(raw, to)
    [] raw.type \notin {"int", "decimal", "whole", "point"} \/ ~Rule(from, to) -> Error
    [] OTHER ->
         LET v == Value("decimal", raw.q[1] * Factor(from, to)[1], raw.q[2] * Factor(from, to)[2])
             off == v.q[1] # 0 /\ (near \/ Factor(from, to) = <<1, 60>>)
         IN [Quantity(IF v.q[2] = 1 /\ ~off THEN Value("int", v.q[1], 1) ELSE v, to) EXCEPT !.near = off]

(* The number of a quantity, as a caller has to take it out to convert it  *)
(* again: value.value of the pack's numbers.                               *)
Inner(x) == [type |-> IF x.of = "MathInteger" THEN "int" ELSE "decimal", q |-> x.q]

-----------------------------------------------------------------------------
(* _normalize_endpoint and Interval: the ends are in order if they can be  *)
(* compared at all.                                                        *)
Endpoint(raw) ==
  CASE raw = NONE -> NONE
    [] raw # NONE /\ raw.type \in {"int", "whole"} -> MathInteger(raw)
    [] raw # NONE /\ raw.type = "point" -> Decimal(raw)
    [] raw # NONE /\ raw.type \in {"bool", "word"} -> Error
    [] OTHER -> raw
Interval(low, high, lowClosed, highClosed) ==
  LET l == Endpoint(low)  h == Endpoint(high)
      both == l # NONE /\ h # NONE
  IN IF Error \in {l, h} \/ (both /\ Comparable(l, h) /\ Less(h, l)) THEN Error
     ELSE [type |-> "Interval", low |-> l, high |-> h, lowClosed |-> lowClosed, highClosed |-> highClosed]

(* x lies before y, or on it if that is allowed; what cannot be compared   *)
(* does not.                                                               *)
Within(x, y, closed) == Comparable(x, y) /\ (Less(x, y) \/ (closed /\ x.q = y.q))
InInterval(i, v) ==
  /\ i.low # NONE => Within(i.low, v, i.lowClosed)
  /\ i.high # NONE => Within(v, i.high, i.highClosed)
Reaches(i, j) == i.low # NONE /\ j.high # NONE => Within(i.low, j.high, i.lowClosed /\ j.highClosed)
IntervalOverlap(i, j) == Reaches(i, j) /\ Reaches(j, i)
-----------------------------------------------------------------------------
(* Values that are equal have one hash, so a set holds them once; of two   *)
(* that compare exactly one relation holds; a sum does not depend on the   *)
(* order and what was added can be taken away again (variable_types.py).   *)
ValuesCoherent(x, y, sum) ==
  /\ x.type \notin Python /\ y.type \notin Python /\ Equal(x, y) => Hash(x) = Hash(y)
  /\ Comparable(x, y) => Cardinality({r \in {"less", "equal", "more"} :
       CASE r = "less" -> Less(x, y) [] r = "equal" -> Equal(x, y) [] r = "more" -> Less(y, x)}) = 1
  /\ IF IsError(sum) THEN IsError(Combine("+", y, x)) ELSE Equal(sum, Combine("+", y, x))
  /\ ~IsError(sum) => LET back == Combine("-", sum, y) IN ~IsError(back) => back.q = x.q

(* A quotient in lowest terms is what it was, gcd and lcm have the product *)
(* of their arguments, and a rounded number is the nearest, away from zero *)
(* at a half (functions.py).                                               *)
WholesCoherent(a, b, digits, f, rounded) ==
  /\ Gcd(a, b) * Lcm(a, b) = Size(a * b)
  /\ b # 0 => /\ IsReduced(f.q[1], f.q[2]) /\ f.q[1] * b = a * f.q[2]
              /\ IsReduced(a, b) /\ a # 0 => f.q = <<a, b>>
  /\ b > 0 => LET v == Value("decimal", a, b)
                  off == Apply("-", rounded, v)
                  unit == 10 ^ (IF digits < 0 THEN 0 ELSE digits)
              IN /\ 2 * Size(off.q[1]) * unit <= off.q[2]
                 /\ 2 * Size(off.q[1]) * unit = off.q[2] => (off.q[1] > 0 <=> a > 0)

(* A conversion and the one back give the amount that was given, and two   *)
(* in a row what the direct one gives, wherever the table has the rules and*)
(* no sixtieth is among them (convert_unit).                               *)
ConversionCloses(raw, from, to, by, q) ==
  LET Again(v, unit) == Convert(Inner(v), v.near, v.unit, unit)
  IN IsError(q) \/ q.near \/
       /\ ~IsError(Again(q, from)) /\ ~Again(q, from).near => Again(q, from).q = raw.q
       /\ LET p == Convert(raw, FALSE, from, by) IN
            IsError(p) \/ p.near \/ Lower(by) \in {Lower(from), Lower(to)} \/
              LET direct == Again(p, to) IN IsError(direct) \/ direct.near \/ Equal(direct, q)

(* Intervals of one kind that have a point in common are said to overlap,  *)
(* and those that are said to and are not empty have one, if there is a    *)
(* number of that kind between any two (interval_overlap).                 *)
Ends(i) == {i.low, i.high} \ {NONE}
NotEmpty(i) == NONE \in {i.low, i.high} \/ Within(i.low, i.high, i.lowClosed /\ i.highClosed)
OverlapMeets(i, j, points, overlap) ==
  LET kinds == {e.type : e \in Ends(i) \cup Ends(j)}
      common == {p \in points : kinds = {p.type} /\ InInterval(i, p) /\ InInterval(j, p)}
  IN /\ common # {} => overlap
     /\ kinds \in {{"Fraction"}, {"Decimal"}} /\ NotEmpty(i) /\ NotEmpty(j) /\ overlap => common # {}
=============================================================================
