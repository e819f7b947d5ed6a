-------------------------- MODULE AlgorithmsProofs --------------------------
(***************************************************************************)
(* Proof that the scorers mark what is answered (MarksFaithful), whatever  *)
(* the answers, steps, rubrics, replies and cases are, and that papers are *)
(* legal (PapersLegal), whatever the profiles, pools and tables are. What a*)
(* list adds up to, what is left of it and what a loop leaves behind are   *)
(* functions that count up; the first lemmas say what such a function is at*)
(* every step, the next what each scorer gives and that a call is answered *)
(* by its own scorer. For papers, the units part the eligible candidates, a*)
(* selection of them is what every loop of the solver keeps, a quota that  *)
(* stays short has all the units that serve it, and what the filters drop  *)
(* adds up. The assumptions are those of Algorithms.                       *)
(***************************************************************************)
EXTENDS Algorithms, FiniteSetTheorems, SequenceTheorems, TLAPS

\* Every set of natural numbers that has a member has a least one.
LEMMA Least == ASSUME NEW T \in SUBSET Nat, T # {} PROVE \E i \in T : \A j \in T : i <= j
<1> DEFINE Below == {ss \in Nat \X Nat : ss[1] < ss[2]}
<1>1. IsWellFoundedOn(Below, Nat)
  BY NatLessThanWellFounded DEF OpToRel
<1>2. PICK x \in T : \A y \in T : <<y, x>> \notin Below
  <2> HIDE DEF Below
  <2> QED
    BY <1>1, WFMin
<1>3. \A y \in T : ~(y < x)
  BY <1>2
<1> QED
  BY <1>3

(* f starts with z and takes N steps; it is the only function that does.   *)
Follows(f, z, N, step) == f[0] = z /\ \A n \in 1..N : f[n] = step[<<f[n - 1], n>>]
Only(f, Z, z, N, step) ==
  \A g : g[0] = z /\ (\A n \in 1..N : g[n - 1] \in Z => g[n] = step[<<g[n - 1], n>>])
           => \A n \in 0..N : g[n] = f[n]

\* What is set first and then made by steps, one after another, exists and
\* is the only one of its kind.
LEMMA StepByStep ==
  ASSUME NEW Z, NEW z \in Z, NEW N \in Nat, NEW step \in [Z \X (1..N) -> Z]
  PROVE  \E f \in [0..N -> Z] : Follows(f, z, N, step) /\ Only(f, Z, z, N, step)
<1> DEFINE Made(f, n) == f[0] = z /\ \A k \in 1..n : f[k] = step[<<f[k - 1], k>>]
           Fails == {n \in 0..N : \A f \in [0..n -> Z] : ~Made(f, n)}
<1>1. Fails = {}
  <2>1. SUFFICES ASSUME Fails # {} PROVE FALSE
    OBVIOUS
  <2>2. PICK n \in Fails : \A k \in Fails : n <= k
    <3>1. Fails \in SUBSET Nat
      OBVIOUS
    <3> HIDE DEF Fails
    <3> QED
      BY <2>1, <3>1, Least
  <2>3. n # 0
    <3>1. [k \in 0..0 |-> z] \in [0..0 -> Z] /\ Made([k \in 0..0 |-> z], 0)
      OBVIOUS
    <3> QED
      BY <3>1, <2>2
  <2>4. PICK f \in [0..(n - 1) -> Z] : Made(f, n - 1)
    <3>1. n - 1 \in 0..N /\ n - 1 \notin Fails
      BY <2>2, <2>3
    <3> QED
      BY <3>1
  <2> DEFINE g == [k \in 0..n |-> IF k = n THEN step[<<f[n - 1], n>>] ELSE f[k]]
  <2>5. g \in [0..n -> Z]
    <3>1. f[n - 1] \in Z /\ n \in 1..N
      BY <2>2, <2>3, <2>4
    <3>2. step[<<f[n - 1], n>>] \in Z
      BY <3>1
    <3>3. \A k \in 0..n : k # n => k \in 0..(n - 1)
      BY <2>2
    <3> QED
      BY <3>2, <3>3
  <2>6. Made(g, n)
    <3>1. g[0] = z
      BY <2>2, <2>3, <2>4
    <3>2. ASSUME NEW k \in 1..n PROVE g[k] = step[<<g[k - 1], k>>]
      <4>1. k - 1 \in 0..n /\ k - 1 # n /\ k \in 0..n
        BY <2>2
      <4>2. g[k - 1] = f[k - 1]
        BY <4>1
      <4>3. CASE k = n
        BY <4>1, <4>2, <4>3
      <4>4. CASE k # n
        <5>1. k \in 1..(n - 1)
          BY <4>4, <2>2
        <5>2. g[k] = f[k]
          BY <4>1, <4>4
        <5> QED
          BY <5>1, <5>2, <4>2, <2>4
      <4> QED
        BY <4>3, <4>4
    <3> QED
      BY <3>1, <3>2
  <2> QED
    BY <2>2, <2>5, <2>6
<1>2. PICK f \in [0..N -> Z] : Made(f, N)
  BY <1>1
<1>3. ASSUME NEW g, g[0] = z, \A n \in 1..N : g[n - 1] \in Z => g[n] = step[<<g[n - 1], n>>]
      PROVE  \A n \in 0..N : g[n] = f[n]
  <2> DEFINE Apart == {n \in 0..N : g[n] # f[n]}
  <2>1. SUFFICES ASSUME Apart # {} PROVE FALSE
    OBVIOUS
  <2>2. PICK n \in Apart : \A k \in Apart : n <= k
    <3>1. Apart \in SUBSET Nat
      OBVIOUS
    <3> HIDE DEF Apart
    <3> QED
      BY <2>1, <3>1, Least
  <2>3. n # 0
    BY <2>2, <1>2, <1>3
  <2>4. n \in 1..N /\ n - 1 \in 0..N /\ n - 1 \notin Apart
    BY <2>2, <2>3
  <2>5. g[n - 1] = f[n - 1] /\ f[n - 1] \in Z
    BY <2>4
  <2> QED
    BY <2>2, <2>4, <2>5, <1>2, <1>3
<1> QED
  BY <1>2, <1>3 DEF Follows, Only

\* Total adds the numbers of a list up from the first.
LEMMA TotalSteps ==
  ASSUME NEW n \in Nat, NEW s \in [1..n -> Int]
  PROVE  \E t \in [0..n -> Int] : t[0] = 0 /\ (\A k \in 1..n : t[k] = t[k - 1] + s[k]) /\ S!Total(s) = t[n]
<1> DEFINE step == [p \in Int \X (1..n) |-> p[1] + s[p[2]]]
           sum == CHOOSE sum : sum = [k \in 0..n |-> IF k = 0 THEN 0 ELSE sum[k - 1] + s[k]]
<1>1. step \in [Int \X (1..n) -> Int]
  OBVIOUS
<1>2. PICK t \in [0..n -> Int] : Follows(t, 0, n, step) /\ Only(t, Int, 0, n, step)
  <2>1. 0 \in Int
    OBVIOUS
  <2> HIDE DEF step
  <2> QED
    BY <1>1, <2>1, StepByStep
<1>3. \A k \in 1..n : t[k] = t[k - 1] + s[k]
  <2>1. ASSUME NEW k \in 1..n PROVE t[k - 1] \in Int
    OBVIOUS
  <2> QED
    BY <1>2, <2>1 DEF Follows
<1>4. t = [k \in 0..n |-> IF k = 0 THEN 0 ELSE t[k - 1] + s[k]]
  BY <1>2, <1>3 DEF Follows
<1>5. sum = [k \in 0..n |-> IF k = 0 THEN 0 ELSE sum[k - 1] + s[k]]
  <2> HIDE DEF step
  <2> QED
    BY <1>4
<1>6. sum[n] = t[n]
  <2>1. sum[0] = 0 /\ \A k \in 1..n : sum[k] = sum[k - 1] + s[k]
    <3>1. \A k \in 1..n : k \in 0..n /\ k # 0
      OBVIOUS
    <3> HIDE DEF sum
    <3> QED
      BY <1>5, <3>1
  <2>2. \A k \in 1..n : sum[k - 1] \in Int => sum[k] = step[<<sum[k - 1], k>>]
    <3> HIDE DEF sum
    <3> QED
      BY <2>1
  <2> HIDE DEF sum, step
  <2> QED
    BY <2>1, <2>2, <1>2 DEF Only
<1>7. S!Total(s) = sum[n]
  <2>1. Len(s) = n
    OBVIOUS
  <2> QED
    BY <2>1 DEF S!Total
<1> QED
  BY <1>2, <1>3, <1>6, <1>7 DEF Follows

\* A total is at most another if each of its numbers is, and it is the same
\* only if each of its numbers is the same.
LEMMA TotalCompares ==
  ASSUME NEW n \in Nat, NEW s \in [1..n -> Int], NEW t \in [1..n -> Int], \A i \in 1..n : s[i] <= t[i]
  PROVE  /\ S!Total(s) \in Int /\ S!Total(t) \in Int /\ S!Total(s) <= S!Total(t)
         /\ S!Total(s) = S!Total(t) => \A i \in 1..n : s[i] = t[i]
<1>1. PICK u \in [0..n -> Int] : u[0] = 0 /\ (\A k \in 1..n : u[k] = u[k - 1] + s[k]) /\ S!Total(s) = u[n]
  BY TotalSteps
<1>2. PICK v \in [0..n -> Int] : v[0] = 0 /\ (\A k \in 1..n : v[k] = v[k - 1] + t[k]) /\ S!Total(t) = v[n]
  BY TotalSteps
<1> DEFINE Good(k) == u[k] <= v[k] /\ (u[k] = v[k] => \A i \in 1..k : s[i] = t[i])
           Bad == {k \in 0..n : ~Good(k)}
<1>3. Bad = {}
  <2>1. SUFFICES ASSUME Bad # {} PROVE FALSE
    OBVIOUS
  <2>2. PICK k \in Bad : \A j \in Bad : k <= j
    <3>1. Bad \in SUBSET Nat
      OBVIOUS
    <3> HIDE DEF Bad
    <3> QED
      BY <2>1, <3>1, Least
  <2>3. Good(0)
    BY <1>1, <1>2
  <2>4. k \in 1..n /\ k - 1 \in 0..n /\ k - 1 \notin Bad
    BY <2>2, <2>3
  <2>5. Good(k - 1)
    BY <2>4
  <2>6. /\ u[k] = u[k - 1] + s[k] /\ v[k] = v[k - 1] + t[k] /\ s[k] <= t[k]
        /\ u[k - 1] \in Int /\ v[k - 1] \in Int /\ s[k] \in Int /\ t[k] \in Int
    BY <2>4, <1>1, <1>2
  <2>7. u[k] <= v[k]
    <3>1. \A a, b, x, y \in Int : a <= b /\ x <= y => a + x <= b + y
      OBVIOUS
    <3>2. u[k - 1] <= v[k - 1]
      BY <2>5
    <3>3. u[k - 1] + s[k] <= v[k - 1] + t[k]
      <4> HIDE DEF Good, Bad
      <4> QED
        BY <2>6, <3>1, <3>2
    <3> HIDE DEF Good, Bad
    <3> QED
      BY <2>6, <3>3
  <2>8. ASSUME u[k] = v[k], NEW i \in 1..k PROVE s[i] = t[i]
    <3>1. u[k - 1] = v[k - 1] /\ s[k] = t[k]
      <4>1. \A a, b, x, y \in Int : a <= b /\ x <= y /\ a + x = b + y => a = b /\ x = y
        OBVIOUS
      <4>2. u[k - 1] <= v[k - 1] /\ u[k - 1] + s[k] = v[k - 1] + t[k]
        BY <2>5, <2>6, <2>8
      <4> QED
        BY <2>6, <4>1, <4>2
    <3>2. i = k \/ i \in 1..(k - 1)
      BY <2>4
    <3> QED
      BY <3>1, <3>2, <2>5
  <2> QED
    BY <2>2, <2>7, <2>8
<1>4. Good(n)
  <2>1. n \in 0..n
    OBVIOUS
  <2> QED
    BY <1>3, <2>1
<1> QED
  BY <1>1, <1>2, <1>4

\* The total of whole marks is a whole mark of the total.
LEMMA TotalOfWholes ==
  ASSUME NEW n \in Nat, NEW s \in [1..n -> Int], NEW t \in [1..n -> Int], \A i \in 1..n : s[i] = S!Whole * t[i]
  PROVE  S!Total(s) \in Int /\ S!Total(t) \in Int /\ S!Total(s) = S!Whole * S!Total(t)
<1>1. PICK u \in [0..n -> Int] : u[0] = 0 /\ (\A k \in 1..n : u[k] = u[k - 1] + s[k]) /\ S!Total(s) = u[n]
  BY TotalSteps
<1>2. PICK v \in [0..n -> Int] : v[0] = 0 /\ (\A k \in 1..n : v[k] = v[k - 1] + t[k]) /\ S!Total(t) = v[n]
  BY TotalSteps
<1> DEFINE Bad == {k \in 0..n : u[k] # S!Whole * v[k]}
<1>3. Bad = {}
  <2>1. SUFFICES ASSUME Bad # {} PROVE FALSE
    OBVIOUS
  <2>2. PICK k \in Bad : \A j \in Bad : k <= j
    <3>1. Bad \in SUBSET Nat
      OBVIOUS
    <3> HIDE DEF Bad
    <3> QED
      BY <2>1, <3>1, Least
  <2>3. u[0] = S!Whole * v[0]
    BY <1>1, <1>2 DEF S!Whole
  <2>4. k \in 1..n /\ k - 1 \in 0..n /\ k - 1 \notin Bad
    BY <2>2, <2>3
  <2>5. /\ u[k] = u[k - 1] + s[k] /\ v[k] = v[k - 1] + t[k] /\ s[k] = S!Whole * t[k]
        /\ u[k - 1] \in Int /\ v[k - 1] \in Int /\ s[k] \in Int /\ t[k] \in Int
    BY <2>4, <1>1, <1>2
  <2>6. u[k - 1] = S!Whole * v[k - 1]
    BY <2>4
  <2>7. u[k] = S!Whole * v[k]
    <3>1. \A a, x \in Int : S!Whole * a + S!Whole * x = S!Whole * (a + x)
      BY DEF S!Whole
    <3> QED
      BY <2>5, <2>6, <3>1
  <2> QED
    BY <2>2, <2>7
<1>4. u[n] = S!Whole * v[n]
  <2>1. n \in 0..n
    OBVIOUS
  <2> QED
    BY <1>3, <2>1
<1> QED
  BY <1>1, <1>2, <1>4

\* A total of numbers that are not negative is not negative, and zero only
\* if all of them are.
LEMMA TotalIsNothing ==
  ASSUME NEW n \in Nat, NEW t \in [1..n -> Int], \A i \in 1..n : t[i] >= 0
  PROVE  S!Total(t) \in Nat /\ (S!Total(t) = 0 <=> \A i \in 1..n : t[i] = 0)
<1> DEFINE zeros == [i \in 1..n |-> 0]
<1>1. zeros \in [1..n -> Int] /\ \A i \in 1..n : zeros[i] = 0 /\ zeros[i] <= t[i] /\ zeros[i] = S!Whole * zeros[i]
  BY DEF S!Whole
<1> HIDE DEF zeros
<1>2. S!Total(zeros) \in Int /\ S!Total(zeros) = S!Whole * S!Total(zeros)
  BY <1>1, TotalOfWholes
<1>3. S!Total(zeros) = 0
  BY <1>2 DEF S!Whole
<1>4. /\ S!Total(t) \in Int /\ S!Total(zeros) <= S!Total(t)
      /\ S!Total(zeros) = S!Total(t) => \A i \in 1..n : zeros[i] = t[i]
  BY <1>1, TotalCompares
<1>5. ASSUME \A i \in 1..n : t[i] = 0 PROVE t = zeros
  BY <1>5 DEF zeros
<1> QED
  BY <1>1, <1>3, <1>4, <1>5

\* What holds of 0 and of every number after one that it holds of.
LEMMA CountingUp ==
  ASSUME NEW N \in Nat, NEW T, 0 \in T, \A n \in 1..N : n - 1 \in T => n \in T
  PROVE  \A n \in 0..N : n \in T
<1> DEFINE Out == {n \in 0..N : n \notin T}
<1>1. SUFFICES ASSUME Out # {} PROVE FALSE
  OBVIOUS
<1>2. PICK n \in Out : \A k \in Out : n <= k
  <2>1. Out \in SUBSET Nat
    OBVIOUS
  <2> HIDE DEF Out
  <2> QED
    BY <1>1, <2>1, Least
<1>3. n \in 1..N /\ n - 1 \in 0..N /\ n - 1 \notin Out
  BY <1>2
<1> QED
  BY <1>2, <1>3

\* The members of a list.
Held(q) == {q[i] : i \in 1..Len(q)}

(* Nothing is in a list twice.                                            *)
NothingTwice(q) == \A i, j \in 1..Len(q) : q[i] = q[j] => i = j

\* Of two lists one after the other the members are those of both, and
\* nothing is there twice if nothing is in one of them and in both.
LEMMA HeldByBoth ==
  ASSUME NEW X, NEW a \in Seq(X), NEW b \in Seq(X)
  PROVE  /\ a \o b \in Seq(X) /\ Held(a \o b) = Held(a) \cup Held(b) /\ Len(a \o b) = Len(a) + Len(b)
         /\ NothingTwice(a) /\ NothingTwice(b) /\ Held(a) \cap Held(b) = {} => NothingTwice(a \o b)
<1>1. /\ a \o b \in Seq(X) /\ Len(a \o b) = Len(a) + Len(b) /\ Len(a) \in Nat /\ Len(b) \in Nat
      /\ \A i \in 1..(Len(a) + Len(b)) : (a \o b)[i] = IF i <= Len(a) THEN a[i] ELSE b[i - Len(a)]
  BY ConcatProperties, LenProperties
<1>2. \A i \in 1..Len(a) : i \in 1..Len(a \o b) /\ (a \o b)[i] = a[i]
  BY <1>1
<1>3. ASSUME NEW i \in 1..Len(b) PROVE Len(a) + i \in 1..Len(a \o b) /\ (a \o b)[Len(a) + i] = b[i]
  <2>1. Len(a) + i \in 1..(Len(a) + Len(b)) /\ ~(Len(a) + i <= Len(a)) /\ (Len(a) + i) - Len(a) = i
    BY <1>1
  <2> QED
    BY <1>1, <2>1
<1>4. ASSUME NEW i \in 1..Len(a \o b)
      PROVE  \/ i \in 1..Len(a) /\ (a \o b)[i] = a[i]
             \/ i - Len(a) \in 1..Len(b) /\ (a \o b)[i] = b[i - Len(a)]
  BY <1>1
<1>5. Held(a \o b) = Held(a) \cup Held(b)
  <2>1. Held(a \o b) \subseteq Held(a) \cup Held(b)
    BY <1>4 DEF Held
  <2>2. Held(a) \subseteq Held(a \o b)
    BY <1>2 DEF Held
  <2>3. Held(b) \subseteq Held(a \o b)
    BY <1>3 DEF Held
  <2> QED
    BY <2>1, <2>2, <2>3
<1>6. ASSUME NothingTwice(a), NothingTwice(b), Held(a) \cap Held(b) = {},
             NEW i \in 1..Len(a \o b), NEW j \in 1..Len(a \o b), (a \o b)[i] = (a \o b)[j]
      PROVE  i = j
  <2>1. CASE i \in 1..Len(a) /\ (a \o b)[i] = a[i] /\ j \in 1..Len(a) /\ (a \o b)[j] = a[j]
    BY <1>6, <2>1 DEF NothingTwice
  <2>2. CASE i - Len(a) \in 1..Len(b) /\ (a \o b)[i] = b[i - Len(a)] /\ j - Len(a) \in 1..Len(b) /\ (a \o b)[j] = b[j - Len(a)]
    <3>1. i - Len(a) = j - Len(a)
      BY <1>6, <2>2 DEF NothingTwice
    <3> QED
      BY <1>1, <3>1
  <2>3. ASSUME NEW x \in 1..Len(a), NEW y \in 1..Len(b), a[x] = b[y] PROVE FALSE
    BY <1>6, <2>3 DEF Held
  <2> QED
    BY <1>4, <1>6, <2>1, <2>2, <2>3
<1> QED
  BY <1>1, <1>5, <1>6 DEF NothingTwice

\* A list of lists is put together from the first.
LEMMA FlattenSteps ==
  ASSUME NEW X, NEW n \in Nat, NEW ss \in [1..n -> Seq(X)]
  PROVE  \E f \in [0..n -> Seq(X)] : /\ f[0] = <<>> /\ \A i \in 1..n : f[i] = f[i - 1] \o ss[i]
                                    /\ S!FlattenSeq(ss) = f[n]
<1> DEFINE step == [p \in Seq(X) \X (1..n) |-> p[1] \o ss[p[2]]]
           flatten == CHOOSE flatten : flatten = [i \in 1..n |-> IF i = 1 THEN ss[i] ELSE flatten[i - 1] \o ss[i]]
<1>1. step \in [Seq(X) \X (1..n) -> Seq(X)]
  <2>1. ASSUME NEW q \in Seq(X), NEW i \in 1..n PROVE q \o ss[i] \in Seq(X)
    BY ConcatProperties
  <2> QED
    BY <2>1
<1>2. PICK f \in [0..n -> Seq(X)] : Follows(f, <<>>, n, step) /\ Only(f, Seq(X), <<>>, n, step)
  <2>1. <<>> \in Seq(X)
    OBVIOUS
  <2> HIDE DEF step
  <2> QED
    BY <1>1, <2>1, StepByStep
<1>3. f[0] = <<>> /\ \A i \in 1..n : f[i] = f[i - 1] \o ss[i]
  <2>1. ASSUME NEW i \in 1..n PROVE f[i - 1] \in Seq(X)
    OBVIOUS
  <2> QED
    BY <1>2, <2>1 DEF Follows
<1>4. \A i \in 1..n : f[i] = IF i = 1 THEN ss[i] ELSE f[i - 1] \o ss[i]
  <2>1. ASSUME 1 \in 1..n PROVE f[1] = ss[1]
    <3>1. f[1] = <<>> \o ss[1] /\ ss[1] \in Seq(X)
      <4>1. 1 - 1 = 0 /\ ss[1] \in Seq(X)
        BY <2>1
      <4>2. f[1] = f[1 - 1] \o ss[1]
        BY <1>3, <2>1
      <4> QED
        BY <4>1, <4>2, <1>3
    <3> QED
      BY <3>1, ConcatEmptySeq
  <2> QED
    BY <1>3, <2>1
<1>5. flatten = [i \in 1..n |-> IF i = 1 THEN ss[i] ELSE flatten[i - 1] \o ss[i]]
  <2> DEFINE g == [i \in 1..n |-> f[i]]
  <2>1. ASSUME NEW i \in 1..n, i # 1 PROVE g[i - 1] = f[i - 1]
    BY <2>1
  <2>2. g = [i \in 1..n |-> IF i = 1 THEN ss[i] ELSE g[i - 1] \o ss[i]]
    BY <1>4, <2>1
  <2> HIDE DEF step, g
  <2> QED
    BY <2>2
<1>6. ASSUME n # 0 PROVE flatten[n] = f[n]
  <2> DEFINE g == [i \in 0..n |-> IF i = 0 THEN <<>> ELSE flatten[i]]
  <2>1. g[0] = <<>>
    OBVIOUS
  <2>2. ASSUME NEW i \in 1..n, g[i - 1] \in Seq(X) PROVE g[i] = step[<<g[i - 1], i>>]
    <3>1. flatten[i] = IF i = 1 THEN ss[i] ELSE flatten[i - 1] \o ss[i]
      <4> HIDE DEF flatten
      <4> QED
        BY <1>5
    <3>2. g[i] = g[i - 1] \o ss[i]
      <4> HIDE DEF flatten
      <4>1. CASE i = 1
        BY <4>1, <3>1, ConcatEmptySeq
      <4>2. CASE i # 1
        <5>1. i - 1 \in 0..n /\ i - 1 # 0 /\ i \in 0..n /\ i # 0
          BY <4>2
        <5>2. g[i - 1] = flatten[i - 1] /\ g[i] = flatten[i]
          BY <5>1
        <5> HIDE DEF g
        <5> QED
          BY <4>2, <3>1, <5>2
      <4> QED
        BY <4>1, <4>2
    <3> HIDE DEF g
    <3> QED
      BY <3>2, <2>2
  <2>3. g[n] = f[n]
    <3> HIDE DEF g, step
    <3> QED
      BY <2>1, <2>2, <1>2 DEF Only
  <2> QED
    BY <2>3, <1>6
<1>7. S!FlattenSeq(ss) = f[n]
  <2>1. Len(ss) = n
    OBVIOUS
  <2>2. CASE n = 0
    BY <2>1, <2>2, <1>3 DEF S!FlattenSeq
  <2>3. CASE n # 0
    BY <2>1, <2>3, <1>6 DEF S!FlattenSeq
  <2> QED
    BY <2>2, <2>3
<1> QED
  BY <1>3, <1>7

\* What lists hold one after another, and that it holds nothing twice if
\* none of them does and no two of them have a common member.
LEMMA FlattenHolds ==
  ASSUME NEW X, NEW n \in Nat, NEW ss \in [1..n -> Seq(X)]
  PROVE  /\ S!FlattenSeq(ss) \in Seq(X) /\ Held(S!FlattenSeq(ss)) = UNION {Held(ss[i]) : i \in 1..n}
         /\ (\A i \in 1..n : NothingTwice(ss[i])) /\ (\A i, j \in 1..n : i # j => Held(ss[i]) \cap Held(ss[j]) = {})
              => NothingTwice(S!FlattenSeq(ss))
<1>1. PICK f \in [0..n -> Seq(X)] : /\ f[0] = <<>> /\ \A i \in 1..n : f[i] = f[i - 1] \o ss[i]
                                    /\ S!FlattenSeq(ss) = f[n]
  BY FlattenSteps
<1> DEFINE W(k) == UNION {Held(ss[i]) : i \in 1..k}
           Apart == (\A i \in 1..n : NothingTwice(ss[i])) /\ (\A i, j \in 1..n : i # j => Held(ss[i]) \cap Held(ss[j]) = {})
           T == {k \in 0..n : Held(f[k]) = W(k) /\ (Apart => NothingTwice(f[k]))}
<1>2. 0 \in T
  <2>1. W(0) = {} /\ Held(f[0]) = {} /\ NothingTwice(f[0])
    BY <1>1 DEF Held, NothingTwice
  <2> QED
    BY <2>1
<1>3. ASSUME NEW k \in 1..n, k - 1 \in T PROVE k \in T
  <2>1. f[k - 1] \in Seq(X) /\ ss[k] \in Seq(X) /\ f[k] = f[k - 1] \o ss[k]
    <3>1. k - 1 \in 0..n
      OBVIOUS
    <3> HIDE DEF W, T, Apart
    <3> QED
      BY <1>1, <3>1
  <2>2. /\ Held(f[k]) = Held(f[k - 1]) \cup Held(ss[k])
        /\ NothingTwice(f[k - 1]) /\ NothingTwice(ss[k]) /\ Held(f[k - 1]) \cap Held(ss[k]) = {} => NothingTwice(f[k])
    BY <2>1, HeldByBoth
  <2>3. W(k) = W(k - 1) \cup Held(ss[k])
    <3>1. \A i \in 1..k : i = k \/ i \in 1..(k - 1)
      OBVIOUS
    <3>2. \A i \in 1..(k - 1) : i \in 1..k
      OBVIOUS
    <3>3. k \in 1..k
      OBVIOUS
    <3> QED
      BY <3>1, <3>2, <3>3
  <2>4. Apart => W(k - 1) \cap Held(ss[k]) = {}
    <3>1. \A i \in 1..(k - 1) : i \in 1..n /\ i # k
      OBVIOUS
    <3> QED
      BY <3>1
  <2>5. Apart => NothingTwice(ss[k])
    OBVIOUS
  <2>6. Held(f[k - 1]) = W(k - 1) /\ (Apart => NothingTwice(f[k - 1]))
    BY <1>3
  <2>7. Held(f[k]) = W(k) /\ (Apart => NothingTwice(f[k]))
    <3> HIDE DEF Apart, W
    <3> QED
      BY <2>2, <2>3, <2>4, <2>5, <2>6
  <2> HIDE DEF Apart, W
  <2> QED
    BY <2>7
<1>4. n \in T
  <2>1. n \in 0..n
    OBVIOUS
  <2> HIDE DEF T
  <2>2. \A k \in 0..n : k \in T
    BY <1>2, <1>3, CountingUp
  <2> QED
    BY <2>1, <2>2
<1>5. f[n] \in Seq(X)
  OBVIOUS
<1> QED
  BY <1>1, <1>4, <1>5

\* A list of lists, one after another, has all their members.
LEMMA FlattenKeeps ==
  ASSUME NEW X, NEW n \in Nat, NEW ss \in [1..n -> Seq(X)]
  PROVE  /\ S!FlattenSeq(ss) \in Seq(X)
         /\ \A i \in 1..n : \A k \in 1..Len(ss[i]) : S!Contains(S!FlattenSeq(ss), ss[i][k])
<1>1. S!FlattenSeq(ss) \in Seq(X) /\ Held(S!FlattenSeq(ss)) = UNION {Held(ss[i]) : i \in 1..n}
  BY FlattenHolds
<1>2. \A i \in 1..n : \A k \in 1..Len(ss[i]) : ss[i][k] \in Held(ss[i])
  BY DEF Held
<1>3. \A i \in 1..n : \A k \in 1..Len(ss[i]) : ss[i][k] \in Held(S!FlattenSeq(ss))
  BY <1>1, <1>2
<1>4. \A x \in Held(S!FlattenSeq(ss)) : S!Contains(S!FlattenSeq(ss), x)
  BY DEF Held, S!Contains
<1> QED
  BY <1>1, <1>3, <1>4

\* Once leaves nothing twice.
LEMMA OnceIsOnce ==
  ASSUME NEW X, NEW q \in Seq(X)
  PROVE  S!Once(q) \in Seq(X) /\ NothingTwice(S!Once(q))
<1> DEFINE n == Len(q)
           Singles == {t \in Seq(X) : NothingTwice(t)}
           More(t, x) == IF S!Contains(t, x) THEN t ELSE Append(t, x)
           step == [p \in Singles \X (1..n) |-> More(p[1], q[p[2]])]
           kept == CHOOSE kept : kept = [i \in 0..n |-> IF i = 0 THEN <<>> ELSE More(kept[i - 1], q[i])]
<1>1. n \in Nat /\ \A i \in 1..n : q[i] \in X
  OBVIOUS
<1>2. step \in [Singles \X (1..n) -> Singles]
  <2>1. ASSUME NEW t \in Singles, NEW x \in X, ~S!Contains(t, x) PROVE NothingTwice(Append(t, x))
    <3>1. /\ Len(t) \in Nat /\ Len(Append(t, x)) = Len(t) + 1
          /\ \A i \in 1..Len(t) : Append(t, x)[i] = t[i] /\ t[i] # x
          /\ Append(t, x)[Len(t) + 1] = x
      BY <2>1, AppendProperties DEF S!Contains
    <3> QED
      BY <3>1 DEF NothingTwice
  <2>2. ASSUME NEW t \in Singles, NEW x \in X PROVE More(t, x) \in Singles
    BY <2>1, <2>2
  <2> HIDE DEF Singles, More
  <2> QED
    BY <2>2, <1>1
<1>3. PICK f \in [0..n -> Singles] : Follows(f, <<>>, n, step) /\ Only(f, Singles, <<>>, n, step)
  <2>1. <<>> \in Singles
    BY DEF NothingTwice
  <2> HIDE DEF Singles, step, n
  <2> QED
    BY <1>1, <1>2, <2>1, StepByStep
<1>4. f[0] = <<>> /\ \A i \in 1..n : f[i] = More(f[i - 1], q[i])
  <2>1. ASSUME NEW i \in 1..n PROVE f[i - 1] \in Singles
    <3> HIDE DEF Singles
    <3> QED
      BY <1>1
  <2> HIDE DEF Singles, More
  <2> QED
    BY <1>3, <2>1 DEF Follows
<1>5. kept = [i \in 0..n |-> IF i = 0 THEN <<>> ELSE More(kept[i - 1], q[i])]
  <2>1. f = [i \in 0..n |-> IF i = 0 THEN <<>> ELSE More(f[i - 1], q[i])]
    <3> HIDE DEF Singles, More
    <3> QED
      BY <1>4
  <2> HIDE DEF Singles, More, step
  <2> QED
    BY <2>1
<1>6. kept[n] = f[n]
  <2>1. kept[0] = <<>> /\ \A i \in 1..n : kept[i] = More(kept[i - 1], q[i])
    <3>1. n \in Nat /\ \A i \in 1..n : i \in 0..n /\ i # 0
      OBVIOUS
    <3> HIDE DEF kept, n, More
    <3> QED
      BY <1>5, <3>1
  <2>2. \A i \in 1..n : kept[i - 1] \in Singles => kept[i] = step[<<kept[i - 1], i>>]
    <3> HIDE DEF kept, Singles, More
    <3> QED
      BY <2>1
  <2> HIDE DEF kept, step, Singles
  <2> QED
    BY <2>1, <2>2, <1>3, <1>1 DEF Only
<1>7. S!Once(q) = kept[n]
  BY DEF S!Once
<1>8. f[n] \in Singles
  <2> HIDE DEF Singles
  <2> QED
    BY <1>1
<1> QED
  BY <1>6, <1>7, <1>8

\* A finite set of numbers that has a member has a largest and a smallest.
LEMMA Extremes ==
  ASSUME NEW As \in SUBSET Int, IsFiniteSet(As), As # {}
  PROVE  /\ S!Max(As) \in As /\ \A x \in As : x <= S!Max(As)
         /\ S!Min(As) \in As /\ \A x \in As : S!Min(As) <= x
<1> DEFINE Ends(B) == (\E h \in B : \A x \in B : h >= x) /\ (\E l \in B : \A x \in B : l <= x)
           Sizes == {n \in Nat : \E B \in SUBSET Int : IsFiniteSet(B) /\ B # {} /\ Cardinality(B) = n /\ ~Ends(B)}
<1>1. Sizes = {}
  <2>1. SUFFICES ASSUME Sizes # {} PROVE FALSE
    OBVIOUS
  <2>2. PICK n \in Sizes : \A m \in Sizes : n <= m
    <3>1. Sizes \in SUBSET Nat
      OBVIOUS
    <3> HIDE DEF Sizes
    <3> QED
      BY <2>1, <3>1, Least
  <2>3. PICK B \in SUBSET Int : IsFiniteSet(B) /\ B # {} /\ Cardinality(B) = n /\ ~Ends(B)
    BY <2>2
  <2>4. PICK y \in B : TRUE
    BY <2>3
  <2> DEFINE Cs == B \ {y}
  <2>5. Cs \in SUBSET Int /\ IsFiniteSet(Cs) /\ Cardinality(Cs) = n - 1 /\ Cardinality(Cs) \in Nat
    BY <2>2, <2>3, <2>4, FS_RemoveElement, FS_CardinalityType
  <2>6. Cs # {}
    <3>1. ASSUME Cs = {} PROVE FALSE
      <4>1. B = {y} /\ y <= y /\ y >= y
        BY <3>1, <2>3, <2>4
      <4> QED
        BY <4>1, <2>3
    <3> QED
      BY <3>1
  <2>7. Ends(Cs)
    <3>1. n - 1 \in Nat /\ ~(n <= n - 1)
      BY <2>2, <2>5
    <3>2. n - 1 \notin Sizes
      <4> HIDE DEF Sizes
      <4> QED
        BY <2>2, <3>1
    <3> HIDE DEF Cs, Ends
    <3> QED
      BY <3>1, <3>2, <2>5, <2>6
  <2>8. PICK h \in Cs : \A x \in Cs : h >= x
    BY <2>7
  <2>9. PICK l \in Cs : \A x \in Cs : l <= x
    BY <2>7
  <2>10. \E k \in B : \A x \in B : k >= x
    <3>1. CASE y >= h
      <4>1. \A x \in B : y >= x
        BY <3>1, <2>3, <2>4, <2>8
      <4> QED
        BY <4>1, <2>4
    <3>2. CASE ~(y >= h)
      <4>1. \A x \in B : h >= x
        BY <3>2, <2>3, <2>4, <2>8
      <4> QED
        BY <4>1
    <3> QED
      BY <3>1, <3>2
  <2>11. \E k \in B : \A x \in B : k <= x
    <3>1. CASE y <= l
      <4>1. \A x \in B : y <= x
        BY <3>1, <2>3, <2>4, <2>9
      <4> QED
        BY <4>1, <2>4
    <3>2. CASE ~(y <= l)
      <4>1. \A x \in B : l <= x
        BY <3>2, <2>3, <2>4, <2>9
      <4> QED
        BY <4>1
    <3> QED
      BY <3>1, <3>2
  <2> QED
    BY <2>3, <2>10, <2>11
<1>2. Ends(As)
  <2>1. Cardinality(As) \in Nat /\ Cardinality(As) \notin Sizes
    <3> HIDE DEF Sizes
    <3> QED
      BY <1>1, FS_CardinalityType
  <2> HIDE DEF Ends
  <2> QED
    BY <2>1
<1>3. S!Max(As) \in As /\ \A x \in As : S!Max(As) >= x
  BY <1>2 DEF S!Max
<1>4. S!Min(As) \in As /\ \A x \in As : S!Min(As) <= x
  BY <1>2 DEF S!Min
<1> QED
  BY <1>3, <1>4

-----------------------------------------------------------------------------
\* The scorers count as the library does.
LEMMA SameCount == ASSUME NEW As PROVE S!Cardinality(As) = Cardinality(As)
  BY Zenon DEF S!Cardinality, Cardinality

\* Of the parts of an answer as many are right as there are only if all are.
LEMMA PartsRight ==
  ASSUME NEW Ds, IsFiniteSet(Ds), NEW parts \in [Ds -> BOOLEAN]
  PROVE  LET total == Cardinality(DOMAIN parts)
             hits == Cardinality({k \in DOMAIN parts : parts[k]})
         IN /\ total \in Nat /\ hits \in 0..total /\ (total = 0 <=> Ds = {})
            /\ hits = total <=> \A k \in Ds : parts[k]
<1> DEFINE Hits == {k \in Ds : parts[k]}
<1>1. DOMAIN parts = Ds /\ Hits \in SUBSET Ds
  OBVIOUS
<1>2. IsFiniteSet(Hits) /\ Cardinality(Hits) \in Nat /\ Cardinality(Ds) \in Nat /\ Cardinality(Hits) <= Cardinality(Ds)
      /\ (Cardinality(Ds) = Cardinality(Hits) => Ds = Hits) /\ (Cardinality(Ds) = 0 <=> Ds = {})
  <2> HIDE DEF Hits
  <2> QED
    BY <1>1, FS_Subset, FS_CardinalityType, FS_EmptySet
<1>3. Ds = Hits <=> \A k \in Ds : parts[k]
  OBVIOUS
<1> QED
  BY <1>1, <1>2, <1>3

\* A share of a whole mark is a whole mark only for all of the parts.
LEMMA WholeShare ==
  ASSUME NEW total \in Nat \ {0}, NEW hits \in 0..total
  PROVE  /\ (S!Whole * hits) \div total \in 0..S!Whole
         /\ (S!Whole * hits) \div total = S!Whole <=> hits = total
  BY DEF S!Whole

\* The mark of ExactMatchScorer from what is right of the parts.
LEMMA ExactMarks ==
  ASSUME NEW p, NEW response, NEW Ds, IsFiniteSet(Ds), S!Judged(p, response) \in [Ds -> BOOLEAN],
         p.form # "none", p.perItem \in BOOLEAN
  PROVE  LET mark == S!ExactMatch(p, response)
         IN /\ mark.correct \in 0..S!Whole /\ mark.errors = <<>>
            /\ mark.correct = S!Whole <=> Ds # {} /\ \A k \in Ds : S!Judged(p, response)[k]
<1> DEFINE parts == S!Judged(p, response)
           total == Cardinality(DOMAIN parts)
           hits == Cardinality({k \in DOMAIN parts : parts[k]})
           correct == IF total = 0 THEN 0 ELSE IF p.perItem THEN (S!Whole * hits) \div total
                      ELSE IF hits = total THEN S!Whole ELSE 0
<1>1. total \in Nat /\ hits \in 0..total /\ (total = 0 <=> Ds = {}) /\ (hits = total <=> \A k \in Ds : parts[k])
  <2> HIDE DEF parts
  <2>1. parts \in [Ds -> BOOLEAN]
    BY DEF parts
  <2> QED
    BY <2>1, PartsRight
<1>2. S!ExactMatch(p, response).correct = correct /\ S!ExactMatch(p, response).errors = <<>>
  <2>1. S!ExactMatch(p, response) = S!Mark(correct, <<>>, 10)
    BY SameCount, Zenon DEF S!ExactMatch
  <2> HIDE DEF correct
  <2> QED
    BY <2>1 DEF S!Mark
<1> HIDE DEF parts, total, hits
<1>3. CASE total = 0
  BY <1>1, <1>2, <1>3 DEF S!Whole, parts
<1>4. CASE total # 0 /\ p.perItem
  <2>1. total \in Nat \ {0} /\ hits \in 0..total
    BY <1>1, <1>4
  <2>2. correct \in 0..S!Whole /\ (correct = S!Whole <=> hits = total)
    BY <1>4, <2>1, WholeShare
  <2> HIDE DEF correct
  <2> QED
    BY <1>1, <1>2, <1>4, <2>2 DEF parts
<1>5. CASE total # 0 /\ ~p.perItem
  BY <1>1, <1>2, <1>5 DEF S!Whole, parts
<1> QED
  BY <1>3, <1>4, <1>5

(* The texts that are compared: those of a list or of a mapping, normal.   *)
Plain(texts, norm) == [i \in DOMAIN texts |-> S!Normal(texts[i], norm)]

\* What is right of a scalar, of an ordered answer, of a set and of a mapping.
LEMMA ScalarRight ==
  ASSUME NEW a, NEW r, NEW norm
  PROVE  /\ S!JudgeScalar(a, r, norm) \in [{"answer"} -> BOOLEAN]
         /\ S!JudgeScalar(a, r, norm)["answer"] <=> r # NONE /\ S!Normal(r, norm) = S!Normal(a, norm)
  BY DEF S!JudgeScalar, S!SameText

LEMMA OrderedRight ==
  ASSUME NEW a \in Seq(Worded), NEW r \in Seq(Worded), NEW norm
  PROVE  \E Ds : /\ IsFiniteSet(Ds) /\ S!JudgeOrdered(a, r, norm) \in [Ds -> BOOLEAN]
                 /\ Ds # {} /\ (\A k \in Ds : S!JudgeOrdered(a, r, norm)[k])
                      <=> a # <<>> /\ Plain(r, norm) = Plain(a, norm)
<1> DEFINE m == Len(a)
           n == Len(r)
           Ds == 1..(m + (IF n > m THEN 1 ELSE 0))
           plainA == [i \in DOMAIN a |-> S!Normal(a[i], norm)]
           plainR == [i \in DOMAIN r |-> S!Normal(r[i], norm)]
           Right(i) == i <= m /\ i <= n /\ S!Normal(r[i], norm) = S!Normal(a[i], norm)
<1>1. m \in Nat /\ n \in Nat /\ DOMAIN a = 1..m /\ DOMAIN r = 1..n /\ (a = <<>> <=> m = 0)
  BY EmptySeq
<1>2. S!JudgeOrdered(a, r, norm) = [i \in Ds |-> Right(i)]
  BY DEF S!JudgeOrdered, S!SameText
<1>3. IsFiniteSet(Ds)
  <2>1. m + (IF n > m THEN 1 ELSE 0) \in Int /\ 1 \in Int
    BY <1>1
  <2> QED
    BY <2>1, FS_Interval
<1>4. ASSUME Ds # {}, \A k \in Ds : Right(k) PROVE m # 0 /\ plainR = plainA
  <2> HIDE DEF m, n
  <2>1. ~(n > m)
    <3>1. ASSUME n > m PROVE FALSE
      <4>1. m + 1 \in Ds /\ ~(m + 1 <= m)
        BY <1>1, <3>1
      <4> QED
        BY <4>1, <1>4
    <3> QED
      BY <3>1
  <2>2. Ds = 1..m /\ m # 0
    BY <1>1, <1>4, <2>1
  <2>3. m \in Ds /\ m <= n
    BY <1>1, <1>4, <2>2
  <2>4. m = n
    BY <1>1, <2>1, <2>3
  <2> QED
    BY <1>1, <1>4, <2>2, <2>4
<1>5. ASSUME m # 0, plainR = plainA PROVE Ds # {} /\ \A k \in Ds : Right(k)
  <2> HIDE DEF m, n
  <2>1. DOMAIN plainR = DOMAIN plainA
    BY <1>5
  <2>2. 1..n = 1..m
    BY <1>1, <2>1
  <2>3. m = n
    <3>1. m \in 1..m /\ (n \in 1..n \/ n = 0)
      BY <1>1, <1>5
    <3> QED
      BY <1>1, <2>2, <3>1
  <2>4. Ds = 1..m
    BY <1>1, <2>3
  <2>5. ASSUME NEW k \in Ds PROVE Right(k)
    <3>1. k \in DOMAIN a /\ k \in DOMAIN r /\ k <= m /\ k <= n
      BY <1>1, <2>2, <2>3, <2>4
    <3>2. plainR[k] = plainA[k]
      BY <1>5
    <3> QED
      BY <3>1, <3>2
  <2>6. 1 \in Ds
    <3> HIDE DEF Ds
    <3> QED
      BY <1>1, <1>5, <2>4
  <2> QED
    BY <2>5, <2>6
<1>6. \A k \in Ds : Right(k) \in BOOLEAN
  OBVIOUS
<1> HIDE DEF Ds, Right, plainA, plainR
<1>7. S!JudgeOrdered(a, r, norm) \in [Ds -> BOOLEAN] /\ \A k \in Ds : S!JudgeOrdered(a, r, norm)[k] = Right(k)
  BY <1>2, <1>6
<1>8. Ds # {} /\ (\A k \in Ds : S!JudgeOrdered(a, r, norm)[k]) <=> a # <<>> /\ plainR = plainA
  BY <1>1, <1>4, <1>5, <1>7
<1> QED
  BY <1>3, <1>7, <1>8 DEF Plain, plainA, plainR

LEMMA SetRight ==
  ASSUME NEW a \in Seq(Worded), NEW r \in Seq(Worded), NEW norm
  PROVE  \E Ds : /\ IsFiniteSet(Ds) /\ S!JudgeSet(a, r, norm) \in [Ds -> BOOLEAN]
                 /\ Ds # {} /\ (\A k \in Ds : S!JudgeSet(a, r, norm)[k])
                      <=> a # <<>> /\ S!Range(Plain(r, norm)) = S!Range(Plain(a, norm))
<1> DEFINE m == Len(a)
           n == Len(r)
           plainA == [i \in DOMAIN a |-> S!Normal(a[i], norm)]
           plainR == [i \in DOMAIN r |-> S!Normal(r[i], norm)]
           extra == S!Range(plainR) \ S!Range(plainA)
           Ds == 1..(m + Cardinality(extra))
           Right(i) == i <= m /\ S!Normal(a[i], norm) \in S!Range(plainR)
<1>1. m \in Nat /\ n \in Nat /\ DOMAIN a = 1..m /\ DOMAIN r = 1..n /\ (a = <<>> <=> m = 0)
  BY EmptySeq
<1>2. /\ S!Range(plainR) = {S!Normal(t, norm) : t \in S!Range(r)}
      /\ S!Range(plainA) = {S!Normal(t, norm) : t \in S!Range(a)}
  BY DEF S!Range
<1>3. S!JudgeSet(a, r, norm) = [i \in Ds |-> Right(i)]
  BY <1>2, SameCount DEF S!JudgeSet
<1>4. IsFiniteSet(extra)
  <2>1. IsFiniteSet(1..n)
    BY <1>1, FS_Interval
  <2>2. plainR \in Surjection(1..n, S!Range(plainR))
    <3>1. DOMAIN plainR = 1..n /\ \A i \in 1..n : plainR[i] \in S!Range(plainR)
      BY <1>1 DEF S!Range
    <3>2. \A y \in S!Range(plainR) : \E i \in 1..n : plainR[i] = y
      BY <1>1 DEF S!Range
    <3>3. plainR \in [1..n -> S!Range(plainR)]
      BY <1>1, <3>1
    <3> QED
      BY <3>2, <3>3 DEF Surjection
  <2>3. IsFiniteSet(S!Range(plainR))
    <3> HIDE DEF plainR
    <3> QED
      BY <2>1, <2>2, FS_Surjection
  <2>4. extra \in SUBSET S!Range(plainR)
    OBVIOUS
  <2> HIDE DEF extra, plainR
  <2> QED
    BY <2>3, <2>4, FS_Subset
<1>5. Cardinality(extra) \in Nat /\ (Cardinality(extra) = 0 <=> extra = {})
  <2> HIDE DEF extra
  <2> QED
    BY <1>4, FS_CardinalityType, FS_EmptySet
<1>6. IsFiniteSet(Ds)
  <2>1. m + Cardinality(extra) \in Int /\ 1 \in Int
    BY <1>1, <1>5
  <2> HIDE DEF extra, m
  <2> QED
    BY <2>1, FS_Interval
<1>7. ASSUME Ds # {}, \A k \in Ds : Right(k) PROVE m # 0 /\ S!Range(plainR) = S!Range(plainA)
  <2>1. extra = {}
    <3>1. ASSUME Cardinality(extra) # 0 PROVE FALSE
      <4>1. m + 1 \in Ds /\ ~(m + 1 <= m)
        <5> HIDE DEF m, extra
        <5> QED
          BY <1>1, <1>5, <3>1
      <4> QED
        BY <4>1, <1>7
    <3> QED
      BY <3>1, <1>5
  <2>2. Ds = 1..m
    <3> HIDE DEF m, extra
    <3> QED
      BY <1>1, <1>5, <2>1
  <2>3. \A i \in 1..m : S!Normal(a[i], norm) \in S!Range(plainR)
    BY <1>7, <2>2
  <2>4. S!Range(plainA) \subseteq S!Range(plainR)
    <3>1. \A y \in S!Range(plainA) : \E i \in 1..m : y = S!Normal(a[i], norm)
      BY <1>1 DEF S!Range
    <3> HIDE DEF plainA, plainR
    <3> QED
      BY <2>3, <3>1
  <2>5. m # 0
    <3> HIDE DEF m, extra, plainA, plainR
    <3> QED
      BY <1>1, <1>7, <2>2
  <2> QED
    BY <2>1, <2>4, <2>5
<1>8. ASSUME m # 0, S!Range(plainR) = S!Range(plainA) PROVE Ds # {} /\ \A k \in Ds : Right(k)
  <2>1. Cardinality(extra) = 0
    BY <1>5, <1>8
  <2>2. Ds = 1..m /\ 1 \in 1..m
    <3> HIDE DEF m, extra
    <3> QED
      BY <1>1, <1>8, <2>1
  <2>3. \A i \in 1..m : S!Normal(a[i], norm) \in S!Range(plainA)
    <3>1. \A i \in 1..m : S!Normal(a[i], norm) = plainA[i]
      BY <1>1
    <3> QED
      BY <1>1, <3>1 DEF S!Range
  <2>4. ASSUME NEW k \in 1..m PROVE Right(k)
    <3>1. k <= m
      BY <1>1
    <3>2. S!Normal(a[k], norm) \in S!Range(plainR)
      <4> HIDE DEF plainA, plainR
      <4> QED
        BY <1>8, <2>3
    <3> QED
      BY <3>1, <3>2
  <2> HIDE DEF Right, Ds
  <2> QED
    BY <2>2, <2>4
<1>9. \A k \in Ds : Right(k) \in BOOLEAN
  OBVIOUS
<1> HIDE DEF Ds, Right, plainA, plainR, extra
<1>10. S!JudgeSet(a, r, norm) \in [Ds -> BOOLEAN] /\ \A k \in Ds : S!JudgeSet(a, r, norm)[k] = Right(k)
  BY <1>3, <1>9
<1>11. Ds # {} /\ (\A k \in Ds : S!JudgeSet(a, r, norm)[k]) <=> a # <<>> /\ S!Range(plainR) = S!Range(plainA)
  BY <1>1, <1>7, <1>8, <1>10
<1> QED
  BY <1>6, <1>10, <1>11 DEF Plain, plainA, plainR

LEMMA MappingRight ==
  ASSUME NEW a, NEW r, NEW norm
  PROVE  /\ S!JudgeMapping(a, r, norm) \in [DOMAIN a -> BOOLEAN]
         /\ (\A k \in DOMAIN a : S!JudgeMapping(a, r, norm)[k])
              <=> DOMAIN a \subseteq DOMAIN r
                  /\ \A k \in DOMAIN a : Plain(r, norm)[k] = Plain(a, norm)[k]
  BY DEF S!JudgeMapping, S!SameText, Plain

\* ExactMatchScorer gives the full mark to the answer and to nothing else.
LEMMA ExactAnswers ==
  ASSUME NEW p, NEW response, ExactFits(p.form, p.answer, response), p.perItem \in BOOLEAN
  PROVE  LET mark == S!ExactMatch(p, response)
         IN /\ mark.correct \in 0..S!Whole /\ mark.errors = <<>>
            /\ S!ExactlyTheAnswer(p, response, mark)
<1> DEFINE mark == S!ExactMatch(p, response)
           judged == S!Judged(p, response)
           plainA == Plain(p.answer, p.norm)
           plainR == Plain(response, p.norm)
<1>1. ASSUME NEW Ds, IsFiniteSet(Ds), judged \in [Ds -> BOOLEAN], p.form # "none"
      PROVE  /\ mark.correct \in 0..S!Whole /\ mark.errors = <<>>
             /\ mark.correct = S!Whole <=> Ds # {} /\ \A k \in Ds : judged[k]
  BY <1>1, ExactMarks
<1>2. CASE p.form = "none"
  <2>1. mark = [correct |-> 0, errors |-> <<>>, confidence |-> 0]
    BY <1>2 DEF S!ExactMatch, S!Unscored, S!Mark
  <2> HIDE DEF mark
  <2>2. mark.correct = 0 /\ mark.errors = <<>>
    BY <2>1
  <2> QED
    BY <1>2, <2>2 DEF S!ExactlyTheAnswer, S!Whole, mark
<1>3. CASE p.form = "scalar"
  <2>1. judged = S!JudgeScalar(p.answer, response, p.norm)
    BY <1>3 DEF S!Judged
  <2>2. IsFiniteSet({"answer"})
    BY FS_Singleton
  <2>3. /\ mark.correct \in 0..S!Whole /\ mark.errors = <<>>
        /\ mark.correct = S!Whole <=> response # NONE /\ S!Normal(response, p.norm) = S!Normal(p.answer, p.norm)
    <3> HIDE DEF mark, judged
    <3>1. judged \in [{"answer"} -> BOOLEAN]
      BY <2>1, ScalarRight
    <3>2. judged["answer"] <=> response # NONE /\ S!Normal(response, p.norm) = S!Normal(p.answer, p.norm)
      BY <2>1, ScalarRight
    <3>3. p.form # "none"
      BY <1>3
    <3> QED
      BY <3>1, <3>2, <3>3, <2>2, <1>1
  <2> HIDE DEF mark
  <2>4. S!ExactlyTheAnswer(p, response, mark)
    BY <1>3, <2>3 DEF S!ExactlyTheAnswer
  <2> QED
    BY <2>3, <2>4 DEF mark
<1>4. CASE p.form = "ordered"
  <2>1. judged = S!JudgeOrdered(p.answer, response, p.norm)
    BY <1>4 DEF S!Judged
  <2>2. p.answer \in Seq(Worded) /\ response \in Seq(Worded) /\ p.form # "none"
    BY <1>4 DEF ExactFits
  <2>3. PICK Ds : /\ IsFiniteSet(Ds) /\ judged \in [Ds -> BOOLEAN]
                  /\ Ds # {} /\ (\A k \in Ds : judged[k]) <=> p.answer # <<>> /\ plainR = plainA
    <3> HIDE DEF judged
    <3> QED
      BY <2>1, <2>2, OrderedRight
  <2> HIDE DEF mark, judged, plainA, plainR
  <2>4. /\ mark.correct \in 0..S!Whole /\ mark.errors = <<>>
        /\ mark.correct = S!Whole <=> p.answer # <<>> /\ plainR = plainA
    <3>1. /\ mark.correct \in 0..S!Whole /\ mark.errors = <<>>
          /\ mark.correct = S!Whole <=> Ds # {} /\ \A k \in Ds : judged[k]
      BY <2>2, <2>3, <1>1
    <3>2. (Ds # {} /\ \A k \in Ds : judged[k]) <=> p.answer # <<>> /\ plainR = plainA
      BY <2>3
    <3> QED
      BY <3>1, <3>2
  <2>5. S!ExactlyTheAnswer(p, response, mark)
    BY <1>4, <2>4 DEF S!ExactlyTheAnswer, Plain, plainA, plainR
  <2> QED
    BY <2>4, <2>5 DEF mark
<1>5. CASE p.form = "set"
  <2>1. judged = S!JudgeSet(p.answer, response, p.norm)
    BY <1>5 DEF S!Judged
  <2>2. p.answer \in Seq(Worded) /\ response \in Seq(Worded) /\ p.form # "none"
    BY <1>5 DEF ExactFits
  <2>3. PICK Ds : /\ IsFiniteSet(Ds) /\ judged \in [Ds -> BOOLEAN]
                  /\ Ds # {} /\ (\A k \in Ds : judged[k]) <=> p.answer # <<>> /\ S!Range(plainR) = S!Range(plainA)
    <3> HIDE DEF judged
    <3> QED
      BY <2>1, <2>2, SetRight
  <2> HIDE DEF mark, judged, plainA, plainR
  <2>4. /\ mark.correct \in 0..S!Whole /\ mark.errors = <<>>
        /\ mark.correct = S!Whole <=> p.answer # <<>> /\ S!Range(plainR) = S!Range(plainA)
    <3>1. /\ mark.correct \in 0..S!Whole /\ mark.errors = <<>>
          /\ mark.correct = S!Whole <=> Ds # {} /\ \A k \in Ds : judged[k]
      BY <2>2, <2>3, <1>1
    <3>2. (Ds # {} /\ \A k \in Ds : judged[k]) <=> p.answer # <<>> /\ S!Range(plainR) = S!Range(plainA)
      BY <2>3
    <3> QED
      BY <3>1, <3>2
  <2>5. S!ExactlyTheAnswer(p, response, mark)
    BY <1>5, <2>4 DEF S!ExactlyTheAnswer, Plain, plainA, plainR
  <2> QED
    BY <2>4, <2>5 DEF mark
<1>6. CASE p.form = "mapping"
  <2>1. judged = S!JudgeMapping(p.answer, response, p.norm)
    BY <1>6 DEF S!Judged
  <2>2. IsFiniteSet(DOMAIN p.answer) /\ p.form # "none"
    BY <1>6 DEF ExactFits
  <2>3. /\ judged \in [DOMAIN p.answer -> BOOLEAN]
        /\ (\A k \in DOMAIN p.answer : judged[k])
             <=> DOMAIN p.answer \subseteq DOMAIN response /\ \A k \in DOMAIN p.answer : plainR[k] = plainA[k]
    <3> HIDE DEF judged
    <3> QED
      BY <2>1, MappingRight
  <2> HIDE DEF mark, judged, plainA, plainR
  <2>4. /\ mark.correct \in 0..S!Whole /\ mark.errors = <<>>
        /\ mark.correct = S!Whole <=> DOMAIN p.answer # {} /\ \A k \in DOMAIN p.answer : judged[k]
    BY <2>2, <2>3, <1>1
  <2>5. S!ExactlyTheAnswer(p, response, mark)
    BY <1>6, <2>3, <2>4 DEF S!ExactlyTheAnswer, Plain, plainA, plainR
  <2> QED
    BY <2>4, <2>5 DEF mark
<1> QED
  BY <1>2, <1>3, <1>4, <1>5, <1>6 DEF ExactFits

-----------------------------------------------------------------------------
(* A mark that a step can have.                                            *)
MarkFits(mark) == mark.correct \in 0..S!Whole /\ Listed(mark.errors)

\* The scorers of a step give a mark between nothing and the whole and a list
\* of errors; the model gives nothing.
LEMMA KeypointMarks ==
  ASSUME NEW p, NEW texts, Listed(p.keypoints)
  PROVE  MarkFits(S!KeypointHit(p, texts))
<1> DEFINE points == p.keypoints
           Hit(kp) == \E pattern \in kp.patterns : S!Found(pattern, texts, p.norm)
           Missed(kp) == IF ~Hit(kp) /\ kp.error # NONE THEN <<<<kp.error, kp.id>>>> ELSE <<>>
           total == S!Total([i \in DOMAIN points |-> IF Hit(points[i]) THEN points[i].score ELSE 0])
           pass == IF p.minPass = NONE THEN \A i \in DOMAIN points : Hit(points[i]) ELSE total >= p.minPass
           missed == [i \in DOMAIN points |-> Missed(points[i])]
<1>1. CASE points = <<>>
  <2>1. S!KeypointHit(p, texts) = [correct |-> 0, errors |-> <<>>, confidence |-> 0]
    BY <1>1 DEF S!KeypointHit, S!Unscored, S!Mark
  <2>2. S!KeypointHit(p, texts).correct = 0 /\ S!KeypointHit(p, texts).errors = <<>>
    BY <2>1
  <2> QED
    BY <2>2 DEF MarkFits, Listed, S!Whole
<1>2. CASE points # <<>>
  <2>1. S!KeypointHit(p, texts) = S!Mark(IF pass THEN S!Whole ELSE 0, S!FlattenSeq(missed), 10)
    BY <1>2, Zenon DEF S!KeypointHit
  <2> DEFINE X == {<<points[i].error, points[i].id>> : i \in DOMAIN points}
             n == Len(points)
  <2>2. n \in Nat /\ DOMAIN points = 1..n
    BY DEF Listed
  <2>3. missed \in [1..n -> Seq(X)]
    <3>1. ASSUME NEW i \in 1..n PROVE Missed(points[i]) \in Seq(X)
      <4>1. <<points[i].error, points[i].id>> \in X
        BY <2>2
      <4>2. <<<<points[i].error, points[i].id>>>> \in Seq(X) /\ <<>> \in Seq(X)
        <5> HIDE DEF X
        <5> QED
          BY <4>1
      <4> HIDE DEF X, Hit
      <4> QED
        BY <4>2
    <3> HIDE DEF X, Missed
    <3> QED
      BY <2>2, <3>1
  <2>4. S!FlattenSeq(missed) \in Seq(X)
    <3> HIDE DEF missed, X
    <3> QED
      BY <2>2, <2>3, FlattenKeeps
  <2> HIDE DEF missed, X, pass, n
  <2>5. /\ S!KeypointHit(p, texts).correct = IF pass THEN S!Whole ELSE 0
        /\ S!KeypointHit(p, texts).errors = S!FlattenSeq(missed)
    BY <2>1 DEF S!Mark
  <2>6. Listed(S!FlattenSeq(missed))
    BY <2>4, LenProperties DEF Listed
  <2> QED
    BY <2>5, <2>6 DEF MarkFits, S!Whole
<1> QED
  BY <1>1, <1>2

LEMMA ModelMarks ==
  ASSUME NEW p, NEW reply
  PROVE  MarkFits(S!AIRubric(p, reply)) /\ S!AIRubric(p, reply).correct = 0
<1> DEFINE s == S!AIScore(p.rubric, reply)
           errors == IF s.review THEN <<"low_confidence_needs_human_review">> ELSE <<>>
<1>1. CASE p.rubric = <<>>
  <2>1. S!AIRubric(p, reply) = [correct |-> 0, errors |-> <<>>, confidence |-> 0]
    BY <1>1 DEF S!AIRubric, S!Unscored, S!Mark
  <2>2. S!AIRubric(p, reply).correct = 0 /\ S!AIRubric(p, reply).errors = <<>>
    BY <2>1
  <2> QED
    BY <2>2 DEF MarkFits, Listed, S!Whole
<1>2. CASE p.rubric # <<>>
  <2>1. S!AIRubric(p, reply) = S!Mark(0, errors, s.confidence)
    BY <1>2, Zenon DEF S!AIRubric
  <2>2. Listed(errors)
    <3>1. Listed(<<"low_confidence_needs_human_review">>) /\ Listed(<<>>)
      BY DEF Listed
    <3> HIDE DEF s
    <3> QED
      BY <3>1
  <2> HIDE DEF s, errors
  <2>3. S!AIRubric(p, reply).correct = 0 /\ S!AIRubric(p, reply).errors = errors
    BY <2>1 DEF S!Mark
  <2> QED
    BY <2>2, <2>3 DEF MarkFits, S!Whole
<1> QED
  BY <1>1, <1>2

\* What an error of a quantity is called.
LEMMA QuantityErrors ==
  ASSUME NEW compared, NEW actual, NEW expected
  PROVE  S!ErrorType(compared, actual, expected)
           \in {<<>>, <<"wrong_unit">>, <<"off_by_one">>, <<"value_mismatch">>}
  BY DEF S!ErrorType

LEMMA QuantityMarks ==
  ASSUME NEW p, NEW response, MathFits(p, response)
  PROVE  MarkFits(S!MathScore(p, response))
<1> DEFINE mark == S!MathScore(p, response)
           q == response.q
           converted == S!Converted(q, p.answer, S!Rules(p))
           compared == IF converted = NONE THEN q ELSE converted
           equal == \/ S!Equal(compared, p.answer)
                    \/ "decimal_tolerance" \in S!Rules(p) /\ p.tolerance[1] > 0 /\ S!Within(compared, p.answer, p.tolerance)
           errors == S!ErrorType(compared, q, p.answer)
<1>1. \/ mark = S!Unscored \/ mark = S!Mark(0, <<"empty_response">>, 10) \/ mark = S!Mark(0, <<"invalid_response">>, 10)
      \/ mark = S!Mark(S!Whole, <<>>, 10) \/ mark = S!Mark(0, errors, 10)
  <2> HIDE DEF errors
  <2>1. CASE p.kind # "quantity" \/ response.kind # "quantity"
    <3>1. /\ response.kind \in {"empty", "unreadable", "blanks", "quantity"}
          /\ p.kind \in {"missing", "unreadable", "quantity"}
      BY DEF MathFits
    <3>2. mark = S!Unscored \/ mark = S!Mark(0, <<"empty_response">>, 10) \/ mark = S!Mark(0, <<"invalid_response">>, 10)
      BY <2>1, <3>1 DEF S!MathScore
    <3> HIDE DEF mark
    <3> QED
      BY <3>2
  <2>2. CASE p.kind = "quantity" /\ response.kind = "quantity"
    <3>1. mark = IF equal /\ converted # NONE THEN S!Mark(S!Whole, <<>>, 10) ELSE S!Mark(0, errors, 10)
      BY <2>2 DEF S!MathScore, errors
    <3> HIDE DEF mark, equal, converted
    <3> QED
      BY <3>1
  <2> QED
    BY <2>1, <2>2
<1>2. errors \in {<<>>, <<"wrong_unit">>, <<"off_by_one">>, <<"value_mismatch">>}
  <2> HIDE DEF compared, q
  <2> QED
    BY QuantityErrors
<1> HIDE DEF mark, errors
<1>3. /\ mark.correct = 0 \/ mark.correct = S!Whole
      /\ mark.errors \in {<<>>, <<"empty_response">>, <<"invalid_response">>, <<"wrong_unit">>, <<"off_by_one">>, <<"value_mismatch">>}
  BY <1>1, <1>2 DEF S!Mark, S!Unscored
<1>4. Listed(mark.errors)
  BY <1>3 DEF Listed
<1> QED
  BY <1>3, <1>4 DEF MarkFits, S!Whole, mark

LEMMA StepMarks ==
  ASSUME NEW step, NEW response, StepFits(step, response)
  PROVE  /\ MarkFits(S!SubMark(step, response))
         /\ step.scorer = "ai_rubric" => S!SubMark(step, response).correct = 0
<1>1. CASE step.scorer = "exact_match"
  <2>1. S!SubMark(step, response) = S!ExactMatch(step.params, response)
    BY <1>1 DEF S!SubMark
  <2>2. S!ExactMatch(step.params, response).correct \in 0..S!Whole /\ S!ExactMatch(step.params, response).errors = <<>>
    BY <1>1, ExactAnswers DEF StepFits
  <2> QED
    BY <1>1, <2>1, <2>2 DEF MarkFits, Listed
<1>2. CASE step.scorer = "keypoint_hit"
  <2>1. S!SubMark(step, response) = S!KeypointHit(step.params, response)
    BY <1>2 DEF S!SubMark
  <2>2. Listed(step.params.keypoints)
    BY <1>2 DEF StepFits
  <2> QED
    BY <1>2, <2>1, <2>2, KeypointMarks
<1>3. CASE step.scorer = "ai_rubric"
  <2>1. S!SubMark(step, response) = S!AIRubric(step.params, response)
    BY <1>3 DEF S!SubMark
  <2> QED
    BY <2>1, ModelMarks
<1>4. CASE step.scorer = "math_equivalence"
  <2>1. S!SubMark(step, response) = S!MathScore(step.params, response)
    BY <1>4 DEF S!SubMark
  <2>2. MathFits(step.params, response)
    BY <1>4 DEF StepFits
  <2> QED
    BY <1>4, <2>1, <2>2, QuantityMarks
<1> QED
  BY <1>1, <1>2, <1>3, <1>4 DEF StepFits

(* The mark of a step, of one without an answer too.                       *)
StepMark(steps, given, i) ==
  IF steps[i].id \in DOMAIN given THEN S!SubMark(steps[i], given[steps[i].id]) ELSE S!Mark(0, <<"missing_step">>, 10)
StepErrors(steps, given) ==
  [i \in DOMAIN steps |-> [k \in DOMAIN StepMark(steps, given, i).errors |-> <<StepMark(steps, given, i).errors[k], steps[i].id>>]]

\* The points of a step are at most a whole mark of its most, and as many
\* only for a whole mark or a step that carries none.
LEMMA PointsOfAStep ==
  ASSUME NEW c \in 0..S!Whole, NEW m \in Nat
  PROVE  /\ c * m \in Nat /\ c * m <= S!Whole * m
         /\ c * m = S!Whole * m <=> c = S!Whole \/ m = 0
<1>1. c \in {0, 1, 2, 3, 4, 5, 6, 7, 8, 9, 10, 11, 12}
  BY DEF S!Whole
<1> QED
  BY <1>1 DEF S!Whole

\* The share of the points is a whole mark only if all points are made.
LEMMA ShareOfPoints ==
  ASSUME NEW most \in Nat \ {0}, NEW points \in Nat, points <= S!Whole * most
  PROVE  points \div most = S!Whole <=> points = S!Whole * most
  BY DEF S!Whole

\* The full mark of a stepwise item needs every step that carries points and
\* is given for them; a step without an answer is named.
LEMMA StepwiseCounts ==
  ASSUME NEW steps, NEW given, Listed(steps),
         \A i \in DOMAIN steps : /\ steps[i].max \in Nat
                                 /\ steps[i].id \in DOMAIN given => StepFits(steps[i], given[steps[i].id])
  PROVE  S!StepsCount(steps, given, S!Stepwise(steps, given))
<1> DEFINE n == Len(steps)
           mark == S!Stepwise(steps, given)
           sub(i) == StepMark(steps, given, i)
           maxima == [i \in DOMAIN steps |-> steps[i].max]
           scores == [i \in DOMAIN steps |-> sub(i).correct * steps[i].max]
           wholes == [i \in DOMAIN steps |-> S!Whole * steps[i].max]
           most == S!Total(maxima)
           points == S!Total(scores)
           errors == StepErrors(steps, given)
           carrying == {i \in DOMAIN steps : steps[i].max > 0}
           answered == {i \in DOMAIN steps : steps[i].id \in DOMAIN given}
<1>1. n \in Nat /\ DOMAIN steps = 1..n
  BY DEF Listed
<1>2. ASSUME NEW i \in 1..n
      PROVE  /\ MarkFits(sub(i)) /\ (sub(i).correct = S!Whole => i \in answered)
             /\ i \in answered => sub(i) = S!SubMark(steps[i], given[steps[i].id])
             /\ i \notin answered => sub(i).errors = <<"missing_step">>
  <2>1. i \in DOMAIN steps
    BY <1>1
  <2>2. CASE i \in answered
    <3>1. sub(i) = S!SubMark(steps[i], given[steps[i].id])
      BY <2>2 DEF StepMark
    <3>2. MarkFits(S!SubMark(steps[i], given[steps[i].id]))
      BY <2>2, StepMarks
    <3> HIDE DEF sub
    <3> QED
      BY <2>2, <3>1, <3>2
  <2>3. CASE i \notin answered
    <3>1. sub(i) = [correct |-> 0, errors |-> <<"missing_step">>, confidence |-> 10]
      BY <2>1, <2>3 DEF StepMark, S!Mark
    <3>2. sub(i).correct = 0 /\ sub(i).errors = <<"missing_step">>
      <4> HIDE DEF sub
      <4> QED
        BY <3>1
    <3>3. Listed(<<"missing_step">>)
      BY DEF Listed
    <3> HIDE DEF sub, answered
    <3> QED
      BY <2>3, <3>2, <3>3 DEF MarkFits, S!Whole
  <2> QED
    BY <2>2, <2>3
<1>3. ASSUME NEW i \in 1..n
      PROVE  /\ maxima[i] = steps[i].max /\ maxima[i] \in Nat
             /\ scores[i] = sub(i).correct * steps[i].max /\ scores[i] \in Nat
             /\ wholes[i] = S!Whole * maxima[i] /\ wholes[i] \in Nat
             /\ scores[i] <= wholes[i] /\ (scores[i] = wholes[i] <=> sub(i).correct = S!Whole \/ maxima[i] = 0)
  <2>1. i \in DOMAIN steps /\ steps[i].max \in Nat
    BY <1>1
  <2>2. maxima[i] = steps[i].max /\ scores[i] = sub(i).correct * steps[i].max /\ wholes[i] = S!Whole * steps[i].max
    <3> HIDE DEF sub
    <3> QED
      BY <2>1
  <2>3. sub(i).correct \in 0..S!Whole
    <3> HIDE DEF sub, answered
    <3> QED
      BY <1>2 DEF MarkFits
  <2>4. S!Whole * steps[i].max \in Nat
    BY <2>1 DEF S!Whole
  <2> DEFINE c == sub(i).correct
             m == steps[i].max
  <2>5. c \in 0..S!Whole /\ m \in Nat
    BY <2>1, <2>3
  <2> HIDE DEF c, m
  <2>6. c * m \in Nat /\ c * m <= S!Whole * m /\ (c * m = S!Whole * m <=> c = S!Whole \/ m = 0)
    BY <2>5, PointsOfAStep
  <2>7. maxima[i] = m /\ scores[i] = c * m /\ wholes[i] = S!Whole * m /\ S!Whole * m \in Nat
    BY <2>2, <2>4 DEF c, m
  <2>8. scores[i] <= wholes[i] /\ (scores[i] = wholes[i] <=> c = S!Whole \/ maxima[i] = 0)
    BY <2>6, <2>7, Zenon
  <2>9. maxima[i] \in Nat /\ scores[i] \in Nat /\ wholes[i] \in Nat /\ wholes[i] = S!Whole * maxima[i]
    BY <2>5, <2>6, <2>7, Zenon
  <2> QED
    BY <2>2, <2>8, <2>9, Zenon DEF c
<1>4. maxima \in [1..n -> Int] /\ scores \in [1..n -> Int] /\ wholes \in [1..n -> Int]
  <2>1. DOMAIN maxima = 1..n /\ DOMAIN scores = 1..n /\ DOMAIN wholes = 1..n
    BY <1>1
  <2>2. maxima = [i \in 1..n |-> maxima[i]] /\ scores = [i \in 1..n |-> scores[i]] /\ wholes = [i \in 1..n |-> wholes[i]]
    <3> HIDE DEF sub
    <3> QED
      BY <1>1
  <2> HIDE DEF maxima, scores, wholes, sub, n
  <2> QED
    BY <1>3, <2>2
<1>5. /\ most \in Nat /\ points \in Nat /\ points <= S!Whole * most
      /\ points = S!Whole * most <=> \A i \in 1..n : scores[i] = wholes[i]
      /\ most = 0 <=> \A i \in 1..n : maxima[i] = 0
  <2> HIDE DEF maxima, scores, wholes, sub, n
  <2>1. most \in Nat /\ (most = 0 <=> \A i \in 1..n : maxima[i] = 0)
    <3>1. \A i \in 1..n : maxima[i] >= 0
      BY <1>3
    <3> QED
      BY <1>1, <1>4, <3>1, TotalIsNothing
  <2>2. points \in Nat
    <3>1. \A i \in 1..n : scores[i] >= 0
      BY <1>3
    <3> QED
      BY <1>1, <1>4, <3>1, TotalIsNothing
  <2>3. S!Total(wholes) = S!Whole * most
    BY <1>1, <1>3, <1>4, TotalOfWholes
  <2>4. points <= S!Total(wholes) /\ (points = S!Total(wholes) => \A i \in 1..n : scores[i] = wholes[i])
    BY <1>1, <1>3, <1>4, TotalCompares
  <2>5. ASSUME \A i \in 1..n : scores[i] = wholes[i] PROVE scores = wholes
    <3>1. scores = [i \in 1..n |-> scores[i]] /\ wholes = [i \in 1..n |-> wholes[i]]
      BY <1>4
    <3>2. [i \in 1..n |-> scores[i]] = [i \in 1..n |-> wholes[i]]
      BY <2>5
    <3> QED
      BY <3>1, <3>2, Zenon
  <2> QED
    BY <2>1, <2>2, <2>3, <2>4, <2>5
<1>6. CASE steps = <<>>
  <2>1. mark = [correct |-> 0, errors |-> <<>>, confidence |-> 0]
    BY <1>6 DEF S!Stepwise, S!Unscored, S!Mark
  <2>2. mark.correct = 0 /\ DOMAIN steps = {}
    BY <1>6, <2>1
  <2> HIDE DEF mark
  <2> QED
    BY <2>2 DEF S!StepsCount, S!Whole, mark
<1>7. CASE steps # <<>>
  <2>1. /\ mark.correct = IF most = 0 THEN 0 ELSE points \div most
        /\ mark.errors = S!FlattenSeq(errors)
    <3>1. PICK confidence : mark = S!Mark(IF most = 0 THEN 0 ELSE points \div most, S!FlattenSeq(errors), confidence)
      BY <1>7 DEF S!Stepwise, StepErrors, StepMark
    <3> HIDE DEF mark, most, points, errors
    <3> QED
      BY <3>1 DEF S!Mark
  <2>2. mark.correct = S!Whole <=> most # 0 /\ \A i \in 1..n : scores[i] = wholes[i]
    <3> HIDE DEF mark, most, points, errors, scores, wholes, maxima, n
    <3>1. CASE most = 0
      BY <2>1, <3>1 DEF S!Whole
    <3>2. CASE most # 0
      BY <2>1, <3>2, <1>5, ShareOfPoints
    <3> QED
      BY <3>1, <3>2
  <2>3. mark.correct = S!Whole <=> carrying # {} /\ \A i \in carrying : sub(i).correct = S!Whole
    <3>1. most # 0 <=> carrying # {}
      <4>1. \A i \in 1..n : maxima[i] # 0 <=> i \in carrying
        <5> HIDE DEF maxima, scores, wholes, sub, n
        <5> QED
          BY <1>1, <1>3
      <4>2. carrying \subseteq 1..n
        BY <1>1
      <4> HIDE DEF maxima, carrying, most, n, scores, wholes, points, sub
      <4> QED
        BY <1>5, <4>1, <4>2
    <3>2. (\A i \in 1..n : scores[i] = wholes[i]) <=> \A i \in carrying : sub(i).correct = S!Whole
      <4>1. \A i \in 1..n : scores[i] = wholes[i] <=> (i \in carrying => sub(i).correct = S!Whole)
        <5> HIDE DEF maxima, scores, wholes, sub, n
        <5> QED
          BY <1>1, <1>3
      <4>2. carrying \subseteq 1..n
        BY <1>1
      <4> HIDE DEF scores, wholes, sub, carrying, n
      <4> QED
        BY <4>1, <4>2
    <3> HIDE DEF mark, most, scores, wholes, maxima, carrying, sub, n
    <3> QED
      BY <2>2, <3>1, <3>2
  <2>4. \A i \in DOMAIN steps \ answered : S!Contains(mark.errors, <<"missing_step", steps[i].id>>)
    <3> DEFINE X == UNION {{errors[i][k] : k \in DOMAIN errors[i]} : i \in 1..n}
    <3>1. ASSUME NEW i \in 1..n PROVE errors[i] \in Seq(X) /\ (i \notin answered => Len(errors[i]) = 1 /\ errors[i][1] = <<"missing_step", steps[i].id>>)
      <4>1. errors[i] = [k \in DOMAIN sub(i).errors |-> <<sub(i).errors[k], steps[i].id>>]
        BY <1>1 DEF StepErrors
      <4>2. Listed(sub(i).errors)
        BY <1>2 DEF MarkFits
      <4>3. \A k \in DOMAIN errors[i] : errors[i][k] \in X
        <5> HIDE DEF errors
        <5> QED
          OBVIOUS
      <4>4. errors[i] \in Seq(X)
        <5>1. DOMAIN errors[i] = 1..Len(sub(i).errors) /\ Len(sub(i).errors) \in Nat /\ errors[i] = [k \in DOMAIN errors[i] |-> errors[i][k]]
          <6> HIDE DEF sub, errors
          <6> QED
            BY <4>1, <4>2 DEF Listed
        <5> HIDE DEF errors, X, sub
        <5> QED
          BY <4>3, <5>1
      <4>5. ASSUME i \notin answered PROVE Len(errors[i]) = 1 /\ errors[i][1] = <<"missing_step", steps[i].id>>
        <5>1. sub(i).errors = <<"missing_step">>
          BY <1>2, <4>5
        <5>2. errors[i] = [k \in 1..1 |-> <<sub(i).errors[k], steps[i].id>>] /\ sub(i).errors[1] = "missing_step"
          <6> HIDE DEF sub, errors
          <6> QED
            BY <4>1, <5>1
        <5> HIDE DEF sub, errors
        <5> QED
          BY <5>2
      <4> QED
        BY <4>4, <4>5
    <3>2. errors \in [1..n -> Seq(X)]
      <4>1. errors = [i \in 1..n |-> errors[i]]
        BY <1>1 DEF StepErrors
      <4> HIDE DEF errors, X, answered, n
      <4> QED
        BY <3>1, <4>1
    <3>3. \A i \in 1..n : \A k \in 1..Len(errors[i]) : S!Contains(S!FlattenSeq(errors), errors[i][k])
      <4> HIDE DEF errors, X, n
      <4> QED
        BY <1>1, <3>2, FlattenKeeps
    <3>4. ASSUME NEW i \in 1..n, i \notin answered PROVE S!Contains(S!FlattenSeq(errors), <<"missing_step", steps[i].id>>)
      <4> HIDE DEF errors, answered, n, X
      <4>1. Len(errors[i]) = 1 /\ errors[i][1] = <<"missing_step", steps[i].id>> /\ 1 \in 1..1
        BY <3>1, <3>4
      <4> QED
        BY <3>3, <4>1
    <3> HIDE DEF errors, answered, mark, n, X
    <3> QED
      BY <1>1, <2>1, <3>4
  <2>5. ASSUME mark.correct = S!Whole
        PROVE  /\ carrying # {} /\ carrying \subseteq answered
               /\ \A i \in carrying : S!SubMark(steps[i], given[steps[i].id]).correct = S!Whole
    <3>1. carrying # {} /\ carrying \subseteq 1..n /\ \A i \in carrying : sub(i).correct = S!Whole
      BY <1>1, <2>3, <2>5
    <3> HIDE DEF carrying, answered, sub, n
    <3> QED
      BY <3>1, <1>2
  <2>6. ASSUME carrying # {}, \A i \in carrying : i \in answered /\ S!SubMark(steps[i], given[steps[i].id]).correct = S!Whole
        PROVE  mark.correct = S!Whole
    <3>1. carrying \subseteq 1..n
      BY <1>1
    <3> HIDE DEF carrying, answered, sub, n, mark
    <3> QED
      BY <3>1, <1>2, <2>3, <2>6
  <2> HIDE DEF mark
  <2> QED
    BY <2>4, <2>5, <2>6 DEF S!StepsCount, mark
<1> QED
  BY <1>6, <1>7

-----------------------------------------------------------------------------
\* The larger and the smaller of two numbers.
LEMMA OfTwo ==
  ASSUME NEW a \in Int, NEW b \in Int
  PROVE  /\ S!Max({a, b}) \in {a, b} /\ a <= S!Max({a, b}) /\ b <= S!Max({a, b})
         /\ S!Min({a, b}) \in {a, b} /\ S!Min({a, b}) <= a /\ S!Min({a, b}) <= b
<1>1. IsFiniteSet({a} \cup {b})
  BY FS_Singleton, FS_AddElement
<1>2. {a, b} = {a} \cup {b} /\ {a, b} \in SUBSET Int /\ {a, b} # {}
  OBVIOUS
<1>3. IsFiniteSet({a, b})
  BY <1>1, <1>2
<1> QED
  BY <1>2, <1>3, Extremes

\* What a dimension is given: a mark in its bands or none, and confidence
\* only for a mark of its own that has a reason.
LEMMA DimensionMark ==
  ASSUME NEW reply \in Seq(Opinions), NEW d \in Dimensions, IsFiniteSet(d.bands),
         \E least \in d.bands : least >= 0
  PROVE  LET m == S!MarkOf(reply, d)
         IN /\ m.score \in Int /\ S!Max(d.bands) \in Nat /\ m.score <= S!Max(d.bands)
            /\ m.score # 0 => m.score \in S!Min(d.bands)..S!Max(d.bands)
            /\ m.confidence \in Int
            /\ m.confidence >= S!Reviewed =>
                 \E o \in S!Range(reply) : o.id = d.id /\ o.reason /\ o.confidence >= S!Reviewed
<1> DEFINE mark == S!MarkOf(reply, d)
           top == S!Max(d.bands)
           low == S!Min(d.bands)
           mine == {i \in DOMAIN reply : reply[i].id = d.id}
           o == reply[S!Max(mine)]
           score == S!Max({S!Min({o.score, top}), low})
           confidence == IF o.reason THEN o.confidence ELSE S!Min({o.confidence, 3})
<1>1. d.bands \in SUBSET Int
  BY DEF Dimensions
<1>2. top \in Int /\ low \in Int /\ low <= top /\ top >= 0
  <2>1. d.bands # {}
    OBVIOUS
  <2>2. /\ top \in d.bands /\ \A x \in d.bands : x <= top
        /\ low \in d.bands /\ \A x \in d.bands : low <= x
    BY <1>1, <2>1, Extremes
  <2> HIDE DEF top, low
  <2> QED
    BY <1>1, <2>2
<1>3. CASE mine = {}
  <2>1. mark = [score |-> 0, confidence |-> 0]
    BY <1>3 DEF S!MarkOf
  <2> HIDE DEF mark
  <2>2. mark.score = 0 /\ mark.confidence = 0
    BY <2>1
  <2> HIDE DEF top, low
  <2> QED
    BY <1>2, <2>2 DEF mark, top, low, S!Reviewed
<1>4. CASE mine # {}
  <2>1. S!Max(mine) \in mine
    <3>1. Len(reply) \in Nat /\ DOMAIN reply = 1..Len(reply)
      OBVIOUS
    <3>2. IsFiniteSet(DOMAIN reply)
      <4>1. 1 \in Int /\ Len(reply) \in Int
        BY <3>1
      <4> QED
        BY <3>1, <4>1, FS_Interval
    <3>3. mine \in SUBSET DOMAIN reply /\ mine \in SUBSET Int
      BY <3>1
    <3>4. IsFiniteSet(mine)
      <4> HIDE DEF mine
      <4> QED
        BY <3>2, <3>3, FS_Subset
    <3> HIDE DEF mine
    <3> QED
      BY <1>4, <3>3, <3>4, Extremes
  <2>2. o \in Opinions /\ o \in S!Range(reply) /\ o.id = d.id
    <3> DEFINE k == S!Max(mine)
    <3>1. k \in DOMAIN reply /\ reply[k].id = d.id
      <4>1. \A i \in mine : i \in DOMAIN reply /\ reply[i].id = d.id
        OBVIOUS
      <4> HIDE DEF mine
      <4> QED
        BY <2>1, <4>1
    <3> HIDE DEF k
    <3>2. reply[k] \in Opinions /\ reply[k] \in S!Range(reply)
      BY <3>1 DEF S!Range
    <3> QED
      BY <3>1, <3>2 DEF k
  <2>3. mark = [score |-> score, confidence |-> confidence]
    BY <1>4 DEF S!MarkOf
  <2> HIDE DEF mark, top, low, o
  <2>4. o.score \in Int /\ o.confidence \in Int /\ o.reason \in BOOLEAN
    BY <2>2 DEF Opinions
  <2>5. score \in low..top
    <3> DEFINE less == S!Min({o.score, top})
    <3>1. less \in Int /\ less <= top
      BY <1>2, <2>4, OfTwo
    <3> HIDE DEF less
    <3>2. S!Max({less, low}) \in {less, low} /\ less <= S!Max({less, low}) /\ low <= S!Max({less, low})
      BY <1>2, <3>1, OfTwo
    <3>3. S!Max({less, low}) \in low..top
      BY <1>2, <3>1, <3>2
    <3> QED
      BY <3>3 DEF less
  <2>6. confidence \in Int /\ (confidence >= S!Reviewed => o.reason /\ o.confidence >= S!Reviewed)
    <3>1. S!Min({o.confidence, 3}) \in {o.confidence, 3} /\ S!Min({o.confidence, 3}) <= 3
      <4>1. 3 \in Int
        OBVIOUS
      <4> QED
        BY <2>4, <4>1, OfTwo
    <3> QED
      BY <2>4, <3>1 DEF S!Reviewed
  <2> HIDE DEF score, confidence
  <2>7. mark.score = score /\ mark.confidence = confidence
    BY <2>3
  <2>8. mark.score \in Int /\ mark.score <= top /\ top \in Nat /\ mark.score \in low..top
    BY <1>2, <2>5, <2>7
  <2> QED
    BY <2>2, <2>6, <2>7, <2>8 DEF mark, top, low
<1> QED
  BY <1>3, <1>4

(* The rubrics that are marked.                                            *)
Markable(rubric) ==
  rubric \in Seq(Dimensions) /\ \A i \in DOMAIN rubric : IsFiniteSet(rubric[i].bands) /\ \E n \in rubric[i].bands : n >= 0

\* A mark of the model goes without review only if it is sure of every
\* dimension, adds up and stays within the bands.
LEMMA ModelScores ==
  ASSUME NEW rubric, NEW reply \in {NONE} \cup Seq(Opinions), Markable(rubric)
  PROVE  S!ReviewedWhenUnsure(rubric, reply, S!AIScore(rubric, reply))
<1> DEFINE n == Len(rubric)
           s == S!AIScore(rubric, reply)
           tops == [i \in DOMAIN rubric |-> S!Max(rubric[i].bands)]
<1>1. n \in Nat /\ DOMAIN rubric = 1..n /\ rubric \in [1..n -> Dimensions]
  BY DEF Markable
<1>2. ASSUME NEW i \in 1..n
      PROVE  rubric[i] \in Dimensions /\ IsFiniteSet(rubric[i].bands) /\ \E least \in rubric[i].bands : least >= 0
  BY <1>1 DEF Markable
<1>3. ASSUME NEW i \in 1..n PROVE S!Max(rubric[i].bands) \in Nat
  <2>1. S!Max(rubric[i].bands) \in rubric[i].bands /\ \A x \in rubric[i].bands : x <= S!Max(rubric[i].bands)
    BY <1>2, Extremes DEF Dimensions
  <2>2. rubric[i].bands \in SUBSET Int
    BY <1>2 DEF Dimensions
  <2> QED
    BY <1>2, <2>1, <2>2
<1>4. tops \in [1..n -> Int] /\ \A i \in 1..n : tops[i] >= 0 /\ tops[i] = S!Max(rubric[i].bands)
  <2>1. tops = [i \in 1..n |-> S!Max(rubric[i].bands)]
    BY <1>1
  <2> HIDE DEF tops, n
  <2> QED
    BY <1>3, <2>1
<1>5. S!MostOf(rubric, NONE) = S!Total(tops)
  BY DEF S!MostOf
<1>6. CASE reply = NONE
  <2> DEFINE zeros == [i \in DOMAIN rubric |-> 0]
  <2>1. s = [dims |-> zeros, total |-> 0, confidence |-> 0, review |-> TRUE]
    BY <1>6 DEF S!AIScore
  <2>2. zeros \in [1..n -> Int] /\ \A i \in 1..n : zeros[i] = 0 /\ zeros[i] >= 0
    BY <1>1
  <2> HIDE DEF zeros, tops, s, n
  <2>3. S!Total(zeros) = 0
    BY <1>1, <2>2, TotalIsNothing
  <2>4. S!Total(tops) \in Nat
    BY <1>1, <1>4, TotalIsNothing
  <2>5. s.review = TRUE /\ s.total = 0 /\ s.dims = zeros
    BY <2>1
  <2>6. s.total = S!Total(s.dims) /\ s.total <= S!MostOf(rubric, NONE)
    BY <1>5, <2>3, <2>4, <2>5
  <2> QED
    BY <1>1, <2>2, <2>5, <2>6 DEF S!ReviewedWhenUnsure, s
<1>7. CASE reply # NONE
  <2> DEFINE dims == [i \in DOMAIN rubric |-> S!MarkOf(reply, rubric[i]).score]
             sure == {10} \cup {S!MarkOf(reply, d).confidence : d \in S!Range(rubric)}
  <2>1. reply \in Seq(Opinions)
    BY <1>7
  <2>2. s = [dims |-> dims, total |-> S!Total(dims), confidence |-> S!Min(sure), review |-> S!Min(sure) < S!Reviewed]
    BY <1>7 DEF S!AIScore, S!Overall
  <2>3. ASSUME NEW i \in 1..n
        PROVE  LET m == S!MarkOf(reply, rubric[i]) d == rubric[i]
               IN /\ m.score \in Int /\ m.score <= S!Max(d.bands)
                  /\ m.score # 0 => m.score \in S!Min(d.bands)..S!Max(d.bands)
                  /\ m.confidence \in Int
                  /\ m.confidence >= S!Reviewed =>
                       \E o \in S!Range(reply) : o.id = d.id /\ o.reason /\ o.confidence >= S!Reviewed
    BY <1>2, <2>1, DimensionMark
  <2>4. dims \in [1..n -> Int] /\ \A i \in 1..n : dims[i] = S!MarkOf(reply, rubric[i]).score /\ dims[i] <= tops[i]
    <3>1. dims = [i \in 1..n |-> S!MarkOf(reply, rubric[i]).score]
      BY <1>1
    <3> HIDE DEF dims, n, tops
    <3> QED
      BY <1>4, <2>3, <3>1
  <2>5. S!Total(dims) <= S!MostOf(rubric, NONE)
    <3> HIDE DEF dims, tops, n
    <3> QED
      BY <1>1, <1>4, <1>5, <2>4, TotalCompares
  <2>6. \A d \in S!Range(rubric) : \E i \in 1..n : d = rubric[i]
    BY <1>1 DEF S!Range
  <2>7. sure \in SUBSET Int /\ IsFiniteSet(sure) /\ sure # {}
    <3> DEFINE opinions == {S!MarkOf(reply, d).confidence : d \in S!Range(rubric)}
               f == [i \in 1..n |-> S!MarkOf(reply, rubric[i]).confidence]
    <3>1. \A c \in opinions : c \in Int /\ \E i \in 1..n : c = f[i]
      <4> HIDE DEF n
      <4> QED
        BY <2>3, <2>6
    <3>2. \A i \in 1..n : f[i] \in opinions
      BY <1>1 DEF S!Range
    <3>3. f \in Surjection(1..n, opinions)
      <4> HIDE DEF n, opinions
      <4>1. f \in [1..n -> opinions]
        BY <3>2
      <4> HIDE DEF f
      <4> QED
        BY <3>1, <4>1 DEF Surjection
    <3>4. IsFiniteSet(1..n)
      <4>1. 1 \in Int /\ n \in Int
        BY <1>1
      <4> QED
        BY <4>1, FS_Interval
    <3>5. IsFiniteSet(opinions)
      <4> HIDE DEF n, opinions, f
      <4> QED
        BY <3>3, <3>4, FS_Surjection
    <3>6. IsFiniteSet(opinions \cup {10})
      <4> HIDE DEF opinions
      <4> QED
        BY <3>5, FS_AddElement
    <3>7. sure = opinions \cup {10}
      OBVIOUS
    <3> HIDE DEF opinions, sure
    <3> QED
      BY <3>1, <3>6, <3>7
  <2>8. S!Min(sure) \in Int /\ \A c \in sure : S!Min(sure) <= c
    <3> HIDE DEF sure
    <3> QED
      BY <2>7, Extremes
  <2>9. ASSUME ~(S!Min(sure) < S!Reviewed), NEW d \in S!Range(rubric)
        PROVE  \E o \in S!Range(reply) : o.id = d.id /\ o.reason /\ o.confidence >= S!Reviewed
    <3>1. PICK i \in 1..n : d = rubric[i]
      BY <2>6
    <3>2. S!MarkOf(reply, d).confidence \in sure
      OBVIOUS
    <3>3. S!MarkOf(reply, d).confidence \in Int
      BY <2>3, <3>1
    <3> HIDE DEF sure, n
    <3>4. S!MarkOf(reply, d).confidence >= S!Reviewed
      BY <2>8, <2>9, <3>2, <3>3 DEF S!Reviewed
    <3> QED
      BY <2>3, <3>1, <3>4
  <2> HIDE DEF dims, sure, tops, n, s
  <2>10. s.dims = dims /\ s.total = S!Total(dims) /\ s.review = (S!Min(sure) < S!Reviewed)
    BY <2>2
  <2>11. \A i \in DOMAIN rubric : s.dims[i] # 0 => s.dims[i] \in S!Min(rubric[i].bands)..S!Max(rubric[i].bands)
    BY <1>1, <2>3, <2>4, <2>10
  <2> QED
    BY <1>7, <2>5, <2>9, <2>10, <2>11 DEF S!ReviewedWhenUnsure, s
<1> QED
  BY <1>6, <1>7

-----------------------------------------------------------------------------
\* The factor of a conversion goes between units of one kind; it is what
\* they measure, or the sixtieth of the table.
LEMMA Conversions ==
  ASSUME NEW u, NEW v, S!Known(u, v)
  PROVE  /\ S!Together(u, v) /\ u # v
         /\ S!Factor[u][v] \in (Nat \ {0}) \X (Nat \ {0})
         /\ <<S!Measured[u][2], S!Measured[v][2]>> \in (Nat \ {0}) \X (Nat \ {0})
         /\ IF S!Measured[v][2] = 60 * S!Measured[u][2] THEN S!Factor[u][v] = Sixtieth
            ELSE S!Measured[v][2] * S!Factor[u][v][1] = S!Measured[u][2] * S!Factor[u][v][2]
<1>1. u \in {"m", "cm", "mm", "km", "kg", "g", "min", "s", "h"}
  BY DEF S!Known, S!Factor
<1>2. CASE u = "m"
  BY <1>2 DEF S!Known, S!Factor, S!Together, S!Measured
<1>3. CASE u = "cm"
  BY <1>3 DEF S!Known, S!Factor, S!Together, S!Measured
<1>4. CASE u = "mm"
  BY <1>4 DEF S!Known, S!Factor, S!Together, S!Measured
<1>5. CASE u = "km"
  BY <1>5 DEF S!Known, S!Factor, S!Together, S!Measured
<1>6. CASE u = "kg"
  BY <1>6 DEF S!Known, S!Factor, S!Together, S!Measured
<1>7. CASE u = "g"
  BY <1>7 DEF S!Known, S!Factor, S!Together, S!Measured
<1>8. CASE u = "min"
  BY <1>8, PrecisionAssumption DEF S!Known, S!Factor, S!Together, S!Measured
<1>9. CASE u = "s"
  BY <1>9, PrecisionAssumption DEF S!Known, S!Factor, S!Together, S!Measured
<1>10. CASE u = "h"
  BY <1>10 DEF S!Known, S!Factor, S!Together, S!Measured
<1> QED
  BY <1>1, <1>2, <1>3, <1>4, <1>5, <1>6, <1>7, <1>8, <1>9, <1>10

\* The size of an integer, of a difference and of a product.
LEMMA Sizes ==
  /\ \A x, y \in Int : S!Distance(x, y) \in Nat /\ (S!Distance(x, y) = 0 <=> x = y)
  /\ \A x, y \in Int : S!Distance(x, y) = S!Distance(x - y, 0)
  BY DEF S!Distance

LEMMA SizeOfDifference ==
  ASSUME NEW x \in Int, NEW y \in Int, NEW z \in Int, x = y - z
  PROVE  S!Distance(x, 0) <= S!Distance(y, 0) + S!Distance(z, 0)
  BY DEF S!Distance

LEMMA SizeOfProduct ==
  ASSUME NEW x \in Int, NEW k \in Int
  PROVE  S!Distance(x * k, 0) = S!Distance(x, 0) * S!Distance(k, 0)
<1>1. (-x) * (-k) = x * k /\ (-x) * k = -(x * k) /\ x * (-k) = -(x * k) /\ x * k \in Int
  OBVIOUS
<1>2. CASE x >= 0 /\ k >= 0
  <2>1. x * k >= 0
    BY <1>2
  <2> QED
    BY <1>2, <2>1 DEF S!Distance
<1>3. CASE x >= 0 /\ k < 0
  <2>1. x * (-k) >= 0
    BY <1>3
  <2> QED
    BY <1>1, <1>3, <2>1 DEF S!Distance
<1>4. CASE x < 0 /\ k >= 0
  <2>1. (-x) * k >= 0
    BY <1>4
  <2> QED
    BY <1>1, <1>4, <2>1 DEF S!Distance
<1>5. CASE x < 0 /\ k < 0
  <2>1. (-x) * (-k) >= 0
    BY <1>5
  <2> QED
    BY <1>1, <1>5, <2>1 DEF S!Distance
<1> QED
  BY <1>2, <1>3, <1>4, <1>5

\* A fraction of one denominator compares with a number as the same
\* fraction of another denominator does.
LEMMA Carried ==
  ASSUME NEW h \in Nat \ {0}, NEW w \in Nat \ {0}, NEW parts \in Int, NEW size \in Int, NEW off \in Int, NEW gap \in Int,
         h * parts = w * size
  PROVE  /\ \A k \in Nat \ {0}, t \in Int : h * off <= w * gap /\ gap * k <= t * size => off * k <= t * parts
         /\ \A k \in Nat \ {0} : h * off <= w * gap /\ gap * k < size => off * k < parts
         /\ \A k \in Nat \ {0} : w * gap <= h * off /\ off * k < parts => gap * k < size
<1>1. \A x, y, z \in Int : x * (y * z) = (x * y) * z /\ x * y = y * x /\ x * y \in Int
  OBVIOUS
<1>2. \A x, y \in Int, k \in Nat \ {0} : (x <= y => x * k <= y * k) /\ (k * x <= k * y => x <= y) /\ (x < y => k * x < k * y) /\ (k * x < k * y => x < y)
                                         /\ (x <= y => k * x <= k * y)
  OBVIOUS
<1>3. ASSUME NEW k \in Nat \ {0}, NEW t \in Int, h * off <= w * gap, gap * k <= t * size PROVE off * k <= t * parts
  <2>1. (h * off) * k <= (w * gap) * k
    BY <1>1, <1>2, <1>3
  <2>2. h * (off * k) <= w * (gap * k)
    BY <1>1, <2>1
  <2>3. w * (gap * k) <= w * (t * size)
    BY <1>1, <1>2, <1>3
  <2>4. w * (t * size) = t * (w * size) /\ t * (h * parts) = h * (t * parts)
    BY <1>1
  <2>5. h * (off * k) <= h * (t * parts)
    BY <1>1, <2>2, <2>3, <2>4
  <2> QED
    BY <1>1, <1>2, <2>5
<1>4. ASSUME NEW k \in Nat \ {0}, h * off <= w * gap, gap * k < size PROVE off * k < parts
  <2>1. (h * off) * k <= (w * gap) * k
    BY <1>1, <1>2, <1>4
  <2>2. h * (off * k) <= w * (gap * k)
    BY <1>1, <2>1
  <2>3. w * (gap * k) < w * size
    BY <1>1, <1>2, <1>4
  <2>4. h * (off * k) < h * parts
    BY <1>1, <2>2, <2>3
  <2> QED
    BY <1>1, <1>2, <2>4
<1>5. ASSUME NEW k \in Nat \ {0}, w * gap <= h * off, off * k < parts PROVE gap * k < size
  <2>1. (w * gap) * k <= (h * off) * k
    BY <1>1, <1>2, <1>5
  <2>2. w * (gap * k) <= h * (off * k)
    BY <1>1, <2>1
  <2>3. h * (off * k) < h * parts
    BY <1>1, <1>2, <1>5
  <2>4. w * (gap * k) < w * size
    BY <1>1, <2>2, <2>3
  <2> QED
    BY <1>1, <1>2, <2>4
<1> QED
  BY <1>3, <1>4, <1>5

\* What a quantity is off, told with the factor of a conversion and with
\* what the units measure.
LEMMA Comparison ==
  ASSUME NEW q \in Quantities, NEW a \in Quantities, NEW f \in (Nat \ {0}) \X (Nat \ {0}),
         S!Ratio(q, a) \in (Nat \ {0}) \X (Nat \ {0}),
         IF S!Sixty(S!Ratio(q, a)) THEN f = Sixtieth ELSE S!Ratio(q, a)[2] * f[1] = S!Ratio(q, a)[1] * f[2]
  PROVE  /\ S!Off(q, a) \in Int /\ S!Moved(q, a) \in Int /\ S!Parts(q, a) \in Int
         /\ \E h, w \in Nat \ {0} :
              /\ h * S!Parts(q, a) = w * (S!Scaled(q, f).d * a.d)
              /\ h * (S!Off(q, a) - S!Moved(q, a)) <= w * S!Gap(S!Scaled(q, f), a)
              /\ S!Off(q, a) = 0 => w * S!Gap(S!Scaled(q, f), a) <= h * S!Moved(q, a)
<1> DEFINE r == S!Ratio(q, a)
           u == r[1]
           v == r[2]
           g == f[1]
           h == f[2]
           x == q.n * a.d
           y == a.n * q.d
           z == q.d * a.d
<1>1. /\ q.n \in Int /\ q.d \in Nat \ {0} /\ a.n \in Int /\ a.d \in Nat \ {0}
      /\ u \in Nat \ {0} /\ v \in Nat \ {0} /\ g \in Nat \ {0} /\ h \in Nat \ {0}
  BY DEF Quantities
<1>2. /\ S!Scaled(q, f).n = q.n * g /\ S!Scaled(q, f).d = q.d * h
      /\ S!Scaled(q, r).n = q.n * u /\ S!Scaled(q, r).d = q.d * v
  BY DEF S!Scaled
<1> HIDE DEF r, u, v, g, h
<1>3. \A k, l, m \in Int : k * (l * m) = (k * l) * m /\ k * l = l * k /\ k * l \in Int
  OBVIOUS
<1>4. /\ (q.n * g) * a.d = g * x /\ a.n * (q.d * h) = h * y /\ (q.d * h) * a.d = h * z
      /\ (q.n * u) * a.d = u * x /\ a.n * (q.d * v) = v * y /\ (q.d * v) * a.d = v * z
      /\ x \in Int /\ y \in Int /\ z \in Int
  BY <1>1, <1>3
<1> HIDE DEF x, y, z
<1>5. /\ S!Gap(S!Scaled(q, f), a) = S!Distance(g * x - h * y, 0)
      /\ S!Gap(S!Scaled(q, r), a) = S!Distance(u * x - v * y, 0)
      /\ S!Scaled(q, f).d * a.d = h * z
  BY <1>1, <1>2, <1>3, <1>4, Sizes DEF S!Gap
<1> DEFINE off == u * x - v * y
           gap == g * x - h * y
<1>6. off \in Int /\ gap \in Int /\ S!Distance(off, 0) \in Nat /\ S!Distance(gap, 0) \in Nat
  BY <1>1, <1>3, <1>4, Sizes
<1>7. CASE ~S!Sixty(r)
  <2>1. v * g = u * h
    BY <1>7 DEF r, u, v, g, h
  <2>2. S!Off(q, a) = S!Distance(off, 0) /\ S!Moved(q, a) = 0 /\ S!Parts(q, a) = v * z
    <3>1. S!Fine(r) = 1
      BY <1>7 DEF S!Fine
    <3>2. S!Off(q, a) = S!Distance(off, 0) * 1 /\ S!Parts(q, a) = (v * z) * 1
      BY <1>4, <1>5, <3>1 DEF S!Off, S!Parts, r, v
    <3>3. S!Moved(q, a) = 0
      BY <1>7 DEF S!Moved, r
    <3> HIDE DEF off
    <3> QED
      BY <1>1, <1>3, <1>4, <1>6, <3>2, <3>3
  <2>3. off * h = gap * v
    <3>1. (u * x) * h = (u * h) * x /\ (v * y) * h = (h * y) * v /\ (g * x) * v = (v * g) * x
      BY <1>1, <1>3, <1>4
    <3>2. \A k, l, m \in Int : (k - l) * m = k * m - l * m
      OBVIOUS
    <3>3. off * h = (u * x) * h - (v * y) * h /\ gap * v = (g * x) * v - (h * y) * v
      BY <1>1, <1>3, <1>4, <3>2
    <3> QED
      BY <2>1, <3>1, <3>3
  <2> HIDE DEF off, gap
  <2>4. S!Distance(off, 0) * h = S!Distance(gap, 0) * v
    <3>1. S!Distance(h, 0) = h /\ S!Distance(v, 0) = v
      BY <1>1 DEF S!Distance
    <3>2. S!Distance(off * h, 0) = S!Distance(off, 0) * S!Distance(h, 0)
      BY <1>1, <1>6, SizeOfProduct
    <3>3. S!Distance(gap * v, 0) = S!Distance(gap, 0) * S!Distance(v, 0)
      BY <1>1, <1>6, SizeOfProduct
    <3> QED
      BY <2>3, <3>1, <3>2, <3>3
  <2>5. h * S!Distance(off, 0) = v * S!Distance(gap, 0)
    BY <1>1, <1>3, <1>6, <2>4
  <2>6. h * (v * z) = v * (h * z)
    BY <1>1, <1>3, <1>4
  <2>7. S!Distance(off, 0) = 0 => v * S!Distance(gap, 0) <= h * 0
    BY <1>1, <1>6, <2>5
  <2>8. /\ h * S!Parts(q, a) = v * (S!Scaled(q, f).d * a.d)
        /\ h * (S!Off(q, a) - S!Moved(q, a)) <= v * S!Gap(S!Scaled(q, f), a)
        /\ S!Off(q, a) = 0 => v * S!Gap(S!Scaled(q, f), a) <= h * S!Moved(q, a)
    <3>1. S!Gap(S!Scaled(q, f), a) = S!Distance(gap, 0)
      BY <1>5 DEF gap
    <3>2. S!Distance(off, 0) - 0 = S!Distance(off, 0) /\ v * S!Distance(gap, 0) \in Int
      BY <1>1, <1>3, <1>6
    <3> QED
      BY <1>5, <2>2, <2>5, <2>6, <2>7, <3>1, <3>2
  <2>9. S!Off(q, a) \in Int /\ S!Moved(q, a) \in Int /\ S!Parts(q, a) \in Int
    BY <1>1, <1>3, <1>4, <1>6, <2>2
  <2> QED
    BY <1>1, <2>8, <2>9
<1>8. CASE S!Sixty(r)
  <2> DEFINE drift == v * g - u * h
             moved == S!Distance(q.n, 0) * a.d
  <2>1. f = Sixtieth
    BY <1>8 DEF r
  <2>2. /\ S!Off(q, a) = S!Distance(off, 0) * h
        /\ S!Moved(q, a) = moved * S!Distance(v * g, u * h)
        /\ S!Parts(q, a) = (v * z) * h
    <3>1. S!Fine(r) = h
      BY <1>8, <2>1 DEF S!Fine, h
    <3>2. S!Off(q, a) = S!Distance(off, 0) * h /\ S!Parts(q, a) = (v * z) * h
      BY <1>4, <1>5, <3>1 DEF S!Off, S!Parts, r, v
    <3>3. S!Moved(q, a) = moved * S!Distance(v * g, u * h)
      BY <1>8, <2>1 DEF S!Moved, r, u, v, g, h
    <3> QED
      BY <3>2, <3>3
  <2>3. drift \in Int /\ S!Distance(drift, 0) \in Nat /\ S!Distance(x, 0) \in Nat
    <3>1. drift \in Int
      BY <1>1, <1>3
    <3>2. \A k \in Int : S!Distance(k, 0) \in Nat
      BY DEF S!Distance
    <3> HIDE DEF drift
    <3> QED
      BY <1>4, <3>1, <3>2
  <2>4. moved = S!Distance(x, 0) /\ S!Distance(v * g, u * h) = S!Distance(drift, 0)
    <3>1. S!Distance(a.d, 0) = a.d
      BY <1>1 DEF S!Distance
    <3>2. S!Distance(x, 0) = S!Distance(q.n, 0) * S!Distance(a.d, 0)
      <4>1. q.n \in Int /\ a.d \in Int
        BY <1>1
      <4>2. S!Distance(q.n * a.d, 0) = S!Distance(q.n, 0) * S!Distance(a.d, 0)
        BY <4>1, SizeOfProduct
      <4> QED
        BY <4>2 DEF x
    <3>3. S!Distance(v * g, u * h) = S!Distance(drift, 0)
      BY <1>1, <1>3, Sizes
    <3> QED
      BY <3>1, <3>2, <3>3
  <2>5. off * h = gap * v - x * drift
    <3>1. \A k, l, m \in Int : (k - l) * m = k * m - l * m /\ m * (k - l) = m * k - m * l
      OBVIOUS
    <3>2. off * h = (u * x) * h - (v * y) * h /\ gap * v = (g * x) * v - (h * y) * v /\ x * drift = x * (v * g) - x * (u * h)
      BY <1>1, <1>3, <1>4, <3>1
    <3>3. (u * x) * h = x * (u * h) /\ (v * y) * h = (h * y) * v /\ (g * x) * v = x * (v * g)
      BY <1>1, <1>3, <1>4
    <3>4. /\ (u * x) * h \in Int /\ (v * y) * h \in Int /\ (g * x) * v \in Int
      BY <1>1, <1>3, <1>4
    <3> HIDE DEF off, gap, drift
    <3> QED
      BY <3>2, <3>3, <3>4
  <2> HIDE DEF off, gap, drift, moved
  <2>6. /\ S!Distance(off * h, 0) = S!Distance(off, 0) * h
        /\ S!Distance(gap * v, 0) = v * S!Distance(gap, 0)
        /\ S!Distance(x * drift, 0) = S!Moved(q, a)
    <3>1. S!Distance(h, 0) = h /\ S!Distance(v, 0) = v
      BY <1>1 DEF S!Distance
    <3>2. /\ S!Distance(off * h, 0) = S!Distance(off, 0) * S!Distance(h, 0)
          /\ S!Distance(gap * v, 0) = S!Distance(gap, 0) * S!Distance(v, 0)
          /\ S!Distance(x * drift, 0) = S!Distance(x, 0) * S!Distance(drift, 0)
      <4>1. off \in Int /\ gap \in Int /\ x \in Int /\ drift \in Int /\ h \in Int /\ v \in Int
        BY <1>1, <1>4, <1>6, <2>3
      <4>2. S!Distance(off * h, 0) = S!Distance(off, 0) * S!Distance(h, 0)
        BY <4>1, SizeOfProduct
      <4>3. S!Distance(gap * v, 0) = S!Distance(gap, 0) * S!Distance(v, 0)
        BY <4>1, SizeOfProduct
      <4>4. S!Distance(x * drift, 0) = S!Distance(x, 0) * S!Distance(drift, 0)
        BY <4>1, SizeOfProduct
      <4> QED
        BY <4>2, <4>3, <4>4
    <3>3. S!Distance(gap, 0) * v = v * S!Distance(gap, 0)
      BY <1>1, <1>3, <1>6
    <3> QED
      BY <2>2, <2>4, <3>1, <3>2, <3>3
  <2>7. off * h \in Int /\ gap * v \in Int /\ x * drift \in Int
    BY <1>1, <1>3, <1>4, <1>6, <2>3
  <2>8. S!Off(q, a) \in Int /\ S!Moved(q, a) \in Int /\ S!Parts(q, a) \in Int /\ v * S!Distance(gap, 0) \in Int
    BY <1>1, <1>3, <1>4, <1>6, <2>2, <2>3, <2>4
  <2>9. S!Off(q, a) <= v * S!Distance(gap, 0) + S!Moved(q, a)
    BY <2>2, <2>5, <2>6, <2>7, SizeOfDifference
  <2>10. ASSUME S!Off(q, a) = 0 PROVE v * S!Distance(gap, 0) <= S!Moved(q, a)
    <3>1. off * h = 0
      <4>1. S!Distance(off * h, 0) = 0
        BY <2>2, <2>6, <2>10
      <4> QED
        BY <2>7, <4>1, Sizes
    <3>2. gap * v = x * drift
      BY <2>5, <2>7, <3>1
    <3> QED
      BY <2>6, <2>8, <3>2
  <2>11. (v * z) * h = v * (h * z)
    BY <1>1, <1>3, <1>4
  <2>12. /\ 1 * S!Parts(q, a) = v * (S!Scaled(q, f).d * a.d)
         /\ 1 * (S!Off(q, a) - S!Moved(q, a)) <= v * S!Gap(S!Scaled(q, f), a)
         /\ S!Off(q, a) = 0 => v * S!Gap(S!Scaled(q, f), a) <= 1 * S!Moved(q, a)
    <3>1. S!Gap(S!Scaled(q, f), a) = S!Distance(gap, 0)
      BY <1>5 DEF gap
    <3>2. 1 * S!Parts(q, a) = S!Parts(q, a) /\ 1 * S!Moved(q, a) = S!Moved(q, a)
          /\ 1 * (S!Off(q, a) - S!Moved(q, a)) = S!Off(q, a) - S!Moved(q, a)
      BY <2>8
    <3>3. S!Off(q, a) - S!Moved(q, a) <= v * S!Distance(gap, 0)
      BY <2>8, <2>9
    <3> QED
      BY <1>5, <2>2, <2>10, <2>11, <3>1, <3>2, <3>3
  <2> QED
    BY <1>1, <2>8, <2>12
<1> QED
  BY <1>7, <1>8

\* A quantity is marked right only if it is the same quantity, as near as
\* the code tells it, and the answer itself is always marked right.
LEMMA QuantityFaithful ==
  ASSUME NEW p, NEW response, MathFits(p, response)
  PROVE  S!SameQuantity(p, response, S!MathScore(p, response))
<1> DEFINE q == response.q
           a == p.answer
           rules == S!Rules(p)
           t == p.tolerance
           mark == S!MathScore(p, response)
           converted == S!Converted(q, a, rules)
           compared == IF converted = NONE THEN q ELSE converted
           tolerated == "decimal_tolerance" \in rules /\ t[1] > 0 /\ S!Within(compared, a, t)
           equal == S!Equal(compared, a) \/ tolerated
           errors == S!ErrorType(compared, q, a)
           surely == S!Off(q, a) - S!Moved(q, a)
           whole == equal /\ converted # NONE
           close == \/ surely * Precision < S!Parts(q, a)
                    \/ "decimal_tolerance" \in rules /\ t[1] > 0 /\ surely * t[2] <= t[1] * S!Parts(q, a)
           together == S!Alike(q, a) \/ ("unit_convert" \in rules /\ S!Together(q.unit, a.unit))
           known == S!Alike(q, a) \/ ("unit_convert" \in rules /\ S!Known(q.unit, a.unit))
           exact == S!Off(q, a) = 0 /\ S!Moved(q, a) * Precision < S!Parts(q, a)
<1>1. SUFFICES ASSUME response.kind = "quantity", p.kind = "quantity"
      PROVE  /\ mark.correct = S!Whole => mark.errors = <<>> /\ together /\ close
             /\ mark.correct # S!Whole /\ S!Alike(q, a) => mark.errors # <<>>
             /\ exact /\ known => mark.correct = S!Whole
  <2> HIDE DEF mark
  <2> QED
    BY DEF S!SameQuantity, mark
<1>2. q \in Quantities /\ a \in Quantities /\ t \in Int \X (Nat \ {0}) /\ Precision \in Nat \ {0}
  BY <1>1, PrecisionAssumption DEF MathFits
<1>3. q # NONE /\ a # NONE
  BY <1>2, NoneAssumption
<1>4. IF whole THEN mark.correct = S!Whole /\ mark.errors = <<>> ELSE mark.correct = 0 /\ mark.errors = errors
  <2>1. mark = IF whole THEN S!Mark(S!Whole, <<>>, 10) ELSE S!Mark(0, errors, 10)
    BY <1>1 DEF S!MathScore
  <2> HIDE DEF mark, whole, errors
  <2> QED
    BY <2>1 DEF S!Mark
<1> HIDE DEF q, a, rules, t
<1>5. \/ S!Alike(q, a) /\ converted = q
      \/ ~S!Alike(q, a) /\ "unit_convert" \in rules /\ S!Known(q.unit, a.unit) /\ converted = S!Scaled(q, S!Factor[q.unit][a.unit])
      \/ ~S!Alike(q, a) /\ ~("unit_convert" \in rules /\ S!Known(q.unit, a.unit)) /\ converted = NONE
  BY <1>3 DEF S!Converted, S!Alike
<1>6. known => converted # NONE
  <2>1. ASSUME S!Known(q.unit, a.unit) PROVE S!Scaled(q, S!Factor[q.unit][a.unit]) # NONE
    <3> DEFINE f == S!Factor[q.unit][a.unit]
    <3>1. f[1] \in Nat \ {0} /\ f[2] \in Nat \ {0}
      BY <2>1, Conversions
    <3> HIDE DEF f
    <3>2. q.n * f[1] \in Int /\ q.d * f[2] \in Nat \ {0}
      BY <1>2, <3>1 DEF Quantities
    <3>3. S!Scaled(q, f) \in Quantities
      BY <1>2, <3>2 DEF Quantities, S!Scaled
    <3> QED
      BY <3>3, NoneAssumption DEF f
  <2> HIDE DEF converted
  <2> QED
    BY <1>3, <1>5, <2>1
<1>7. converted # NONE => together
  <2> HIDE DEF converted
  <2> QED
    BY <1>5, Conversions
<1>8. ASSUME converted # NONE
      PROVE  /\ equal => close
             /\ exact => equal
  <2>1. PICK f \in (Nat \ {0}) \X (Nat \ {0}) :
          /\ S!Ratio(q, a) \in (Nat \ {0}) \X (Nat \ {0})
          /\ IF S!Sixty(S!Ratio(q, a)) THEN f = Sixtieth ELSE S!Ratio(q, a)[2] * f[1] = S!Ratio(q, a)[1] * f[2]
          /\ S!Gap(compared, a) = S!Gap(S!Scaled(q, f), a)
          /\ compared.d * a.d = S!Scaled(q, f).d * a.d
    <3>1. CASE S!Alike(q, a)
      <4>1. S!Ratio(q, a) = <<1, 1>>
        BY <3>1 DEF S!Ratio
      <4>2. ~S!Sixty(<<1, 1>>)
        BY DEF S!Sixty
      <4>3. compared = q
        BY <1>3, <1>5, <3>1
      <4>4. S!Scaled(q, <<1, 1>>).n = q.n /\ S!Scaled(q, <<1, 1>>).d = q.d
        BY <1>2 DEF Quantities, S!Scaled
      <4> HIDE DEF compared
      <4>5. S!Gap(compared, a) = S!Gap(S!Scaled(q, <<1, 1>>), a) /\ compared.d * a.d = S!Scaled(q, <<1, 1>>).d * a.d
        BY <4>3, <4>4 DEF S!Gap
      <4> QED
        BY <4>1, <4>2, <4>5
    <3>2. CASE ~S!Alike(q, a)
      <4>1. S!Known(q.unit, a.unit) /\ converted = S!Scaled(q, S!Factor[q.unit][a.unit])
        <5> HIDE DEF converted
        <5> QED
          BY <1>5, <1>8, <3>2
      <4>2. compared = S!Scaled(q, S!Factor[q.unit][a.unit])
        <5> HIDE DEF converted
        <5> QED
          BY <1>8, <4>1
      <4>3. S!Ratio(q, a) = <<S!Measured[q.unit][2], S!Measured[a.unit][2]>>
        BY <3>2, <4>1, Conversions DEF S!Ratio
      <4> HIDE DEF compared, converted
      <4> QED
        BY <4>1, <4>2, <4>3, Conversions DEF S!Sixty
    <3> HIDE DEF compared, converted
    <3> QED
      BY <3>1, <3>2
  <2> DEFINE size == compared.d * a.d
             gap == S!Gap(compared, a)
             parts == S!Parts(q, a)
             moved == S!Moved(q, a)
  <2>2. size \in Int /\ gap \in Int
    <3>1. q.n \in Int /\ q.d \in Int /\ a.n \in Int /\ a.d \in Int /\ f[1] \in Int /\ f[2] \in Int
      BY <1>2 DEF Quantities
    <3>2. S!Scaled(q, f).n \in Int /\ S!Scaled(q, f).d \in Int
      BY <3>1 DEF S!Scaled
    <3>3. S!Gap(S!Scaled(q, f), a) \in Int /\ S!Scaled(q, f).d * a.d \in Int
      BY <3>1, <3>2 DEF S!Gap, S!Distance
    <3> HIDE DEF compared
    <3> QED
      BY <2>1, <3>3
  <2>3. surely \in Int /\ moved \in Int /\ parts \in Int /\ S!Off(q, a) \in Int
    BY <1>2, <2>1, Comparison
  <2>4. PICK h \in Nat \ {0}, w \in Nat \ {0} :
          /\ h * parts = w * size
          /\ h * surely <= w * gap
          /\ S!Off(q, a) = 0 => w * gap <= h * moved
    <3> HIDE DEF compared
    <3> QED
      BY <1>2, <2>1, Comparison
  <2>5. S!Equal(compared, a) <=> gap * Precision < size
    BY DEF S!Equal
  <2>6. S!Within(compared, a, t) <=> gap * t[2] <= t[1] * size
    BY DEF S!Within
  <2> HIDE DEF size, gap, parts, moved, surely, compared
  <2>7. t[1] \in Int /\ t[2] \in Nat \ {0} /\ Precision \in Nat \ {0}
    BY <1>2
  <2>8. gap * Precision < size => surely * Precision < parts
    BY <2>2, <2>3, <2>4, <2>7, Carried
  <2>9. gap * t[2] <= t[1] * size => surely * t[2] <= t[1] * parts
    BY <2>2, <2>3, <2>4, <2>7, Carried
  <2>10. S!Off(q, a) = 0 /\ moved * Precision < parts => gap * Precision < size
    BY <2>2, <2>3, <2>4, <2>7, Carried
  <2> QED
    BY <2>5, <2>6, <2>8, <2>9, <2>10 DEF parts, moved
<1>9. ASSUME S!Alike(q, a) PROVE errors # <<>>
  <2>1. compared = q
    BY <1>3, <1>5, <1>9
  <2>2. q.unit # NONE /\ a.unit # NONE => ~S!Known(q.unit, a.unit)
    BY <1>9, Conversions DEF S!Alike
  <2>3. S!ErrorType(q, q, a) # <<>>
    <3>1. <<"wrong_unit">> # <<>> /\ <<"off_by_one">> # <<>> /\ <<"value_mismatch">> # <<>>
      OBVIOUS
    <3> QED
      BY <2>2, <3>1, SMT DEF S!ErrorType
  <2> HIDE DEF compared
  <2> QED
    BY <2>1, <2>3
<1> HIDE DEF mark, errors, converted, equal, close, together, known, exact
<1> QED
  BY <1>4, <1>6, <1>7, <1>8, <1>9 DEF S!Whole, whole

-----------------------------------------------------------------------------
\* A case that is called consistent is counted; one that is counted and not
\* called so has human marks that are incomplete.
LEMMA ShadowCounts ==
  ASSUME NEW rubric \in Seq(Dimensions), rubric # <<>>, NEW cases,
         \A i \in DOMAIN cases : cases[i].human # NONE /\ cases[i].human \in Seq(Int)
  PROVE  S!ShadowHonest(cases, 1, S!Benchmark(rubric, cases, 1))
<1> DEFINE b == S!Benchmark(rubric, cases, 1)
           n == Len(rubric)
           Dims(i) == S!AIScore(rubric, cases[i].reply).dims
           Human(i) == cases[i].human
           Compared(i, k) == IF k <= Len(Human(i)) /\ Human(i)[k] # -1 THEN Human(i)[k] ELSE 0
<1>1. n \in Nat \ {0} /\ DOMAIN rubric = 1..n
  BY EmptySeq
<1>2. ASSUME NEW i \in DOMAIN cases PROVE DOMAIN Dims(i) = 1..n /\ Len(Dims(i)) = n /\ Dims(i) # <<>>
  <2>1. DOMAIN Dims(i) = DOMAIN rubric
    <3>1. CASE cases[i].reply = NONE
      <4>1. Dims(i) = [k \in DOMAIN rubric |-> 0]
        BY <3>1 DEF S!AIScore
      <4> QED
        BY <4>1
    <3>2. CASE cases[i].reply # NONE
      <4>1. Dims(i) = [k \in DOMAIN rubric |-> S!MarkOf(cases[i].reply, rubric[k]).score]
        BY <3>2 DEF S!AIScore
      <4> QED
        BY <4>1
    <3> QED
      BY <3>1, <3>2
  <2>2. Len(Dims(i)) = n
    <3>1. Dims(i) = [k \in 1..n |-> Dims(i)[k]]
      <4>1. CASE cases[i].reply = NONE
        BY <1>1, <4>1 DEF S!AIScore
      <4>2. CASE cases[i].reply # NONE
        BY <1>1, <4>2 DEF S!AIScore
      <4> QED
        BY <4>1, <4>2
    <3> HIDE DEF Dims, n
    <3> QED
      BY <1>1, <3>1
  <2> HIDE DEF Dims, n
  <2>3. 1 \in DOMAIN Dims(i)
    BY <1>1, <2>1
  <2> QED
    BY <1>1, <2>1, <2>2, <2>3
<1>3. /\ b.counted = {i \in DOMAIN cases : S!DetailConsistent(b.records[i].dims, Human(i), 1)}
      /\ \A i \in DOMAIN cases : b.records[i] = S!ShadowScore(rubric, cases[i], 1)
  <2> DEFINE records == [i \in DOMAIN cases |-> S!ShadowScore(rubric, cases[i], 1)]
             counted == {i \in DOMAIN cases : S!DetailConsistent(records[i].dims, cases[i].human, 1)}
  <2>1. b = [records |-> records, counted |-> counted, passed |-> 10 * S!Cardinality(counted) >= 7 * Len(cases)]
    BY DEF S!Benchmark
  <2>2. b.records = records /\ b.counted = counted
    <3> HIDE DEF b, records, counted
    <3> QED
      BY <2>1
  <2> HIDE DEF b
  <2> QED
    BY <2>2
<1>4. ASSUME NEW i \in DOMAIN cases
      PROVE  /\ b.records[i].dims = Dims(i)
             /\ b.records[i].status = "consistent" <=> S!Consistent(Dims(i), Human(i), 1)
  <2> DEFINE status == IF S!Consistent(Dims(i), Human(i), 1) THEN "consistent" ELSE "inconsistent"
  <2>1. b.records[i] = [dims |-> Dims(i), review |-> S!AIScore(rubric, cases[i].reply).review, status |-> status]
    <3>1. S!ShadowScore(rubric, cases[i], 1) = [dims |-> Dims(i), review |-> S!AIScore(rubric, cases[i].reply).review, status |-> status]
      BY DEF S!ShadowScore
    <3> HIDE DEF b, status, Dims
    <3> QED
      BY <1>3, <3>1
  <2>2. b.records[i].dims = Dims(i) /\ b.records[i].status = status
    <3> HIDE DEF b, Dims, status
    <3> QED
      BY <2>1
  <2> HIDE DEF b, Dims, Human
  <2> QED
    BY <2>2
<1>5. ASSUME NEW i \in DOMAIN cases
      PROVE  i \in b.counted <=> \A k \in 1..n : S!Distance(Dims(i)[k], Compared(i, k)) <= 1
  <2>1. i \in b.counted <=> S!DetailConsistent(Dims(i), Human(i), 1)
    <3> HIDE DEF b, Dims, Human
    <3> QED
      BY <1>3, <1>4
  <2>2. \A k \in 1..n : S!DetailDeltas(Dims(i), Human(i))[k] = S!Distance(Dims(i)[k], Compared(i, k))
    <3> HIDE DEF Dims, Human, n
    <3> QED
      BY <1>2 DEF S!DetailDeltas
  <2> HIDE DEF Dims, Human, Compared, n, b
  <2> QED
    BY <1>2, <2>1, <2>2 DEF S!DetailConsistent
<1>6. ASSUME NEW i \in DOMAIN cases
      PROVE  S!Consistent(Dims(i), Human(i), 1)
               <=> \A k \in 1..n : k <= Len(Human(i)) /\ Human(i)[k] # -1 /\ S!Distance(Dims(i)[k], Human(i)[k]) <= 1
  <2> HIDE DEF Dims, Human, n
  <2> QED
    BY <1>2 DEF S!Consistent
<1>7. ASSUME NEW i \in DOMAIN cases, b.records[i].status = "consistent" PROVE i \in b.counted
  <2> HIDE DEF Dims, Human, n, b
  <2> QED
    BY <1>4, <1>5, <1>6, <1>7
<1>8. ASSUME NEW i \in DOMAIN cases, i \in b.counted, b.records[i].status # "consistent"
      PROVE  Len(Human(i)) < Len(b.records[i].dims) \/ S!Contains(Human(i), -1)
  <2> HIDE DEF Dims, n, b
  <2>1. PICK k \in 1..n : ~(k <= Len(Human(i)) /\ Human(i)[k] # -1 /\ S!Distance(Dims(i)[k], Human(i)[k]) <= 1)
    <3> HIDE DEF Human
    <3> QED
      BY <1>4, <1>6, <1>8
  <2>2. Len(Human(i)) \in Nat
    OBVIOUS
  <2> HIDE DEF Human
  <2>3. CASE ~(k <= Len(Human(i)))
    BY <1>1, <1>2, <1>4, <2>2, <2>3
  <2>4. CASE k <= Len(Human(i))
    <3>1. Human(i)[k] = -1
      BY <1>5, <1>8, <2>1, <2>4
    <3>2. k \in 1..Len(Human(i))
      BY <1>1, <2>2, <2>4
    <3> QED
      BY <3>1, <3>2 DEF S!Contains
  <2> QED
    BY <2>3, <2>4
<1> HIDE DEF b
<1> QED
  BY <1>7, <1>8 DEF S!ShadowHonest, b

\* No cause is recorded twice.
LEMMA RecordsOnce ==
  ASSUME NEW cause, NEW choice \in BOOLEAN, NEW bindings, Listed(bindings), NEW selected
  PROVE  LET record == S!Recorded(S!Mark(0, <<cause>>, 10), choice, bindings, selected)
         IN \A i, j \in DOMAIN record.errors : record.errors[i] = record.errors[j] => i = j
<1> DEFINE n == Len(bindings)
           Told(b) == IF b.error # NONE /\ b.option \in selected THEN <<<<b.error, b.option>>>> ELSE <<>>
           told == [i \in DOMAIN bindings |-> Told(bindings[i])]
           X == {cause} \cup {<<bindings[i].error, bindings[i].option>> : i \in DOMAIN bindings}
           more == S!OptionErrors(choice, bindings, selected)
           record == S!Recorded(S!Mark(0, <<cause>>, 10), choice, bindings, selected)
<1>1. n \in Nat /\ DOMAIN bindings = 1..n
  BY DEF Listed
<1>2. told \in [1..n -> Seq(X)]
  <2>1. ASSUME NEW i \in 1..n PROVE Told(bindings[i]) \in Seq(X)
    <3>1. <<bindings[i].error, bindings[i].option>> \in X
      BY <1>1
    <3>2. <<<<bindings[i].error, bindings[i].option>>>> \in Seq(X) /\ <<>> \in Seq(X)
      <4> HIDE DEF X
      <4> QED
        BY <3>1
    <3> HIDE DEF X
    <3> QED
      BY <3>2
  <2> HIDE DEF X, Told
  <2> QED
    BY <1>1, <2>1
<1>3. more \in Seq(X)
  <2>1. S!FlattenSeq(told) \in Seq(X)
    <3> HIDE DEF told, X, n
    <3> QED
      BY <1>1, <1>2, FlattenKeeps
  <2>2. S!Once(S!FlattenSeq(told)) \in Seq(X)
    <3> HIDE DEF told, X
    <3> QED
      BY <2>1, OnceIsOnce
  <2>3. more = IF ~choice THEN <<>> ELSE S!Once(S!FlattenSeq(told))
    BY Zenon DEF S!OptionErrors
  <2>4. <<>> \in Seq(X)
    OBVIOUS
  <2> HIDE DEF more, told, X
  <2> QED
    BY <2>2, <2>3, <2>4
<1>4. <<cause>> \o more \in Seq(X)
  <2>1. cause \in X
    OBVIOUS
  <2> HIDE DEF more, X
  <2>2. <<cause>> \in Seq(X)
    BY <2>1
  <2> QED
    BY <1>3, <2>2, ConcatProperties
<1>5. record.errors = S!Once(<<cause>> \o more)
  <2> HIDE DEF more
  <2> QED
    BY DEF S!Recorded, S!Mark, more
<1>6. S!Once(<<cause>> \o more) \in Seq(X) /\ NothingTwice(S!Once(<<cause>> \o more))
  <2> HIDE DEF more, X
  <2> QED
    BY <1>4, OnceIsOnce
<1> HIDE DEF record, more, X
<1>7. \A i, j \in DOMAIN record.errors : record.errors[i] = record.errors[j] => i = j
  BY <1>5, <1>6, LenProperties DEF NothingTwice
<1> QED
  BY <1>7 DEF record

-----------------------------------------------------------------------------
(* What is asked of a scorer is one of the constants.                      *)
CallFits ==
  /\ call.kind = "exact" => /\ ExactFits(call.of.p.form, call.of.p.answer, call.of.response)
                            /\ call.of.p.perItem \in BOOLEAN
  /\ call.kind = "steps" => call.of.steps \in StepLists /\ call.of.given \in Given
  /\ call.kind = "rubric" => call.of.rubric \in Rubrics /\ call.of.reply \in Replies
  /\ call.kind = "math" => call.of.p \in MathAnswers /\ call.of.response \in MathResponses
  /\ call.kind = "shadow" => call.of.rubric \in Rubrics /\ call.of.cases \in Cases
  /\ call.kind = "record" => call.of.bindings \in Bindings /\ call.of.choice \in BOOLEAN

(* What is answered is the answer of the scorer to this call.              *)
AnswerFits ==
  /\ Answered("exact") => answer = S!ExactMatch(call.of.p, call.of.response)
  /\ Answered("steps") => answer = S!Stepwise(call.of.steps, call.of.given)
  /\ Answered("rubric") /\ S!RubricParses(call.of.rubric) => answer = S!AIScore(call.of.rubric, call.of.reply)
  /\ Answered("math") => answer = S!MathScore(call.of.p, call.of.response)
  /\ Answered("shadow") /\ S!RubricParses(call.of.rubric) => answer = S!Benchmark(call.of.rubric, call.of.cases, 1)
  /\ Answered("record") =>
       answer = S!Recorded(S!Mark(0, <<<<"first", "A">>>>, 10), call.of.choice, call.of.bindings, call.of.selected)

\* Every call that is chosen is one that the scorers are made for.
LEMMA CallsFit == Init => CallFits /\ AnswerFits
<1> SUFFICES ASSUME Init PROVE CallFits /\ AnswerFits
  OBVIOUS
<1>1. AnswerFits
  <2>1. answer = NONE
    BY DEF Init, InitPapers, InitMarks, InitTemplates, InitValues, InitStatistics, Call
  <2> QED
    BY <2>1 DEF AnswerFits, Answered
<1>2. CASE InitPapers
  BY <1>1, <1>2 DEF InitPapers, Call, CallFits
<1>3. CASE InitMarks
  <2>1. CASE \E form \in Forms : \E a \in Answers(form), r \in Responses(form), norm \in Norms, perItem \in BOOLEAN :
               Call("exact", [p |-> [form |-> form, answer |-> a, norm |-> norm, perItem |-> perItem], response |-> r])
    BY <1>1, <2>1, ExactAssumption DEF Call, CallFits
  <2>2. CASE \E steps \in StepLists, given \in Given : Call("steps", [steps |-> steps, given |-> given])
    BY <1>1, <2>2 DEF Call, CallFits
  <2>3. CASE \E rubric \in Rubrics, reply \in Replies : Call("rubric", [rubric |-> rubric, reply |-> reply])
    BY <1>1, <2>3 DEF Call, CallFits
  <2>4. CASE \E p \in MathAnswers, r \in MathResponses : Call("math", [p |-> p, response |-> r])
    BY <1>1, <2>4 DEF Call, CallFits
  <2>5. CASE \E rubric \in Rubrics, cases \in Cases : Call("shadow", [rubric |-> rubric, cases |-> cases])
    BY <1>1, <2>5 DEF Call, CallFits
  <2>6. CASE \E b \in Bindings, selected \in Choices, choice \in BOOLEAN :
               Call("record", [bindings |-> b, selected |-> selected, choice |-> choice])
    BY <1>1, <2>6 DEF Call, CallFits
  <2> QED
    BY <1>3, <2>1, <2>2, <2>3, <2>4, <2>5, <2>6 DEF InitMarks
<1>4. CASE InitTemplates
  BY <1>1, <1>4 DEF InitTemplates, Call, CallFits
<1>5. CASE InitValues
  <2>1. \E of : call = [kind |-> "values", of |-> of] \/ call = [kind |-> "wholes", of |-> of]
                \/ call = [kind |-> "conversion", of |-> of] \/ call = [kind |-> "intervals", of |-> of]
    BY <1>5 DEF InitValues, Call
  <2> QED
    BY <1>1, <2>1 DEF CallFits
<1>6. CASE InitStatistics
  BY <1>1, <1>6 DEF InitStatistics, Call, CallFits
<1> QED
  BY <1>1, <1>2, <1>3, <1>4, <1>5, <1>6 DEF Init

\* A call is answered by its own handler and never becomes another call.
LEMMA AnswersFit == CallFits /\ AnswerFits /\ [Next]_vars => (CallFits /\ AnswerFits)'
<1> SUFFICES ASSUME CallFits, AnswerFits, [Next]_vars PROVE (CallFits /\ AnswerFits)'
  OBVIOUS
<1>1. CASE UNCHANGED vars
  BY <1>1 DEF vars, CallFits, AnswerFits, Answered
<1>2. ASSUME Next PROVE call' = call
  BY <1>2, Zenon DEF Next, Answer, Paper, Table, MeasurementPaper, Listening, Band, Exact, Steps, Rubric, Math, Shadow,
       Record, Expression, Items, Variants, Solvable, Values, WholeNumbers, Conversion, Intervals, ItemNumbers,
       Health, Coverage, Rescore
<1>3. ASSUME Next PROVE CallFits'
  BY <1>2, <1>3 DEF CallFits
<1>4. ASSUME Exact PROVE AnswerFits'
  BY <1>2, <1>4 DEF Exact, Answer, AnswerFits, Answered
<1>5. ASSUME Steps PROVE AnswerFits'
  BY <1>5 DEF Steps, Answer, AnswerFits, Answered
<1>6. ASSUME Rubric PROVE AnswerFits'
  BY <1>6 DEF Rubric, Answer, AnswerFits, Answered
<1>7. ASSUME Math PROVE AnswerFits'
  BY <1>7 DEF Math, Answer, AnswerFits, Answered
<1>8. ASSUME Shadow PROVE AnswerFits'
  BY <1>8 DEF Shadow, Answer, AnswerFits, Answered
<1>9. ASSUME Record PROVE AnswerFits'
  BY <1>9 DEF Record, Answer, AnswerFits, Answered
<1>10. ASSUME Paper \/ Table \/ MeasurementPaper \/ Listening \/ Band PROVE AnswerFits'
  <2>1. call' = call /\ call.kind \in {"paper", "table", "measurement", "listening", "band"}
    BY <1>10, Zenon DEF Paper, Table, MeasurementPaper, Listening, Band, Answer
  <2> QED
    BY <2>1 DEF AnswerFits, Answered
<1>11. ASSUME Expression \/ Items \/ Variants \/ Solvable PROVE AnswerFits'
  <2>1. call' = call /\ call.kind \in {"expression", "items", "variants", "solvable"}
    BY <1>11, Zenon DEF Expression, Items, Variants, Solvable, Answer
  <2> QED
    BY <2>1 DEF AnswerFits, Answered
<1>12. ASSUME Values \/ WholeNumbers \/ Conversion \/ Intervals PROVE AnswerFits'
  <2>1. call' = call /\ call.kind \in {"values", "wholes", "conversion", "intervals"}
    BY <1>12, Zenon DEF Values, WholeNumbers, Conversion, Intervals, Answer
  <2> QED
    BY <2>1 DEF AnswerFits, Answered
<1>13. ASSUME ItemNumbers \/ Health \/ Coverage \/ Rescore PROVE AnswerFits'
  <2>1. call' = call /\ call.kind \in {"statistics", "health", "coverage", "rescore"}
    BY <1>13, Zenon DEF ItemNumbers, Health, Coverage, Rescore, Answer
  <2> QED
    BY <2>1 DEF AnswerFits, Answered
<1>14. ASSUME Next PROVE AnswerFits'
  BY <1>4, <1>5, <1>6, <1>7, <1>8, <1>9, <1>10, <1>11, <1>12, <1>13, <1>14 DEF Next
<1> QED
  BY <1>1, <1>3, <1>14

\* A rubric that the parser takes is one that can be marked.
LEMMA ParsedIsMarkable ==
  ASSUME NEW rubric \in Rubrics, S!RubricParses(rubric)
  PROVE  rubric \in Seq(Dimensions) /\ rubric # <<>> /\ Markable(rubric)
BY RubricsAssumption DEF S!RubricParses, Markable

\* What the scorers answer is the mark of the response.
LEMMA AnswersAreMarks == CallFits /\ AnswerFits => MarksFaithful
<1> SUFFICES ASSUME CallFits, AnswerFits PROVE MarksFaithful
  OBVIOUS
<1>1. ASSUME Answered("exact") PROVE S!ExactlyTheAnswer(call.of.p, call.of.response, answer)
  <2>1. /\ ExactFits(call.of.p.form, call.of.p.answer, call.of.response) /\ call.of.p.perItem \in BOOLEAN
        /\ answer = S!ExactMatch(call.of.p, call.of.response)
    BY <1>1 DEF CallFits, AnswerFits, Answered
  <2> QED
    BY <2>1, ExactAnswers
<1>2. ASSUME Answered("steps") PROVE S!StepsCount(call.of.steps, call.of.given, answer)
  <2>1. /\ call.of.steps \in StepLists /\ call.of.given \in Given
        /\ answer = S!Stepwise(call.of.steps, call.of.given)
    BY <1>2 DEF CallFits, AnswerFits, Answered
  <2> QED
    BY <2>1, StepsAssumption, StepwiseCounts
<1>3. ASSUME Answered("rubric"), S!RubricParses(call.of.rubric)
      PROVE  S!ReviewedWhenUnsure(call.of.rubric, call.of.reply, answer)
  <2>1. /\ call.of.rubric \in Rubrics /\ call.of.reply \in Replies
        /\ answer = S!AIScore(call.of.rubric, call.of.reply)
    BY <1>3 DEF CallFits, AnswerFits, Answered
  <2>2. Markable(call.of.rubric) /\ call.of.reply \in {NONE} \cup Seq(Opinions)
    BY <1>3, <2>1, ParsedIsMarkable, RepliesAssumption
  <2> QED
    BY <2>1, <2>2, ModelScores
<1>4. ASSUME Answered("math") PROVE S!SameQuantity(call.of.p, call.of.response, answer)
  <2>1. /\ call.of.p \in MathAnswers /\ call.of.response \in MathResponses
        /\ answer = S!MathScore(call.of.p, call.of.response)
    BY <1>4 DEF CallFits, AnswerFits, Answered
  <2>2. MathFits(call.of.p, call.of.response)
    BY <2>1, MathAssumption
  <2> QED
    BY <2>1, <2>2, QuantityFaithful
<1>5. ASSUME Answered("shadow"), S!RubricParses(call.of.rubric) PROVE S!ShadowHonest(call.of.cases, 1, answer)
  <2>1. /\ call.of.rubric \in Rubrics /\ call.of.cases \in Cases
        /\ answer = S!Benchmark(call.of.rubric, call.of.cases, 1)
    BY <1>5 DEF CallFits, AnswerFits, Answered
  <2>2. call.of.rubric \in Seq(Dimensions) /\ call.of.rubric # <<>>
    BY <1>5, <2>1, ParsedIsMarkable
  <2> QED
    BY <2>1, <2>2, CasesAssumption, ShadowCounts
<1>6. ASSUME Answered("record") PROVE \A i, j \in DOMAIN answer.errors : answer.errors[i] = answer.errors[j] => i = j
  <2> DEFINE cause == <<"first", "A">>
  <2>1. /\ call.of.bindings \in Bindings /\ call.of.choice \in BOOLEAN
        /\ answer = S!Recorded(S!Mark(0, <<cause>>, 10), call.of.choice, call.of.bindings, call.of.selected)
    BY <1>6 DEF CallFits, AnswerFits, Answered
  <2>2. Listed(call.of.bindings)
    BY <2>1, BindingsAssumption
  <2> HIDE DEF cause
  <2> QED
    BY <2>1, <2>2, RecordsOnce
<1> QED
  BY <1>1, <1>2, <1>3, <1>4, <1>5, <1>6 DEF MarksFaithful

\* A mark of any scorer is the mark of the response, for every answer, step,
\* rubric, reply of the model, quantity and case that the assumptions admit
\* (scoring/).
THEOREM MarksAreFaithful == Spec => []MarksFaithful
<1>1. Init => CallFits /\ AnswerFits
  BY CallsFit
<1>2. CallFits /\ AnswerFits /\ [Next]_vars => (CallFits /\ AnswerFits)'
  BY AnswersFit
<1>3. CallFits /\ AnswerFits => MarksFaithful
  BY AnswersAreMarks
<1> QED
  BY <1>1, <1>2, <1>3, PTL DEF Spec

-----------------------------------------------------------------------------
\* The sizes of parts without common members add up to the size of the whole.
LEMMA SumOfParts ==
  ASSUME NEW n \in Nat, NEW X, IsFiniteSet(X), NEW g \in [1..n -> SUBSET X],
         \A i, j \in 1..n : i # j => g[i] \cap g[j] = {},
         NEW s \in [1..n -> Int], \A i \in 1..n : s[i] = Cardinality(g[i])
  PROVE  S!Total(s) = Cardinality(UNION {g[i] : i \in 1..n})
<1> DEFINE W(k) == UNION {g[i] : i \in 1..k}
<1>1. PICK u \in [0..n -> Int] : u[0] = 0 /\ (\A k \in 1..n : u[k] = u[k - 1] + s[k]) /\ S!Total(s) = u[n]
  BY TotalSteps
<1> DEFINE T == {k \in 0..n : u[k] = Cardinality(W(k))}
<1>2. 0 \in T
  <2>1. W(0) = {}
    OBVIOUS
  <2>2. u[0] = Cardinality(W(0))
    BY <2>1, <1>1, FS_EmptySet
  <2> QED
    BY <2>2
<1>3. ASSUME NEW k \in 1..n, k - 1 \in T PROVE k \in T
  <2>1. W(k) = W(k - 1) \cup g[k]
    <3>1. \A i \in 1..k : i = k \/ i \in 1..(k - 1)
      OBVIOUS
    <3>2. \A i \in 1..(k - 1) : i \in 1..k
      OBVIOUS
    <3>3. k \in 1..k
      OBVIOUS
    <3> QED
      BY <3>1, <3>2, <3>3
  <2>2. W(k - 1) \cap g[k] = {}
    <3>1. \A i \in 1..(k - 1) : i \in 1..n /\ i # k
      OBVIOUS
    <3> QED
      BY <3>1
  <2>3. IsFiniteSet(W(k - 1)) /\ IsFiniteSet(g[k])
    <3>1. g[k] \in SUBSET X /\ W(k - 1) \in SUBSET X
      <4>1. \A i \in 1..(k - 1) : i \in 1..n
        OBVIOUS
      <4> QED
        BY <4>1
    <3> HIDE DEF W
    <3> QED
      BY <3>1, FS_Subset
  <2> HIDE DEF W
  <2>4. Cardinality(W(k)) = Cardinality(W(k - 1)) + Cardinality(g[k])
    <3>1. Cardinality(W(k - 1) \cup g[k]) = Cardinality(W(k - 1)) + Cardinality(g[k]) - Cardinality(W(k - 1) \cap g[k])
      BY <2>3, FS_Union
    <3>2. Cardinality(W(k - 1) \cap g[k]) = 0
      BY <2>2, FS_EmptySet
    <3>3. Cardinality(W(k - 1)) \in Nat /\ Cardinality(g[k]) \in Nat
      BY <2>3, FS_CardinalityType
    <3> QED
      BY <2>1, <3>1, <3>2, <3>3
  <2> QED
    BY <1>1, <1>3, <2>4
<1>4. n \in T
  <2>1. n \in 0..n
    OBVIOUS
  <2> HIDE DEF T
  <2>2. \A k \in 0..n : k \in T
    BY <1>2, <1>3, CountingUp
  <2> QED
    BY <2>1, <2>2
<1> QED
  BY <1>1, <1>4

-----------------------------------------------------------------------------
\* A list that has nothing twice is as long as it has members.
LEMMA HeldOnce ==
  ASSUME NEW X, NEW q \in Seq(X)
  PROVE  /\ Held(q) \in SUBSET X /\ IsFiniteSet(Held(q)) /\ Len(q) \in Nat
         /\ Cardinality(Held(q)) <= Len(q)
         /\ NothingTwice(q) <=> Cardinality(Held(q)) = Len(q)
<1>1. Len(q) \in Nat /\ q \in [1..Len(q) -> X]
  BY LenProperties
<1>2. q \in Surjection(1..Len(q), Held(q))
  <2>1. q \in [1..Len(q) -> Held(q)]
    BY <1>1 DEF Held
  <2> QED
    BY <2>1 DEF Held, Surjection
<1>3. IsFiniteSet(1..Len(q)) /\ Cardinality(1..Len(q)) = Len(q)
  BY <1>1, FS_Interval
<1>4. /\ IsFiniteSet(Held(q)) /\ Cardinality(Held(q)) <= Len(q)
      /\ Cardinality(Held(q)) = Len(q) <=> q \in Injection(1..Len(q), Held(q))
  BY <1>2, <1>3, FS_Surjection
<1>5. q \in Injection(1..Len(q), Held(q)) <=> NothingTwice(q)
  <2>1. q \in [1..Len(q) -> Held(q)]
    BY <1>2 DEF Surjection
  <2>2. q \in Injection(1..Len(q), Held(q)) <=> \A i, j \in 1..Len(q) : q[i] = q[j] => i = j
    BY <2>1 DEF Injection, IsInjective
  <2> QED
    BY <2>2 DEF NothingTwice
<1>6. Held(q) \in SUBSET X
  BY <1>1 DEF Held
<1> QED
  BY <1>1, <1>4, <1>5, <1>6

-----------------------------------------------------------------------------
\* Papers are counted and added up as marks are.
LEMMA SameTotal == ASSUME NEW q PROVE A!Total(q) = S!Total(q) /\ M!Total(q) = S!Total(q)
  BY Zenon DEF A!Total, M!Total, S!Total
LEMMA SameFlat == ASSUME NEW q PROVE A!FlattenSeq(q) = S!FlattenSeq(q) /\ M!FlattenSeq(q) = S!FlattenSeq(q)
  BY Zenon DEF A!FlattenSeq, M!FlattenSeq, S!FlattenSeq
LEMMA SameSize == ASSUME NEW As PROVE A!Cardinality(As) = Cardinality(As) /\ M!Cardinality(As) = Cardinality(As)
  BY Zenon DEF A!Cardinality, M!Cardinality, Cardinality
LEMMA SameEnds ==
  ASSUME NEW As
  PROVE  A!Max(As) = S!Max(As) /\ A!Min(As) = S!Min(As) /\ M!Max(As) = S!Max(As) /\ M!Min(As) = S!Min(As)
  BY Zenon DEF A!Max, A!Min, M!Max, M!Min, S!Max, S!Min

\* The members of a finite set by a strict order: each of them once, and one
\* that comes before another is before it.
LEMMA Ordered ==
  ASSUME NEW Us, IsFiniteSet(Us), NEW before,
         \A x \in Us : <<x, x>> \notin before,
         \A x, y \in Us : x # y => <<x, y>> \in before \/ <<y, x>> \in before,
         \A x, y, z \in Us : <<x, y>> \in before /\ <<y, z>> \in before => <<x, z>> \in before
  PROVE  /\ A!InOrder(Us, before) \in Seq(Us) /\ Held(A!InOrder(Us, before)) = Us /\ NothingTwice(A!InOrder(Us, before))
         /\ \A i, j \in 1..Len(A!InOrder(Us, before)) :
              i < j => <<A!InOrder(Us, before)[i], A!InOrder(Us, before)[j]>> \in before
<1> DEFINE n == Cardinality(Us)
           Below(x) == {y \in Us : <<y, x>> \in before}
           place == [x \in Us |-> Cardinality(Below(x))]
           Nth(i) == CHOOSE x \in Us : Cardinality(Below(x)) = i - 1
           o == [i \in 1..n |-> Nth(i)]
<1>1. n \in Nat
  BY FS_CardinalityType
<1>2. ASSUME NEW x \in Us
      PROVE  IsFiniteSet(Below(x)) /\ place[x] \in 0..(n - 1)
  <2>1. Below(x) \in SUBSET Us /\ Below(x) # Us
    OBVIOUS
  <2>2. place[x] = Cardinality(Below(x))
    OBVIOUS
  <2> HIDE DEF Below, place
  <2>3. IsFiniteSet(Below(x)) /\ Cardinality(Below(x)) <= n /\ Cardinality(Below(x)) # n
    BY <2>1, FS_Subset
  <2>4. Cardinality(Below(x)) \in Nat
    BY <2>3, FS_CardinalityType
  <2> QED
    BY <1>1, <2>2, <2>3, <2>4
<1>3. ASSUME NEW x \in Us, NEW y \in Us, <<x, y>> \in before PROVE place[x] < place[y]
  <2>1. Below(x) \in SUBSET Below(y)
    BY <1>3
  <2>2. x \in Below(y) /\ x \notin Below(x)
    BY <1>3
  <2>3. place[x] = Cardinality(Below(x)) /\ place[y] = Cardinality(Below(y))
    OBVIOUS
  <2>4. IsFiniteSet(Below(y)) /\ place[x] \in Nat /\ place[y] \in Nat
    <3>1. place[x] \in 0..(n - 1) /\ place[y] \in 0..(n - 1) /\ IsFiniteSet(Below(y))
      BY <1>2
    <3> QED
      BY <1>1, <3>1
  <2> HIDE DEF Below, place
  <2>5. Cardinality(Below(x)) <= Cardinality(Below(y)) /\ Cardinality(Below(x)) # Cardinality(Below(y))
    BY <2>1, <2>2, <2>4, FS_Subset
  <2> QED
    BY <2>3, <2>4, <2>5
<1>4. ASSUME NEW x \in Us, NEW y \in Us, place[x] = place[y] PROVE x = y
  <2>1. place[x] \in 0..(n - 1)
    BY <1>2
  <2>2. ~(place[x] < place[y])
    <3> HIDE DEF place
    <3> QED
      BY <1>1, <1>4, <2>1
  <2>3. ~(place[y] < place[x])
    <3> HIDE DEF place
    <3> QED
      BY <1>1, <1>4, <2>1
  <2> HIDE DEF place
  <2> QED
    BY <1>3, <2>2, <2>3
<1>5. place \in Injection(Us, 0..(n - 1))
  <2>1. place \in [Us -> 0..(n - 1)]
    <3>1. \A x \in Us : place[x] \in 0..(n - 1)
      BY <1>2
    <3>2. place = [x \in Us |-> place[x]]
      OBVIOUS
    <3> HIDE DEF place
    <3> QED
      BY <3>1, <3>2
  <2> HIDE DEF place
  <2> QED
    BY <1>4, <2>1 DEF Injection, IsInjective
<1>6. \A k \in 0..(n - 1) : \E x \in Us : place[x] = k
  <2>1. IsFiniteSet(0..(n - 1)) /\ Cardinality(0..(n - 1)) = n
    <3>1. 0 \in Int /\ n - 1 \in Int
      BY <1>1
    <3>2. IsFiniteSet(0..(n - 1)) /\ Cardinality(0..(n - 1)) = IF 0 > n - 1 THEN 0 ELSE (n - 1) - 0 + 1
      <4> HIDE DEF n
      <4> QED
        BY <3>1, FS_Interval
    <3> HIDE DEF n
    <3> QED
      BY <1>1, <3>2
  <2>2. place \in Surjection(Us, 0..(n - 1))
    <3> HIDE DEF place
    <3> QED
      BY <1>5, <2>1, FS_Injection
  <2> HIDE DEF place
  <2> QED
    BY <2>2 DEF Surjection
<1>7. A!InOrder(Us, before) = o
  BY Zenon DEF A!InOrder, A!Cardinality, Cardinality
<1>8. ASSUME NEW i \in 1..n PROVE o[i] \in Us /\ place[o[i]] = i - 1
  <2>1. i - 1 \in 0..(n - 1)
    BY <1>1
  <2>2. \E x \in Us : place[x] = i - 1
    <3> HIDE DEF place, n
    <3> QED
      BY <1>6, <2>1
  <2>3. o[i] = CHOOSE x \in Us : Cardinality(Below(x)) = i - 1
    OBVIOUS
  <2>4. \A x \in Us : place[x] = Cardinality(Below(x))
    OBVIOUS
  <2> HIDE DEF o, place, Below
  <2> QED
    BY <2>2, <2>3, <2>4
<1>9. o \in [1..n -> Us] /\ DOMAIN o = 1..n
  <2>1. \A i \in 1..n : o[i] = Nth(i)
    OBVIOUS
  <2>2. \A i \in 1..n : Nth(i) \in Us
    <3> HIDE DEF Nth, o, n
    <3> QED
      BY <1>8, <2>1
  <2> HIDE DEF Nth, n
  <2> QED
    BY <2>2
<1>10. o \in Seq(Us) /\ Len(o) = n
  <2> HIDE DEF o
  <2> QED
    BY <1>1, <1>9
<1>11. Held(o) = Us
  <2>1. ASSUME NEW x \in Us PROVE \E i \in 1..n : o[i] = x
    <3>1. place[x] \in 0..(n - 1)
      BY <1>2
    <3> DEFINE i == place[x] + 1
    <3>2. i \in 1..n /\ i - 1 = place[x]
      <4> HIDE DEF place, n
      <4> QED
        BY <3>1, <1>1
    <3>3. o[i] \in Us /\ place[o[i]] = place[x]
      <4> HIDE DEF o, place, i
      <4> QED
        BY <3>2, <1>8
    <3>4. o[i] = x
      <4> HIDE DEF o, place, i
      <4> QED
        BY <3>3, <1>4
    <3> HIDE DEF o, i
    <3> QED
      BY <3>2, <3>4
  <2>2. \A i \in 1..n : o[i] \in Us
    BY <1>8
  <2> HIDE DEF o
  <2> QED
    BY <1>10, <2>1, <2>2 DEF Held
<1>12. ASSUME NEW i \in 1..n, NEW j \in 1..n, o[i] = o[j] PROVE i = j
  <2>1. i - 1 = j - 1
    <3>1. place[o[i]] = i - 1 /\ place[o[j]] = j - 1
      BY <1>8
    <3> HIDE DEF place, o
    <3> QED
      BY <1>12, <3>1
  <2> QED
    BY <1>1, <2>1
<1>13. ASSUME NEW i \in 1..n, NEW j \in 1..n, i < j PROVE <<o[i], o[j]>> \in before
  <2>1. o[i] \in Us /\ place[o[i]] = i - 1 /\ o[j] \in Us /\ place[o[j]] = j - 1
    BY <1>8
  <2>2. o[i] # o[j]
    <3>1. i # j
      BY <1>1, <1>13
    <3> HIDE DEF place, o, n
    <3> QED
      BY <1>12, <3>1
  <2>3. ~(place[o[j]] < place[o[i]])
    <3>1. ~(j - 1 < i - 1)
      BY <1>1, <1>13
    <3> HIDE DEF place, o
    <3> QED
      BY <2>1, <3>1
  <2> HIDE DEF place, o
  <2> QED
    BY <2>1, <2>2, <2>3, <1>3
<1> HIDE DEF o, n
<1> QED
  BY <1>7, <1>10, <1>11, <1>12, <1>13 DEF NothingTwice

-----------------------------------------------------------------------------
(* A unit holds some of the candidates, each once, and is what they are.   *)
Holding(Es, Ms, u) ==
  /\ u.members \in Seq(Es) /\ Held(u.members) = Ms /\ NothingTwice(u.members)
  /\ u.kps = UNION {m.kps : m \in Ms} /\ u.templates = {m.template : m \in Ms} \ {NONE}
  /\ u.isolated <=> Cardinality(Ms) = 1 /\ \A m \in Ms : A!Isolated(m)

\* What a unit of some of the candidates holds.
LEMMA UnitHolds ==
  ASSUME NEW Es, PoolFits(Es), NEW Ms \in SUBSET Es, NEW r, NEW u, u = A!Unit(Ms, r)
  PROVE  Holding(Es, Ms, u) /\ u.rank = r
<1> DEFINE before == {e \in Ms \X Ms : Rank[e[1].id] < Rank[e[2].id]}
<1>1. IsFiniteSet(Ms)
  BY FS_Subset DEF PoolFits
<1>2. \A x, y \in Ms : /\ x.id \in DOMAIN Rank /\ Rank[x.id] \in Int /\ (Rank[x.id] = Rank[y.id] => x = y)
                       /\ <<x, y>> \in before <=> Rank[x.id] < Rank[y.id]
  BY RankAssumption DEF PoolFits
<1>3. A!Ranked(Ms) = A!InOrder(Ms, before)
  BY DEF A!Ranked
<1> HIDE DEF before
<1>4. \A x \in Ms : <<x, x>> \notin before
  BY <1>2
<1>5. \A x, y \in Ms : x # y => <<x, y>> \in before \/ <<y, x>> \in before
  BY <1>2
<1>6. ASSUME NEW x \in Ms, NEW y \in Ms, NEW z \in Ms, <<x, y>> \in before, <<y, z>> \in before
      PROVE  <<x, z>> \in before
  <2>1. Rank[x.id] < Rank[y.id] /\ Rank[y.id] < Rank[z.id]
    BY <1>2, <1>6
  <2>2. Rank[x.id] \in Int /\ Rank[y.id] \in Int /\ Rank[z.id] \in Int
    BY <1>2
  <2>3. Rank[x.id] < Rank[z.id]
    BY <2>1, <2>2
  <2> QED
    BY <1>2, <2>3
<1>7. A!Ranked(Ms) \in Seq(Ms) /\ Held(A!Ranked(Ms)) = Ms /\ NothingTwice(A!Ranked(Ms))
  BY <1>1, <1>3, <1>4, <1>5, <1>6, Ordered
<1>8. A!Ranked(Ms) \in Seq(Es)
  BY <1>7
<1>9. /\ u.members = A!Ranked(Ms) /\ u.rank = r /\ u.kps = UNION {m.kps : m \in Ms}
      /\ u.templates = {m.template : m \in Ms} \ {NONE}
      /\ u.isolated = (A!Cardinality(Ms) = 1 /\ \A m \in Ms : A!Isolated(m))
  BY DEF A!Unit
<1> QED
  BY <1>7, <1>8, <1>9, SameSize DEF Holding

(* The unit that a candidate is in, if it is in one.                       *)
UnitOf(Es, x) ==
  IF x.group = NONE THEN A!Unit({x}, Rank[x.id]) ELSE A!Unit(A!InGroup(Es, x.group), Rank[x.group])

(* What is so of a unit: it holds one single candidate or all of a group.  *)
UnitFits(Es, u) ==
  /\ u.members \in Seq(Es) /\ NothingTwice(u.members) /\ Held(u.members) # {}
  /\ \A x \in Held(u.members) :
       /\ u = UnitOf(Es, x)
       /\ x.group = NONE => Held(u.members) = {x}
       /\ x.group # NONE => Held(u.members) = A!InGroup(Es, x.group)
  /\ u.kps = UNION {m.kps : m \in Held(u.members)}
  /\ u.templates = {m.template : m \in Held(u.members)} \ {NONE}
  /\ u.isolated <=> Cardinality(Held(u.members)) = 1 /\ \A m \in Held(u.members) : A!Isolated(m)

\* The unit of a candidate holds it alone or what there is of its group.
LEMMA OwnUnit ==
  ASSUME NEW Es, PoolFits(Es), NEW x \in Es
  PROVE  /\ x.group = NONE => UnitOf(Es, x).rank = Rank[x.id] /\ Held(UnitOf(Es, x).members) = {x}
         /\ x.group # NONE =>
              UnitOf(Es, x).rank = Rank[x.group] /\ Held(UnitOf(Es, x).members) = A!InGroup(Es, x.group)
<1> DEFINE u == UnitOf(Es, x)
           Ms == IF x.group = NONE THEN {x} ELSE A!InGroup(Es, x.group)
           r == IF x.group = NONE THEN Rank[x.id] ELSE Rank[x.group]
<1>1. Ms \in SUBSET Es
  BY DEF A!InGroup
<1>2. u = A!Unit(Ms, r)
  BY DEF UnitOf
<1>3. Holding(Es, Ms, u) /\ u.rank = r
  <2> HIDE DEF u, Ms, r
  <2> QED
    BY <1>1, <1>2, UnitHolds
<1> HIDE DEF u
<1>4. Held(u.members) = Ms /\ u.rank = r
  BY <1>3 DEF Holding
<1> QED
  BY <1>4 DEF u

\* Every unit is that of each of its members.
LEMMA UnitsFit ==
  ASSUME NEW Es, PoolFits(Es), NEW u \in A!UnitsOf(Es)
  PROVE  UnitFits(Es, u)
<1>1. CASE \E x \in Es : x.group = NONE /\ u = A!Unit({x}, Rank[x.id])
  <2>1. PICK x \in Es : x.group = NONE /\ u = A!Unit({x}, Rank[x.id])
    BY <1>1
  <2>2. /\ u.members \in Seq(Es) /\ Held(u.members) = {x} /\ NothingTwice(u.members)
        /\ u.kps = UNION {m.kps : m \in {x}} /\ u.templates = {m.template : m \in {x}} \ {NONE}
        /\ u.isolated <=> Cardinality({x}) = 1 /\ \A m \in {x} : A!Isolated(m)
    <3> DEFINE Ms == {x}
               r == Rank[x.id]
    <3>1. Ms \in SUBSET Es /\ u = A!Unit(Ms, r)
      BY <2>1
    <3> HIDE DEF Ms, r
    <3>2. Holding(Es, Ms, u)
      BY <3>1, UnitHolds
    <3> QED
      BY <3>2 DEF Ms, Holding
  <2>3. UnitOf(Es, x) = u
    BY <2>1 DEF UnitOf
  <2> QED
    BY <2>1, <2>2, <2>3 DEF UnitFits
<1>2. CASE \E g : g # NONE /\ A!InGroup(Es, g) # {} /\ u = A!Unit(A!InGroup(Es, g), Rank[g])
  <2>1. PICK g : g # NONE /\ A!InGroup(Es, g) # {} /\ u = A!Unit(A!InGroup(Es, g), Rank[g])
    BY <1>2
  <2> DEFINE Ms == A!InGroup(Es, g)
  <2>2. Ms \in SUBSET Es /\ \A x \in Ms : x.group = g
    BY DEF A!InGroup
  <2>3. /\ u.members \in Seq(Es) /\ Held(u.members) = Ms /\ NothingTwice(u.members)
        /\ u.kps = UNION {m.kps : m \in Ms} /\ u.templates = {m.template : m \in Ms} \ {NONE}
        /\ u.isolated <=> Cardinality(Ms) = 1 /\ \A m \in Ms : A!Isolated(m)
    <3> DEFINE r == Rank[g]
    <3>1. Ms \in SUBSET Es /\ u = A!Unit(Ms, r)
      BY <2>1, <2>2
    <3> HIDE DEF Ms, r
    <3>2. Holding(Es, Ms, u)
      BY <3>1, UnitHolds
    <3> QED
      BY <3>2 DEF Holding
  <2>4. \A x \in Ms : UnitOf(Es, x) = u
    BY <2>1, <2>2 DEF UnitOf
  <2> QED
    BY <2>1, <2>2, <2>3, <2>4 DEF UnitFits
<1>3. ASSUME NEW g \in A!GroupsOf(Es) PROVE g # NONE /\ A!InGroup(Es, g) # {}
  BY <1>3 DEF A!GroupsOf, A!InGroup
<1> QED
  BY <1>1, <1>2, <1>3 DEF A!UnitsOf, A!InGroup

\* The list of units has every unit; two units have no common member; and
\* without groups that are too large every candidate is in one.
LEMMA UnitsListed ==
  ASSUME NEW Es, PoolFits(Es)
  PROVE  /\ A!Units(Es) \in Seq(A!UnitsOf(Es)) /\ Held(A!Units(Es)) = A!UnitsOf(Es)
         /\ \A u, v \in A!UnitsOf(Es) : u # v => Held(u.members) \cap Held(v.members) = {}
         /\ A!Oversized(Es) = {} =>
              \A x \in Es : UnitOf(Es, x) \in A!UnitsOf(Es) /\ x \in Held(UnitOf(Es, x).members)
<1> DEFINE Us == A!UnitsOf(Es)
           before == {e \in Us \X Us : e[1].rank < e[2].rank}
           unit == [x \in Es |-> UnitOf(Es, x)]
           Found == {unit[x] : x \in Es}
<1>1. \A u \in Us : UnitFits(Es, u)
  BY UnitsFit
<1>2. \A u, v \in Us : u # v => Held(u.members) \cap Held(v.members) = {}
  BY <1>1 DEF UnitFits
<1>3. IsFiniteSet(Us)
  <2>1. unit \in Surjection(Es, Found)
    BY DEF Surjection
  <2>2. IsFiniteSet(Es)
    BY DEF PoolFits
  <2>3. IsFiniteSet(Found)
    <3> HIDE DEF unit, Found
    <3> QED
      BY <2>1, <2>2, FS_Surjection
  <2>4. Us \in SUBSET Found
    <3>1. ASSUME NEW u \in Us PROVE \E x \in Es : u = UnitOf(Es, x)
      <4>1. UnitFits(Es, u)
        BY <1>1
      <4>2. PICK x \in Held(u.members) : u = UnitOf(Es, x)
        BY <4>1 DEF UnitFits
      <4>3. x \in Es
        BY <4>1 DEF UnitFits, Held
      <4> QED
        BY <4>2, <4>3
    <3> HIDE DEF Us
    <3> QED
      BY <3>1
  <2> HIDE DEF Us, Found
  <2> QED
    BY <2>3, <2>4, FS_Subset
<1>4. ASSUME NEW x \in Es
      PROVE  /\ x.group = NONE => UnitOf(Es, x).rank = Rank[x.id] /\ x.id \in DOMAIN Rank
             /\ x.group # NONE => UnitOf(Es, x).rank = Rank[x.group] /\ x.group \in DOMAIN Rank
             /\ UnitOf(Es, x).rank \in Int
  <2>1. x.id \in DOMAIN Rank /\ x.group \in DOMAIN Rank \cup {NONE}
    BY DEF PoolFits
  <2>2. CASE x.group = NONE
    <3>1. UnitOf(Es, x).rank = Rank[x.id]
      BY <2>2, OwnUnit
    <3> QED
      BY <2>1, <2>2, <3>1, RankAssumption
  <2>3. CASE x.group # NONE
    <3>1. UnitOf(Es, x).rank = Rank[x.group]
      BY <2>3, OwnUnit
    <3> QED
      BY <2>1, <2>3, <3>1, RankAssumption
  <2> QED
    BY <2>2, <2>3
<1>5. ASSUME NEW u \in Us, NEW v \in Us PROVE u.rank \in Int /\ v.rank \in Int /\ (u.rank = v.rank => u = v)
  <2>1. PICK x \in Es : u = UnitOf(Es, x)
    <3>1. UnitFits(Es, u)
      BY <1>1
    <3> QED
      BY <3>1 DEF UnitFits, Held
  <2>2. PICK y \in Es : v = UnitOf(Es, y)
    <3>1. UnitFits(Es, v)
      BY <1>1
    <3> QED
      BY <3>1 DEF UnitFits, Held
  <2>3. u.rank \in Int /\ v.rank \in Int
    BY <1>4, <2>1, <2>2
  <2>4. x.group # y.id /\ y.group # x.id /\ (x.id = y.id => x = y)
    BY DEF PoolFits
  <2>5. ASSUME u.rank = v.rank PROVE u = v
    <3>1. CASE x.group = NONE /\ y.group = NONE
      BY <1>4, <2>1, <2>2, <2>4, <2>5, <3>1, RankAssumption
    <3>2. CASE x.group # NONE /\ y.group # NONE
      <4>1. x.group = y.group
        BY <1>4, <2>1, <2>2, <2>5, <3>2, RankAssumption
      <4> QED
        BY <3>2, <4>1, <2>1, <2>2 DEF UnitOf
    <3>3. CASE x.group = NONE /\ y.group # NONE
      BY <1>4, <2>1, <2>2, <2>4, <2>5, <3>3, RankAssumption
    <3>4. CASE x.group # NONE /\ y.group = NONE
      BY <1>4, <2>1, <2>2, <2>4, <2>5, <3>4, RankAssumption
    <3> QED
      BY <3>1, <3>2, <3>3, <3>4
  <2> QED
    BY <2>3, <2>5
<1>6. A!Units(Es) = A!InOrder(Us, before)
  BY DEF A!Units
<1>7. \A u, v \in Us : <<u, v>> \in before <=> u.rank < v.rank
  OBVIOUS
<1>8. A!InOrder(Us, before) \in Seq(Us) /\ Held(A!InOrder(Us, before)) = Us
  <2> HIDE DEF Us, before
  <2>1. \A u \in Us : <<u, u>> \notin before
    BY <1>5, <1>7
  <2>2. \A u, v \in Us : u # v => <<u, v>> \in before \/ <<v, u>> \in before
    BY <1>5, <1>7
  <2>3. \A u, v, w \in Us : <<u, v>> \in before /\ <<v, w>> \in before => <<u, w>> \in before
    BY <1>5, <1>7
  <2> QED
    BY <1>3, <2>1, <2>2, <2>3, Ordered
<1>9. ASSUME A!Oversized(Es) = {}, NEW x \in Es
      PROVE  UnitOf(Es, x) \in Us /\ x \in Held(UnitOf(Es, x).members)
  <2>1. CASE x.group = NONE
    <3>1. x \in A!InGroup(Es, NONE) /\ UnitOf(Es, x) = A!Unit({x}, Rank[x.id])
      BY <2>1 DEF A!InGroup, UnitOf
    <3>2. UnitOf(Es, x) \in Us
      BY <3>1 DEF A!UnitsOf
    <3>3. Held(UnitOf(Es, x).members) = {x}
      BY <2>1, OwnUnit
    <3> QED
      BY <3>2, <3>3
  <2>2. CASE x.group # NONE
    <3>1. x.group \in A!GroupsOf(Es) /\ UnitOf(Es, x) = A!Unit(A!InGroup(Es, x.group), Rank[x.group])
      BY <2>2 DEF A!GroupsOf, UnitOf
    <3>2. UnitOf(Es, x) \in Us
      BY <1>9, <3>1 DEF A!UnitsOf
    <3>3. x \in A!InGroup(Es, x.group)
      BY DEF A!InGroup
    <3>4. Held(UnitOf(Es, x).members) = A!InGroup(Es, x.group)
      BY <2>2, OwnUnit
    <3> QED
      BY <3>1, <3>2, <3>3, <3>4
  <2> QED
    BY <2>1, <2>2
<1> QED
  BY <1>2, <1>6, <1>8, <1>9

-----------------------------------------------------------------------------
(* What the solver may ask of a profile that was compiled.                 *)
Compiled(p) ==
  /\ Listed(p.quotas) /\ \A i \in DOMAIN p.quotas : p.quotas[i].least \in Nat \ {0}
  /\ \A i, j \in DOMAIN p.quotas : p.quotas[i].kp = p.quotas[j].kp => p.quotas[i] = p.quotas[j]
  /\ \A tag \in DOMAIN p.mix : p.mix[tag] \in Int
  /\ p.min \in Int /\ (p.soft => "soft_target" \in p.decisions)

(* The selections the solver makes: units, none of them twice, and under   *)
(* the rule on templates no two of them with a common template.            *)
Selections(p, Us) ==
  {t \in Seq(Us) : /\ NothingTwice(t)
                   /\ p.oneTemplate => \A i, j \in 1..Len(t) : i # j => t[i].templates \cap t[j].templates = {}}

\* A unit that is not selected and whose templates are free can be added.
LEMMA OneMore ==
  ASSUME NEW p, NEW Us, NEW t \in Selections(p, Us), NEW u \in Us, ~A!Contains(t, u), A!TemplateFree(p, t, u)
  PROVE  Append(t, u) \in Selections(p, Us) /\ Held(Append(t, u)) = Held(t) \cup {u}
<1> DEFINE a == Append(t, u)
           n == Len(t)
<1>1. t \in Seq(Us) /\ NothingTwice(t) /\ n \in Nat /\ DOMAIN t = 1..n
  BY LenProperties DEF Selections
<1>2. /\ a \in Seq(Us) /\ Len(a) = n + 1 /\ a[n + 1] = u
      /\ \A i \in 1..n : a[i] = t[i]
  BY <1>1, AppendProperties
<1>3. \A i \in 1..n : t[i] # u
  BY DEF A!Contains
<1>4. p.oneTemplate => \A i \in 1..n : t[i].templates \cap u.templates = {}
  BY <1>1 DEF A!TemplateFree
<1>5. p.oneTemplate => \A i, j \in 1..n : i # j => t[i].templates \cap t[j].templates = {}
  BY DEF Selections
<1> HIDE DEF a, n
<1>6. \A i \in 1..(n + 1) : i \in 1..n \/ i = n + 1
  BY <1>1
<1>7. n + 1 \in 1..(n + 1) /\ (n + 1) \notin 1..n /\ \A i \in 1..n : i \in 1..(n + 1)
  BY <1>1
<1>8. NothingTwice(a)
  <2>1. ASSUME NEW i \in 1..(n + 1), NEW j \in 1..(n + 1), a[i] = a[j] PROVE i = j
    BY <1>1, <1>2, <1>3, <1>6, <2>1 DEF NothingTwice, n
  <2> QED
    BY <1>2, <2>1 DEF NothingTwice
<1>9. ASSUME p.oneTemplate, NEW i \in 1..(n + 1), NEW j \in 1..(n + 1), i # j
      PROVE  a[i].templates \cap a[j].templates = {}
  BY <1>2, <1>4, <1>5, <1>6, <1>9
<1>10. Held(a) = Held(t) \cup {u}
  <2>1. \A i \in 1..Len(a) : a[i] \in Held(t) \cup {u}
    BY <1>2, <1>6 DEF Held, n
  <2>2. \A i \in 1..n : t[i] \in Held(a)
    BY <1>2, <1>7 DEF Held
  <2>3. u \in Held(a)
    BY <1>2, <1>7 DEF Held
  <2> QED
    BY <2>1, <2>2, <2>3 DEF Held, n
<1> QED
  BY <1>2, <1>8, <1>9, <1>10 DEF Selections, a

\* What only grows from step to step is at any time part of what it becomes.
LEMMA Growing ==
  ASSUME NEW N \in Nat, NEW h, \A n \in 1..N : h[n - 1] \subseteq h[n]
  PROVE  \A n \in 0..N : \A m \in 0..n : h[m] \subseteq h[n]
<1> DEFINE T == {n \in 0..N : \A m \in 0..n : h[m] \subseteq h[n]}
<1>1. 0 \in T
  OBVIOUS
<1>2. ASSUME NEW n \in 1..N, n - 1 \in T PROVE n \in T
  <2>1. \A m \in 0..n : m = n \/ m \in 0..(n - 1)
    OBVIOUS
  <2>2. h[n - 1] \subseteq h[n] /\ \A m \in 0..(n - 1) : h[m] \subseteq h[n - 1]
    BY <1>2
  <2>3. \A m \in 0..n : h[m] \subseteq h[n]
    BY <2>1, <2>2
  <2> QED
    BY <2>3
<1>3. \A n \in 0..N : n \in T
  <2> HIDE DEF T
  <2> QED
    BY <1>1, <1>2, CountingUp
<1> QED
  BY <1>3

-----------------------------------------------------------------------------
(* The candidates that units hold.                                         *)
HeldIn(Vs) == UNION {Held(u.members) : u \in Vs}
ServingIn(t, q) == {u \in Held(t) : A!Serves(u, q)}

\* What a selection has at some of its places: candidates, none of them
\* twice, as many as its units there hold.
LEMMA MembersHold ==
  ASSUME NEW Es, PoolFits(Es), NEW p, NEW t \in Selections(p, A!UnitsOf(Es)), NEW places
  PROVE  /\ A!Members(t, places) \in Seq(Es) /\ NothingTwice(A!Members(t, places))
         /\ Held(A!Members(t, places)) = UNION {Held(t[i].members) : i \in (1..Len(t)) \cap places}
<1> DEFINE Us == A!UnitsOf(Es)
           n == Len(t)
           ss == [i \in 1..n |-> IF i \in places THEN t[i].members ELSE <<>>]
<1>1. t \in Seq(Us) /\ NothingTwice(t) /\ n \in Nat /\ DOMAIN t = 1..n /\ \A i \in 1..n : t[i] \in Us
  BY LenProperties DEF Selections
<1>2. \A u \in Us : u.members \in Seq(Es) /\ NothingTwice(u.members)
  BY UnitsFit DEF UnitFits
<1>3. \A u, v \in Us : u # v => Held(u.members) \cap Held(v.members) = {}
  BY UnitsListed
<1> HIDE DEF Us
<1>4. <<>> \in Seq(Es) /\ NothingTwice(<<>>) /\ Held(<<>>) = {}
  BY DEF NothingTwice, Held
<1>5. ss \in [1..n -> Seq(Es)] /\ (\A i \in 1..n : NothingTwice(ss[i]))
  BY <1>1, <1>2, <1>4
<1>6. \A i \in 1..n : Held(ss[i]) = IF i \in places THEN Held(t[i].members) ELSE {}
  BY <1>4
<1>7. \A i, j \in 1..n : i # j => Held(ss[i]) \cap Held(ss[j]) = {}
  <2>1. ASSUME NEW i \in 1..n, NEW j \in 1..n, i # j PROVE t[i] # t[j]
    BY <1>1, <2>1 DEF NothingTwice
  <2> HIDE DEF ss
  <2> QED
    BY <1>1, <1>3, <1>6, <2>1
<1>8. A!Members(t, places) = S!FlattenSeq(ss)
  BY <1>1, SameFlat DEF A!Members
<1>9. UNION {Held(ss[i]) : i \in 1..n} = UNION {Held(t[i].members) : i \in (1..n) \cap places}
  <2> HIDE DEF ss
  <2> QED
    BY <1>6
<1> HIDE DEF ss, n
<1>10. /\ S!FlattenSeq(ss) \in Seq(Es) /\ Held(S!FlattenSeq(ss)) = UNION {Held(ss[i]) : i \in 1..n}
       /\ NothingTwice(S!FlattenSeq(ss))
  BY <1>1, <1>5, <1>7, FlattenHolds
<1> QED
  BY <1>8, <1>9, <1>10 DEF n

\* The size of a selection and what it serves of a quota are numbers of
\* different candidates.
LEMMA SizesAre ==
  ASSUME NEW Es, PoolFits(Es), NEW p, NEW t \in Selections(p, A!UnitsOf(Es)), NEW q
  PROVE  /\ A!Members(t, DOMAIN t) \in Seq(Es) /\ NothingTwice(A!Members(t, DOMAIN t))
         /\ Held(A!Members(t, DOMAIN t)) = HeldIn(Held(t))
         /\ A!Size(t) = Len(A!Members(t, DOMAIN t)) /\ A!Size(t) \in Nat
         /\ A!Served(t, q) = Cardinality(HeldIn(ServingIn(t, q))) /\ A!Served(t, q) \in Nat
         /\ IsFiniteSet(HeldIn(ServingIn(t, q))) /\ HeldIn(Held(t)) \in SUBSET Es
<1> DEFINE n == Len(t)
           serving == {i \in DOMAIN t : A!Serves(t[i], q)}
           all == A!Members(t, DOMAIN t)
           some == A!Members(t, serving)
<1>1. n \in Nat /\ DOMAIN t = 1..n
  BY LenProperties DEF Selections
<1>2. all \in Seq(Es) /\ NothingTwice(all) /\ Held(all) = UNION {Held(t[i].members) : i \in (1..n) \cap DOMAIN t}
  BY MembersHold
<1>3. some \in Seq(Es) /\ NothingTwice(some) /\ Held(some) = UNION {Held(t[i].members) : i \in (1..n) \cap serving}
  BY MembersHold
<1>4. Held(all) = HeldIn(Held(t))
  <2>1. \A x : x \in Held(all) <=> \E i \in 1..n : x \in Held(t[i].members)
    <3> HIDE DEF n, all
    <3> QED
      BY <1>1, <1>2
  <2>2. \A x : x \in HeldIn(Held(t)) <=> \E u \in Held(t) : x \in Held(u.members)
    BY DEF HeldIn
  <2>3. \A u : u \in Held(t) <=> \E i \in 1..n : u = t[i]
    BY DEF Held
  <2> HIDE DEF n, all
  <2>4. \A x : x \in Held(all) <=> x \in HeldIn(Held(t))
    BY <2>1, <2>2, <2>3
  <2> QED
    BY <2>4
<1>5. Held(some) = HeldIn(ServingIn(t, q))
  <2>1. \A x : x \in Held(some) <=> \E i \in 1..n : A!Serves(t[i], q) /\ x \in Held(t[i].members)
    BY <1>1, <1>3
  <2>2. \A x : x \in HeldIn(ServingIn(t, q)) <=> \E u \in Held(t) : A!Serves(u, q) /\ x \in Held(u.members)
    BY DEF HeldIn, ServingIn
  <2>3. \A u : u \in Held(t) <=> \E i \in 1..n : u = t[i]
    BY DEF Held
  <2> HIDE DEF n, some
  <2>4. \A x : x \in Held(some) <=> x \in HeldIn(ServingIn(t, q))
    BY <2>1, <2>2, <2>3
  <2> QED
    BY <2>4
<1>6. A!Size(t) = Len(all) /\ A!Served(t, q) = Len(some)
  BY DEF A!Size, A!Served
<1> HIDE DEF n, all, some, serving
<1>7. /\ Cardinality(Held(some)) = Len(some) /\ IsFiniteSet(Held(some)) /\ Len(some) \in Nat
      /\ Len(all) \in Nat /\ Held(all) \in SUBSET Es
  BY <1>2, <1>3, HeldOnce
<1> QED
  BY <1>2, <1>4, <1>5, <1>6, <1>7 DEF all

\* A selection that has the units of another serves as much of any quota.
LEMMA ServedGrows ==
  ASSUME NEW Es, PoolFits(Es), NEW p, NEW t \in Selections(p, A!UnitsOf(Es)), NEW r \in Selections(p, A!UnitsOf(Es)),
         NEW q, Held(t) \subseteq Held(r)
  PROVE  A!Served(t, q) \in Nat /\ A!Served(r, q) \in Nat /\ A!Served(t, q) <= A!Served(r, q)
<1>1. HeldIn(ServingIn(t, q)) \in SUBSET HeldIn(ServingIn(r, q))
  BY DEF HeldIn, ServingIn
<1>2. /\ A!Served(t, q) = Cardinality(HeldIn(ServingIn(t, q))) /\ A!Served(t, q) \in Nat
      /\ A!Served(r, q) = Cardinality(HeldIn(ServingIn(r, q))) /\ A!Served(r, q) \in Nat
      /\ IsFiniteSet(HeldIn(ServingIn(r, q)))
  BY SizesAre
<1> QED
  BY <1>1, <1>2, FS_Subset

\* One look at a unit leaves a selection.
LEMMA TakeKeeps ==
  ASSUME NEW p, NEW Us, NEW t \in Selections(p, Us), NEW u \in Us, NEW q
  PROVE  /\ A!Take(p, t, u, q) \in Selections(p, Us) /\ Held(t) \subseteq Held(A!Take(p, t, u, q))
         /\ ~p.oneTemplate /\ A!Served(t, q) < q.least /\ A!Serves(u, q) => u \in Held(A!Take(p, t, u, q))
<1> DEFINE taking == A!Served(t, q) < q.least /\ ~A!Contains(t, u) /\ A!Serves(u, q) /\ A!TemplateFree(p, t, u)
<1>1. A!Take(p, t, u, q) = IF taking THEN Append(t, u) ELSE t
  BY DEF A!Take
<1>2. CASE taking
  <2>1. Append(t, u) \in Selections(p, Us) /\ Held(Append(t, u)) = Held(t) \cup {u}
    BY <1>2, OneMore
  <2> QED
    BY <1>1, <1>2, <2>1
<1>3. CASE ~taking
  <2>1. A!Contains(t, u) => u \in Held(t)
    BY DEF A!Contains, Held
  <2>2. ~p.oneTemplate => A!TemplateFree(p, t, u)
    BY DEF A!TemplateFree
  <2> QED
    BY <1>1, <1>3, <2>1, <2>2
<1> QED
  BY <1>2, <1>3

\* To serve a quota units are added to a selection; without the rule on
\* templates a quota that is not served then has all the units it could have.
LEMMA QuotaFilled ==
  ASSUME NEW Es, PoolFits(Es), NEW p, NEW z \in Selections(p, A!UnitsOf(Es)), NEW q, q.least \in Nat
  PROVE  LET r == A!FillQuota(p, A!Units(Es), z, q)
         IN /\ r \in Selections(p, A!UnitsOf(Es)) /\ Held(z) \subseteq Held(r)
            /\ ~p.oneTemplate /\ A!Served(r, q) < q.least => \A u \in A!UnitsOf(Es) : A!Serves(u, q) => u \in Held(r)
<1> DEFINE Us == A!UnitsOf(Es)
           units == A!Units(Es)
           N == Len(units)
           Z == Selections(p, Us)
           step == [e \in Z \X (1..N) |-> A!Take(p, e[1], units[e[2]], q)]
           fill == CHOOSE fill : fill = [n \in 0..N |-> IF n = 0 THEN z ELSE A!Take(p, fill[n - 1], units[n], q)]
           r == A!FillQuota(p, A!Units(Es), z, q)
<1>1. units \in Seq(Us) /\ Held(units) = Us /\ N \in Nat /\ \A n \in 1..N : units[n] \in Us
  <2>1. units \in Seq(Us) /\ Held(units) = Us
    BY UnitsListed
  <2> HIDE DEF units, Us
  <2> QED
    BY <2>1, LenProperties
<1>2. r = fill[N]
  BY DEF A!FillQuota
<1> HIDE DEF Us, units, r
<1>3. \A t \in Z, n \in 1..N : /\ A!Take(p, t, units[n], q) \in Z /\ Held(t) \subseteq Held(A!Take(p, t, units[n], q))
                               /\ ~p.oneTemplate /\ A!Served(t, q) < q.least /\ A!Serves(units[n], q)
                                    => units[n] \in Held(A!Take(p, t, units[n], q))
  <2>1. ASSUME NEW t \in Z, NEW n \in 1..N
        PROVE  /\ A!Take(p, t, units[n], q) \in Z /\ Held(t) \subseteq Held(A!Take(p, t, units[n], q))
               /\ ~p.oneTemplate /\ A!Served(t, q) < q.least /\ A!Serves(units[n], q)
                    => units[n] \in Held(A!Take(p, t, units[n], q))
    <3> DEFINE u == units[n]
    <3>1. u \in Us
      BY <1>1
    <3> HIDE DEF u
    <3>2. /\ A!Take(p, t, u, q) \in Z /\ Held(t) \subseteq Held(A!Take(p, t, u, q))
          /\ ~p.oneTemplate /\ A!Served(t, q) < q.least /\ A!Serves(u, q) => u \in Held(A!Take(p, t, u, q))
      BY <3>1, TakeKeeps
    <3> QED
      BY <3>2 DEF u
  <2> QED
    BY <2>1
<1>4. z \in Z
  BY DEF Us
<1> HIDE DEF Z, N
<1>5. step \in [Z \X (1..N) -> Z]
  BY <1>3
<1>6. PICK f \in [0..N -> Z] : Follows(f, z, N, step) /\ Only(f, Z, z, N, step)
  <2> HIDE DEF step
  <2> QED
    BY <1>1, <1>4, <1>5, StepByStep
<1>7. f[0] = z /\ \A n \in 1..N : f[n] = A!Take(p, f[n - 1], units[n], q)
  <2>1. ASSUME NEW n \in 1..N PROVE f[n - 1] \in Z
    BY <1>1
  <2> QED
    BY <1>6, <2>1 DEF Follows
<1>8. fill = [n \in 0..N |-> IF n = 0 THEN z ELSE A!Take(p, fill[n - 1], units[n], q)]
  <2>1. f = [n \in 0..N |-> IF n = 0 THEN z ELSE A!Take(p, f[n - 1], units[n], q)]
    BY <1>7
  <2> HIDE DEF step
  <2> QED
    BY <2>1
<1>9. fill[N] = f[N]
  <2>1. fill[0] = z /\ \A n \in 1..N : fill[n] = A!Take(p, fill[n - 1], units[n], q)
    <3>1. \A n \in 1..N : n \in 0..N /\ n # 0
      BY <1>1
    <3> HIDE DEF fill, step
    <3> QED
      BY <1>1, <1>8, <3>1
  <2>2. \A n \in 1..N : fill[n - 1] \in Z => fill[n] = step[<<fill[n - 1], n>>]
    <3> HIDE DEF fill
    <3> QED
      BY <2>1
  <2> HIDE DEF fill, step
  <2> QED
    BY <1>1, <1>6, <2>1, <2>2 DEF Only
<1> HIDE DEF fill, step
<1> DEFINE h == [n \in 0..N |-> Held(f[n])]
<1>10. \A n \in 1..N : h[n - 1] \subseteq h[n]
  <2>1. ASSUME NEW n \in 1..N PROVE h[n - 1] \subseteq h[n]
    <3>1. f[n - 1] \in Z /\ n - 1 \in 0..N /\ n \in 0..N
      BY <1>1
    <3>2. Held(f[n - 1]) \subseteq Held(f[n])
      BY <1>3, <1>7, <3>1
    <3> QED
      BY <3>1, <3>2
  <2> QED
    BY <2>1
<1>11. \A n \in 0..N : Held(f[n]) \subseteq Held(f[N])
  <2>1. \A n \in 0..N : n \in 0..N /\ N \in 0..N
    BY <1>1
  <2>2. \A n \in 0..N : h[n] \subseteq h[N]
    <3> HIDE DEF h
    <3> QED
      BY <1>1, <1>10, <2>1, Growing
  <2> QED
    BY <2>1, <2>2
<1>12. r = f[N] /\ r \in Z /\ Held(z) \subseteq Held(r)
  <2>1. 0 \in 0..N /\ N \in 0..N
    BY <1>1
  <2> QED
    BY <1>2, <1>7, <1>9, <1>11, <2>1
<1>13. ASSUME ~p.oneTemplate, A!Served(r, q) < q.least, NEW u \in Us, A!Serves(u, q) PROVE u \in Held(r)
  <2>1. PICK n \in 1..N : units[n] = u
    BY <1>1 DEF Held, N
  <2>2. f[n - 1] \in Z /\ n - 1 \in 0..N /\ n \in 0..N
    BY <1>1
  <2>3. Held(f[n - 1]) \subseteq Held(r) /\ Held(f[n]) \subseteq Held(r)
    BY <1>11, <1>12, <2>2
  <2>4. /\ A!Served(f[n - 1], q) \in Nat /\ A!Served(r, q) \in Nat
        /\ A!Served(f[n - 1], q) <= A!Served(r, q)
    BY <1>12, <2>2, <2>3, ServedGrows DEF Z, Us
  <2>5. A!Served(f[n - 1], q) < q.least
    BY <1>13, <2>4
  <2>6. u \in Held(f[n])
    BY <1>3, <1>7, <1>13, <2>1, <2>2, <2>5
  <2> QED
    BY <2>3, <2>6
<1> QED
  BY <1>12, <1>13 DEF Z, Us, r

\* A quota that is not served has every unit that serves it.
ShortOnlyOfAll(p, Us, t) ==
  ~p.oneTemplate => \A k \in 1..Len(p.quotas) : A!Served(t, p.quotas[k]) < p.quotas[k].least =>
    \A u \in Us : A!Serves(u, p.quotas[k]) => u \in Held(t)

\* What is added later does not undo it.
LEMMA StaysShort ==
  ASSUME NEW Es, PoolFits(Es), NEW p, Compiled(p), NEW t \in Selections(p, A!UnitsOf(Es)),
         NEW r \in Selections(p, A!UnitsOf(Es)), Held(t) \subseteq Held(r), ShortOnlyOfAll(p, A!UnitsOf(Es), t)
  PROVE  ShortOnlyOfAll(p, A!UnitsOf(Es), r)
<1>1. SUFFICES ASSUME ~p.oneTemplate, NEW k \in 1..Len(p.quotas), A!Served(r, p.quotas[k]) < p.quotas[k].least,
                      NEW u \in A!UnitsOf(Es), A!Serves(u, p.quotas[k])
               PROVE  u \in Held(r)
  BY DEF ShortOnlyOfAll
<1> DEFINE q == p.quotas[k]
<1>2. q.least \in Nat
  BY DEF Compiled, Listed
<1>3. A!Served(t, q) \in Nat /\ A!Served(r, q) \in Nat /\ A!Served(t, q) <= A!Served(r, q)
  <2> HIDE DEF q
  <2> QED
    BY ServedGrows
<1>4. A!Served(t, q) < q.least
  BY <1>1, <1>2, <1>3
<1>5. u \in Held(t)
  BY <1>1, <1>4 DEF ShortOnlyOfAll
<1> QED
  BY <1>5

\* After all quotas every one of them is served as far as it can be.
LEMMA QuotasFilled ==
  ASSUME NEW Es, PoolFits(Es), NEW p, Compiled(p)
  PROVE  /\ A!FillQuotas(p, A!Units(Es)) \in Selections(p, A!UnitsOf(Es))
         /\ ShortOnlyOfAll(p, A!UnitsOf(Es), A!FillQuotas(p, A!Units(Es)))
<1> DEFINE Us == A!UnitsOf(Es)
           units == A!Units(Es)
           N == Len(p.quotas)
           Z == Selections(p, Us)
           Next1(t, n) == A!FillQuota(p, units, t, p.quotas[n])
           step == [e \in Z \X (1..N) |-> Next1(e[1], e[2])]
           fill == CHOOSE fill : fill = [n \in 0..N |-> IF n = 0 THEN <<>> ELSE Next1(fill[n - 1], n)]
           r == A!FillQuotas(p, units)
<1>1. N \in Nat /\ \A n \in 1..N : p.quotas[n].least \in Nat
  BY DEF Compiled, Listed
<1>2. r = fill[N]
  BY DEF A!FillQuotas
<1> HIDE DEF r
<1>3. \A t \in Z, n \in 1..N :
         /\ Next1(t, n) \in Z /\ Held(t) \subseteq Held(Next1(t, n))
         /\ ~p.oneTemplate /\ A!Served(Next1(t, n), p.quotas[n]) < p.quotas[n].least
              => \A u \in Us : A!Serves(u, p.quotas[n]) => u \in Held(Next1(t, n))
  <2>1. ASSUME NEW t \in Z, NEW n \in 1..N
        PROVE  /\ Next1(t, n) \in Z /\ Held(t) \subseteq Held(Next1(t, n))
               /\ ~p.oneTemplate /\ A!Served(Next1(t, n), p.quotas[n]) < p.quotas[n].least
                    => \A u \in Us : A!Serves(u, p.quotas[n]) => u \in Held(Next1(t, n))
    <3> DEFINE q == p.quotas[n]
    <3>1. q.least \in Nat
      BY <1>1
    <3> HIDE DEF q
    <3> QED
      BY <3>1, QuotaFilled DEF q
  <2> HIDE DEF Z, Us, N, Next1
  <2> QED
    BY <2>1
<1>4. <<>> \in Z
  BY DEF Selections, NothingTwice
<1> HIDE DEF Z, N, Us, units, Next1
<1>5. step \in [Z \X (1..N) -> Z]
  BY <1>3
<1>6. PICK f \in [0..N -> Z] : Follows(f, <<>>, N, step) /\ Only(f, Z, <<>>, N, step)
  <2> HIDE DEF step
  <2> QED
    BY <1>1, <1>4, <1>5, StepByStep
<1>7. f[0] = <<>> /\ \A n \in 1..N : f[n] = Next1(f[n - 1], n)
  <2>1. ASSUME NEW n \in 1..N PROVE f[n - 1] \in Z
    BY <1>1
  <2> QED
    BY <1>6, <2>1 DEF Follows
<1>8. fill = [n \in 0..N |-> IF n = 0 THEN <<>> ELSE Next1(fill[n - 1], n)]
  <2>1. f = [n \in 0..N |-> IF n = 0 THEN <<>> ELSE Next1(f[n - 1], n)]
    BY <1>7
  <2> HIDE DEF step
  <2> QED
    BY <2>1
<1>9. fill[N] = f[N]
  <2>1. fill[0] = <<>> /\ \A n \in 1..N : fill[n] = Next1(fill[n - 1], n)
    <3>1. \A n \in 1..N : n \in 0..N /\ n # 0
      BY <1>1
    <3> HIDE DEF fill, step
    <3> QED
      BY <1>1, <1>8, <3>1
  <2>2. \A n \in 1..N : fill[n - 1] \in Z => fill[n] = step[<<fill[n - 1], n>>]
    <3> HIDE DEF fill
    <3> QED
      BY <2>1
  <2> HIDE DEF fill, step
  <2> QED
    BY <1>1, <1>6, <2>1, <2>2 DEF Only
<1> HIDE DEF fill, step
<1> DEFINE h == [n \in 0..N |-> Held(f[n])]
<1>10. \A n \in 1..N : h[n - 1] \subseteq h[n]
  <2>1. ASSUME NEW n \in 1..N PROVE h[n - 1] \subseteq h[n]
    <3>1. f[n - 1] \in Z /\ n - 1 \in 0..N /\ n \in 0..N
      BY <1>1
    <3>2. Held(f[n - 1]) \subseteq Held(f[n])
      BY <1>3, <1>7, <3>1
    <3> QED
      BY <3>1, <3>2
  <2> QED
    BY <2>1
<1>11. \A n \in 0..N : Held(f[n]) \subseteq Held(f[N])
  <2>1. \A n \in 0..N : n \in 0..N /\ N \in 0..N
    BY <1>1
  <2>2. \A n \in 0..N : h[n] \subseteq h[N]
    <3> HIDE DEF h
    <3> QED
      BY <1>1, <1>10, <2>1, Growing
  <2> QED
    BY <2>1, <2>2
<1>12. r = f[N] /\ r \in Z
  <2>1. N \in 0..N
    BY <1>1
  <2> QED
    BY <1>2, <1>9, <2>1
<1>13. ASSUME ~p.oneTemplate, NEW n \in 1..N, A!Served(r, p.quotas[n]) < p.quotas[n].least,
              NEW u \in Us, A!Serves(u, p.quotas[n])
       PROVE  u \in Held(r)
  <2> DEFINE q == p.quotas[n]
  <2>1. f[n - 1] \in Z /\ n - 1 \in 0..N /\ f[n] \in Z /\ n \in 0..N /\ f[n] = Next1(f[n - 1], n)
    BY <1>1, <1>7
  <2>2. Held(f[n]) \subseteq Held(r)
    BY <1>11, <1>12, <2>1
  <2>3. A!Served(f[n], q) \in Nat /\ A!Served(r, q) \in Nat /\ A!Served(f[n], q) <= A!Served(r, q)
    <3> HIDE DEF q
    <3> QED
      BY <1>12, <2>1, <2>2, ServedGrows DEF Z, Us
  <2>4. A!Served(f[n], q) < q.least
    <3>1. q.least \in Nat /\ A!Served(r, q) < q.least
      BY <1>1, <1>13
    <3> HIDE DEF q
    <3> QED
      BY <2>3, <3>1
  <2>5. u \in Held(f[n])
    BY <1>3, <1>13, <2>1, <2>4
  <2> QED
    BY <2>2, <2>5
<1>14. ShortOnlyOfAll(p, Us, r)
  BY <1>13 DEF ShortOnlyOfAll, N
<1> QED
  BY <1>12, <1>14 DEF Z, Us, r, units

-----------------------------------------------------------------------------
\* How much the mix misses of a unit is a number.
LEMMA ScoresAreNumbers ==
  ASSUME NEW Es, PoolFits(Es), NEW p, Compiled(p), NEW t \in Selections(p, A!UnitsOf(Es)), NEW u \in A!UnitsOf(Es)
  PROVE  A!Score(p, t, u) \in Int
<1>1. A!Size(t) \in Nat
  BY SizesAre
<1>2. ASSUME NEW places PROVE Len(A!Members(t, places)) \in Nat
  <2>1. A!Members(t, places) \in Seq(Es)
    BY MembersHold
  <2> QED
    BY <2>1, LenProperties
<1>3. ASSUME NEW tag PROVE A!MixDeficit(p, t, tag) \in Int
  <2> DEFINE places == {i \in DOMAIN t : \E m \in A!Range(t[i].members) : m.mix = tag}
             others == Len(A!Members(t, places))
  <2>1. others \in Nat
    BY <1>2
  <2>2. A!MixDeficit(p, t, tag) = IF tag \notin DOMAIN p.mix THEN 0 ELSE p.mix[tag] * (A!Size(t) + 1) - 10 * others
    BY DEF A!MixDeficit
  <2> HIDE DEF others
  <2>3. ASSUME tag \in DOMAIN p.mix PROVE p.mix[tag] * (A!Size(t) + 1) - 10 * others \in Int
    <3>1. p.mix[tag] \in Int
      BY <2>3 DEF Compiled
    <3>2. \A a \in Int, b, c \in Nat : a * (b + 1) - 10 * c \in Int
      OBVIOUS
    <3> QED
      BY <1>1, <2>1, <3>1, <3>2
  <2> QED
    BY <2>2, <2>3
<1> DEFINE deficit == [m \in Held(u.members) |-> A!MixDeficit(p, t, m.mix)]
           Ds == {deficit[m] : m \in Held(u.members)}
<1>4. u.members \in Seq(Es) /\ Held(u.members) # {}
  BY UnitsFit DEF UnitFits
<1>5. A!Range(u.members) = Held(u.members)
  BY <1>4, LenProperties DEF A!Range, Held
<1>6. Ds # {} /\ Ds \in SUBSET Int /\ IsFiniteSet(Ds)
  <2>1. Ds # {}
    BY <1>4
  <2>2. Ds \in SUBSET Int
    BY <1>3
  <2>3. IsFiniteSet(Held(u.members))
    BY <1>4, HeldOnce
  <2>4. deficit \in Surjection(Held(u.members), Ds)
    BY DEF Surjection
  <2>5. IsFiniteSet(Ds)
    <3> HIDE DEF deficit, Ds
    <3> QED
      BY <2>3, <2>4, FS_Surjection
  <2> QED
    BY <2>1, <2>2, <2>5
<1>7. S!Max(Ds) \in Ds
  <2> HIDE DEF Ds
  <2> QED
    BY <1>6, Extremes
<1>8. A!Score(p, t, u) = S!Max(Ds)
  <2>1. Ds = {A!MixDeficit(p, t, m.mix) : m \in A!Range(u.members)}
    BY <1>5
  <2>2. A!Score(p, t, u) = A!Max({A!MixDeficit(p, t, m.mix) : m \in A!Range(u.members)})
    BY DEF A!Score
  <2> HIDE DEF Ds
  <2> QED
    BY <2>1, <2>2, SameEnds
<1> QED
  BY <1>6, <1>7, <1>8

\* The unit that the mix misses most is one of those that are open.
LEMMA BestKeeps ==
  ASSUME NEW Es, PoolFits(Es), NEW p, Compiled(p), NEW t \in Selections(p, A!UnitsOf(Es))
  PROVE  /\ A!TakeBest(p, A!Units(Es), t) \in Selections(p, A!UnitsOf(Es))
         /\ Held(t) \subseteq Held(A!TakeBest(p, A!Units(Es), t))
<1> DEFINE Us == A!UnitsOf(Es)
           units == A!Units(Es)
           open == A!Open(p, units, t)
           score == [i \in open |-> A!Score(p, t, units[i])]
           Highest == {i \in open : score[i] = A!Max(A!Range(score))}
           best == A!Min(Highest)
<1>1. units \in Seq(Us) /\ Len(units) \in Nat /\ DOMAIN units = 1..Len(units) /\ \A i \in DOMAIN units : units[i] \in Us
  <2>1. units \in Seq(Us)
    BY UnitsListed
  <2> HIDE DEF units, Us
  <2> QED
    BY <2>1, LenProperties
<1>2. A!TakeBest(p, units, t) = IF A!Size(t) >= p.min \/ open = {} THEN t ELSE Append(t, units[best])
  BY DEF A!TakeBest
<1>3. open \in SUBSET DOMAIN units /\ \A i \in open : ~A!Contains(t, units[i]) /\ A!TemplateFree(p, t, units[i])
  BY DEF A!Open
<1> HIDE DEF open, units
<1>4. \A i \in open : score[i] \in Int /\ units[i] \in Us
  BY <1>1, <1>3, ScoresAreNumbers
<1>5. IsFiniteSet(open) /\ open \in SUBSET Int
  <2>1. IsFiniteSet(1..Len(units))
    BY <1>1, FS_Interval
  <2> QED
    BY <1>1, <1>3, <2>1, FS_Subset
<1>6. ASSUME open # {} PROVE best \in open
  <2>1. A!Range(score) # {} /\ A!Range(score) \in SUBSET Int
    <3>1. A!Range(score) = {score[i] : i \in open}
      BY DEF A!Range
    <3> HIDE DEF score
    <3> QED
      BY <1>4, <1>6, <3>1
  <2>2. IsFiniteSet(A!Range(score))
    <3>1. score \in Surjection(open, A!Range(score))
      BY DEF Surjection, A!Range
    <3> HIDE DEF score
    <3> QED
      BY <1>5, <3>1, FS_Surjection
  <2>3. A!Max(A!Range(score)) \in A!Range(score)
    <3> HIDE DEF score
    <3> QED
      BY <2>1, <2>2, Extremes, SameEnds
  <2>4. PICK i \in open : score[i] = A!Max(A!Range(score))
    <3>1. A!Range(score) = {score[i] : i \in open}
      BY DEF A!Range
    <3> HIDE DEF score
    <3> QED
      BY <2>3, <3>1
  <2>5. Highest # {} /\ Highest \in SUBSET open
    BY <2>4
  <2> HIDE DEF Highest
  <2>6. IsFiniteSet(Highest) /\ Highest \in SUBSET Int
    BY <1>5, <2>5, FS_Subset
  <2>7. best \in Highest
    BY <2>5, <2>6, Extremes, SameEnds
  <2> QED
    BY <2>5, <2>7
<1>7. ASSUME open # {}
      PROVE  Append(t, units[best]) \in Selections(p, Us) /\ Held(t) \subseteq Held(Append(t, units[best]))
  <2> DEFINE u == units[best]
  <2>1. u \in Us /\ ~A!Contains(t, u) /\ A!TemplateFree(p, t, u)
    <3> HIDE DEF best, score
    <3> QED
      BY <1>3, <1>4, <1>6, <1>7
  <2> HIDE DEF u, Us
  <2>2. Append(t, u) \in Selections(p, Us) /\ Held(Append(t, u)) = Held(t) \cup {u}
    BY <2>1, OneMore DEF Us
  <2> QED
    BY <2>2 DEF u
<1> QED
  BY <1>2, <1>7 DEF units

\* The whole selection is one, and every quota is served as far as it can be.
LEMMA SelectionMade ==
  ASSUME NEW Es, PoolFits(Es), NEW p, Compiled(p)
  PROVE  LET t == A!FillMinimum(p, A!Units(Es), A!FillQuotas(p, A!Units(Es)))
         IN t \in Selections(p, A!UnitsOf(Es)) /\ ShortOnlyOfAll(p, A!UnitsOf(Es), t)
<1> DEFINE Us == A!UnitsOf(Es)
           units == A!Units(Es)
           N == Len(units)
           Z == Selections(p, Us)
           z == A!FillQuotas(p, units)
           Better(t) == A!TakeBest(p, units, t)
           step == [e \in Z \X (1..N) |-> Better(e[1])]
           fill == CHOOSE fill : fill = [n \in 0..N |-> IF n = 0 THEN z ELSE Better(fill[n - 1])]
           r == A!FillMinimum(p, units, z)
<1>1. N \in Nat
  <2>1. units \in Seq(Us)
    BY UnitsListed
  <2> HIDE DEF units, Us
  <2> QED
    BY <2>1, LenProperties
<1>2. r = fill[N]
  BY DEF A!FillMinimum
<1> HIDE DEF r
<1>3. \A t \in Z : Better(t) \in Z /\ Held(t) \subseteq Held(Better(t))
  BY BestKeeps
<1>4. z \in Z /\ ShortOnlyOfAll(p, Us, z)
  BY QuotasFilled
<1> HIDE DEF Z, N, Us, units, Better, z
<1>5. step \in [Z \X (1..N) -> Z]
  BY <1>3
<1>6. PICK f \in [0..N -> Z] : Follows(f, z, N, step) /\ Only(f, Z, z, N, step)
  <2> HIDE DEF step
  <2> QED
    BY <1>1, <1>4, <1>5, StepByStep
<1>7. f[0] = z /\ \A n \in 1..N : f[n] = Better(f[n - 1])
  <2>1. ASSUME NEW n \in 1..N PROVE f[n - 1] \in Z
    BY <1>1
  <2> QED
    BY <1>6, <2>1 DEF Follows
<1>8. fill = [n \in 0..N |-> IF n = 0 THEN z ELSE Better(fill[n - 1])]
  <2>1. f = [n \in 0..N |-> IF n = 0 THEN z ELSE Better(f[n - 1])]
    BY <1>7
  <2> HIDE DEF step
  <2> QED
    BY <2>1
<1>9. fill[N] = f[N]
  <2>1. fill[0] = z /\ \A n \in 1..N : fill[n] = Better(fill[n - 1])
    <3>1. \A n \in 1..N : n \in 0..N /\ n # 0
      BY <1>1
    <3> HIDE DEF fill, step
    <3> QED
      BY <1>1, <1>8, <3>1
  <2>2. \A n \in 1..N : fill[n - 1] \in Z => fill[n] = step[<<fill[n - 1], n>>]
    <3> HIDE DEF fill
    <3> QED
      BY <2>1
  <2> HIDE DEF fill, step
  <2> QED
    BY <1>1, <1>6, <2>1, <2>2 DEF Only
<1> HIDE DEF fill, step
<1> DEFINE h == [n \in 0..N |-> Held(f[n])]
<1>10. \A n \in 1..N : h[n - 1] \subseteq h[n]
  <2>1. ASSUME NEW n \in 1..N PROVE h[n - 1] \subseteq h[n]
    <3>1. f[n - 1] \in Z /\ n - 1 \in 0..N /\ n \in 0..N
      BY <1>1
    <3>2. Held(f[n - 1]) \subseteq Held(f[n])
      BY <1>3, <1>7, <3>1
    <3> QED
      BY <3>1, <3>2
  <2> QED
    BY <2>1
<1>11. 0 \in 0..N /\ N \in 0..N
  BY <1>1
<1>12. Held(z) \subseteq Held(f[N]) /\ f[N] \in Z
  <2>1. h[0] \subseteq h[N]
    <3> HIDE DEF h
    <3> QED
      BY <1>1, <1>10, <1>11, Growing
  <2> QED
    BY <1>7, <1>11, <2>1
<1>13. ShortOnlyOfAll(p, Us, f[N])
  BY <1>4, <1>12, StaysShort DEF Z, Us
<1>14. r = f[N]
  BY <1>2, <1>9
<1> QED
  BY <1>12, <1>13, <1>14 DEF Z, Us, r, units, z

-----------------------------------------------------------------------------
(* The items of a paper made of a selection, as Assemble puts them.        *)
ItemsOf(p, t) ==
  LET members == A!Members(t, DOMAIN t)
      easier == {e \in A!Range(members) \X A!Range(members) : A!Easier(e[1], e[2])}
  IN IF p.gradient THEN A!InOrder(A!Range(members), easier) ELSE members

\* Every member of the selection is an item of the paper, once, and under
\* the rule on the gradient items get no easier.
LEMMA ItemsHold ==
  ASSUME NEW Es, PoolFits(Es), NEW p, NEW t \in Selections(p, A!UnitsOf(Es))
  PROVE  LET items == ItemsOf(p, t)
         IN /\ items \in Seq(Es) /\ NothingTwice(items) /\ Held(items) = HeldIn(Held(t)) /\ Len(items) = A!Size(t)
            /\ p.gradient => \A i, j \in 1..Len(items) : i < j /\ items[j].p # NONE =>
                               items[i].p # NONE /\ items[i].p >= items[j].p
<1> DEFINE members == A!Members(t, DOMAIN t)
           Ms == A!Range(members)
           easier == {e \in Ms \X Ms : A!Easier(e[1], e[2])}
           Rate(c) == IF c.p = NONE THEN -1 ELSE c.p
           items == ItemsOf(p, t)
<1>1. /\ members \in Seq(Es) /\ NothingTwice(members) /\ Held(members) = HeldIn(Held(t))
      /\ A!Size(t) = Len(members) /\ Held(members) \in SUBSET Es
  BY SizesAre
<1>2. items = IF p.gradient THEN A!InOrder(Ms, easier) ELSE members
  BY DEF ItemsOf
<1> HIDE DEF members
<1>3. Ms = Held(members) /\ Ms \in SUBSET Es
  BY <1>1, LenProperties DEF A!Range, Held
<1>4. IsFiniteSet(Ms) /\ Cardinality(Ms) = Len(members)
  <2>1. IsFiniteSet(Held(members)) /\ Cardinality(Held(members)) = Len(members)
    BY <1>1, HeldOnce
  <2> QED
    BY <1>3, <2>1
<1>5. \A x \in Ms : x.p \in Nat \cup {NONE} /\ x.id \in DOMAIN Rank /\ Rank[x.id] \in Int
  BY <1>3, RankAssumption DEF PoolFits
<1>6. \A x \in Ms : Rate(x) \in Int /\ (x.p = NONE => Rate(x) = -1) /\ (x.p # NONE => Rate(x) = x.p /\ x.p \in Nat)
  BY <1>5
<1>7. \A x, y \in Ms : /\ <<x, y>> \in easier <=> Rate(x) > Rate(y) \/ (Rate(x) = Rate(y) /\ Rank[x.id] < Rank[y.id])
                       /\ Rank[x.id] = Rank[y.id] => x = y
  <2>1. \A x, y \in Ms : A!Easier(x, y) <=> Rate(x) > Rate(y) \/ (Rate(x) = Rate(y) /\ Rank[x.id] < Rank[y.id])
    BY Zenon DEF A!Easier
  <2>2. \A x, y \in Ms : <<x, y>> \in easier <=> A!Easier(x, y)
    OBVIOUS
  <2>3. \A x, y \in Ms : Rank[x.id] = Rank[y.id] => x = y
    BY <1>3, RankAssumption DEF PoolFits
  <2> HIDE DEF Rate, easier
  <2> QED
    BY <2>1, <2>2, <2>3
<1> HIDE DEF Rate, easier, Ms
<1> DEFINE o == A!InOrder(Ms, easier)
<1>8. /\ o \in Seq(Ms) /\ Held(o) = Ms /\ NothingTwice(o)
      /\ \A i, j \in 1..Len(o) : i < j => <<o[i], o[j]>> \in easier
  <2>1. \A x \in Ms : <<x, x>> \notin easier
    BY <1>5, <1>6, <1>7
  <2>2. \A x, y \in Ms : x # y => <<x, y>> \in easier \/ <<y, x>> \in easier
    BY <1>5, <1>6, <1>7
  <2>3. ASSUME NEW x \in Ms, NEW y \in Ms, NEW w \in Ms, <<x, y>> \in easier, <<y, w>> \in easier
        PROVE  <<x, w>> \in easier
    <3>1. \A a, b, c, k, l, m \in Int :
            (a > b \/ (a = b /\ k < l)) /\ (b > c \/ (b = c /\ l < m)) => a > c \/ (a = c /\ k < m)
      OBVIOUS
    <3>2. Rate(x) \in Int /\ Rate(y) \in Int /\ Rate(w) \in Int /\ Rank[x.id] \in Int /\ Rank[y.id] \in Int /\ Rank[w.id] \in Int
      BY <1>5, <1>6
    <3>3. /\ Rate(x) > Rate(y) \/ (Rate(x) = Rate(y) /\ Rank[x.id] < Rank[y.id])
          /\ Rate(y) > Rate(w) \/ (Rate(y) = Rate(w) /\ Rank[y.id] < Rank[w.id])
      BY <1>7, <2>3
    <3>4. Rate(x) > Rate(w) \/ (Rate(x) = Rate(w) /\ Rank[x.id] < Rank[w.id])
      BY <3>1, <3>2, <3>3
    <3> QED
      BY <1>7, <3>4
  <2> QED
    BY <1>4, <2>1, <2>2, <2>3, Ordered
<1>9. Len(o) = Len(members)
  <2>1. Cardinality(Held(o)) = Len(o)
    BY <1>8, HeldOnce
  <2> QED
    BY <1>4, <1>8, <2>1
<1>10. ASSUME NEW i \in 1..Len(o), NEW j \in 1..Len(o), i < j, o[j].p # NONE PROVE o[i].p # NONE /\ o[i].p >= o[j].p
  <2>1. o[i] \in Ms /\ o[j] \in Ms /\ <<o[i], o[j]>> \in easier
    BY <1>8, <1>10
  <2>2. Rate(o[i]) > Rate(o[j]) \/ Rate(o[i]) = Rate(o[j])
    BY <1>7, <2>1
  <2>3. Rate(o[i]) \in Int /\ Rate(o[j]) = o[j].p /\ o[j].p \in Nat
    BY <1>6, <1>10, <2>1
  <2>4. Rate(o[i]) >= 0 /\ Rate(o[i]) >= o[j].p
    <3> HIDE DEF o
    <3> QED
      BY <2>2, <2>3
  <2> HIDE DEF o
  <2> QED
    BY <1>6, <2>1, <2>4
<1>11. o \in Seq(Es)
  BY <1>3, <1>8
<1> HIDE DEF o
<1>12. CASE p.gradient
  BY <1>1, <1>2, <1>3, <1>8, <1>9, <1>10, <1>11, <1>12 DEF o
<1>13. CASE ~p.gradient
  BY <1>1, <1>2, <1>13
<1> QED
  BY <1>12, <1>13

\* A unit serves a quota only by members that count for it.
LEMMA ServingCounts ==
  ASSUME NEW Es, PoolFits(Es), NEW u \in A!UnitsOf(Es), NEW q, q.isolated \in BOOLEAN, A!Serves(u, q)
  PROVE  /\ q.isolated => \A c \in Held(u.members) : q.kp \in c.kps /\ A!Isolated(c) /\ c.kps = {q.kp}
         /\ \E c \in Held(u.members) : q.kp \in c.kps
<1>1. UnitFits(Es, u)
  BY UnitsFit
<1>2. CASE q.isolated
  <2>1. u.isolated /\ u.kps = {q.kp}
    BY <1>2 DEF A!Serves
  <2>2. Cardinality(Held(u.members)) = 1 /\ \A m \in Held(u.members) : A!Isolated(m)
    BY <1>1, <2>1 DEF UnitFits
  <2>3. PICK c : Held(u.members) = {c}
    <3>1. IsFiniteSet(Held(u.members))
      BY <1>1, HeldOnce DEF UnitFits
    <3> QED
      BY <2>2, <3>1, FS_Singleton
  <2>4. u.kps = UNION {m.kps : m \in Held(u.members)}
    BY <1>1 DEF UnitFits
  <2>5. c.kps = {q.kp}
    BY <2>1, <2>3, <2>4
  <2> QED
    BY <2>2, <2>3, <2>5
<1>3. CASE ~q.isolated
  <2>1. q.kp \in u.kps
    BY <1>3 DEF A!Serves
  <2>2. u.kps = UNION {m.kps : m \in Held(u.members)}
    BY <1>1 DEF UnitFits
  <2> QED
    BY <1>3, <2>1, <2>2
<1> QED
  BY <1>2, <1>3

\* A paper made of a selection that meets the size and the quotas is legal.
LEMMA PaperIsLegal ==
  ASSUME NEW p, Compiled(p), \A i \in DOMAIN p.quotas : p.quotas[i].isolated \in BOOLEAN,
         NEW pool, PoolFits(pool), NEW shown,
         NEW t \in Selections(p, A!UnitsOf(A!Eligible(p, pool, shown))),
         \A q \in A!Range(p.quotas) : ~(A!Served(t, q) < q.least), ~(A!Size(t) < p.min),
         NEW a, a.kind = "paper", a.items = ItemsOf(p, t),
         a.exceeded = IF p.soft /\ A!Size(t) > p.max THEN A!Size(t) - p.max ELSE 0
  PROVE  A!PaperLegal(p, pool, shown, a)
<1> DEFINE Es == A!Eligible(p, pool, shown)
           Us == A!UnitsOf(Es)
           items == ItemsOf(p, t)
           paper == A!Range(items)
<1>1. Es \in SUBSET pool /\ PoolFits(Es)
  <2>1. Es \in SUBSET pool
    BY DEF A!Eligible
  <2> HIDE DEF Es
  <2>2. IsFiniteSet(Es)
    BY <2>1, FS_Subset DEF PoolFits
  <2> QED
    BY <2>1, <2>2 DEF PoolFits
<1> HIDE DEF Es
<1>2. /\ items \in Seq(Es) /\ NothingTwice(items) /\ Held(items) = HeldIn(Held(t)) /\ Len(items) = A!Size(t)
      /\ p.gradient => \A i, j \in 1..Len(items) : i < j /\ items[j].p # NONE =>
                         items[i].p # NONE /\ items[i].p >= items[j].p
  BY <1>1, ItemsHold DEF Es
<1> HIDE DEF items
<1>3. Len(items) \in Nat /\ DOMAIN items = 1..Len(items) /\ paper = Held(items) /\ paper \in SUBSET Es
  BY <1>2, LenProperties DEF A!Range, Held
<1> HIDE DEF paper
<1>4. A!IsInjective(items)
  BY <1>2, <1>3 DEF A!IsInjective, NothingTwice
<1>5. \A u \in Held(t) : u \in Us /\ UnitFits(Es, u) /\ Held(u.members) \subseteq paper
  <2>1. \A u \in Held(t) : u \in Us
    BY LenProperties DEF Selections, Held, Es
  <2>2. \A u \in Us : UnitFits(Es, u)
    BY <1>1, UnitsFit
  <2> HIDE DEF Us
  <2> QED
    BY <1>2, <1>3, <2>1, <2>2 DEF HeldIn
<1>6. \A c \in paper : \E u \in Held(t) : c \in Held(u.members)
  BY <1>2, <1>3 DEF HeldIn
<1>7. ASSUME p.oneTemplate, NEW c \in paper, NEW d \in paper, c # d, c.template = d.template, c.template # NONE
      PROVE  c.group = d.group /\ c.group # NONE
  <2>1. PICK u \in Held(t) : c \in Held(u.members)
    BY <1>6
  <2>2. PICK v \in Held(t) : d \in Held(v.members)
    BY <1>6
  <2>3. c.template \in u.templates \cap v.templates
    <3>1. u.templates = {m.template : m \in Held(u.members)} \ {NONE} /\ v.templates = {m.template : m \in Held(v.members)} \ {NONE}
      BY <1>5 DEF UnitFits
    <3> QED
      BY <1>7, <2>1, <2>2, <3>1
  <2>4. u = v
    <3>1. PICK i \in 1..Len(t), j \in 1..Len(t) : u = t[i] /\ v = t[j]
      BY DEF Held
    <3>2. i # j => t[i].templates \cap t[j].templates = {}
      BY <1>7 DEF Selections
    <3> QED
      BY <2>3, <3>1, <3>2
  <2>5. c.group # NONE
    <3>1. c.group = NONE => Held(u.members) = {c}
      BY <1>5, <2>1 DEF UnitFits
    <3> QED
      BY <1>7, <2>2, <2>4, <3>1
  <2>6. Held(u.members) = A!InGroup(Es, c.group)
    BY <1>5, <2>1, <2>5 DEF UnitFits
  <2> QED
    BY <2>2, <2>4, <2>5, <2>6 DEF A!InGroup
<1>8. ASSUME NEW c \in paper, c.group # NONE PROVE A!InGroup(Es, c.group) \subseteq paper
  <2>1. PICK u \in Held(t) : c \in Held(u.members)
    BY <1>6
  <2>2. Held(u.members) = A!InGroup(Es, c.group)
    BY <1>5, <1>8, <2>1 DEF UnitFits
  <2> QED
    BY <1>5, <2>2
<1>9. ASSUME NEW q \in A!Range(p.quotas)
      PROVE  Cardinality({c \in paper : q.kp \in c.kps /\ (q.isolated => A!Isolated(c) /\ c.kps = {q.kp})})
               >= IF q.isolated THEN q.least ELSE 1
  <2> DEFINE Cs == {c \in paper : q.kp \in c.kps /\ (q.isolated => A!Isolated(c) /\ c.kps = {q.kp})}
             Ss == HeldIn(ServingIn(t, q))
  <2>1. q.least \in Nat \ {0} /\ q.isolated \in BOOLEAN
    BY DEF Compiled, A!Range
  <2>2. A!Served(t, q) = Cardinality(Ss) /\ A!Served(t, q) \in Nat /\ IsFiniteSet(Ss)
    BY <1>1, SizesAre DEF Es
  <2>3. ~(A!Served(t, q) < q.least)
    OBVIOUS
  <2>4. IsFiniteSet(Cs)
    <3>1. Cs \in SUBSET Es /\ IsFiniteSet(Es)
      BY <1>1, <1>3 DEF PoolFits
    <3> HIDE DEF Cs
    <3> QED
      BY <3>1, FS_Subset
  <2>5. Cardinality(Cs) \in Nat
    <3> HIDE DEF Cs
    <3> QED
      BY <2>4, FS_CardinalityType
  <2>6. ASSUME NEW u \in ServingIn(t, q)
        PROVE  /\ u \in Held(t) /\ Held(u.members) \subseteq paper
               /\ q.isolated => Held(u.members) \subseteq Cs
               /\ \E c \in Held(u.members) : q.kp \in c.kps
    <3>1. u \in Held(t) /\ A!Serves(u, q)
      BY DEF ServingIn
    <3>2. u \in Us /\ Held(u.members) \subseteq paper
      BY <1>5, <3>1
    <3>3. /\ q.isolated => \A c \in Held(u.members) : q.kp \in c.kps /\ A!Isolated(c) /\ c.kps = {q.kp}
          /\ \E c \in Held(u.members) : q.kp \in c.kps
      BY <1>1, <2>1, <3>1, <3>2, ServingCounts
    <3> QED
      BY <3>1, <3>2, <3>3
  <2>7. CASE q.isolated
    <3>1. Ss \in SUBSET Cs
      BY <2>6, <2>7 DEF HeldIn
    <3> HIDE DEF Cs, Ss
    <3>2. Cardinality(Ss) <= Cardinality(Cs)
      BY <2>4, <3>1, FS_Subset
    <3>3. Cardinality(Cs) >= q.least
      BY <2>1, <2>2, <2>3, <2>5, <3>2
    <3> QED
      BY <2>7, <3>3 DEF Cs
  <2>8. CASE ~q.isolated
    <3>1. Cardinality(Ss) # 0
      BY <2>1, <2>2, <2>3
    <3>2. Ss # {}
      <4> HIDE DEF Ss
      <4> QED
        BY <3>1, FS_EmptySet
    <3>3. PICK u \in ServingIn(t, q) : TRUE
      BY <3>2 DEF HeldIn
    <3>4. Cs # {}
      BY <2>6, <2>8, <3>3
    <3>5. Cardinality(Cs) # 0
      <4> HIDE DEF Cs
      <4> QED
        BY <2>4, <3>4, FS_EmptySet
    <3>6. Cardinality(Cs) >= 1
      <4> HIDE DEF Cs
      <4> QED
        BY <2>5, <3>5
    <3> QED
      BY <2>8, <3>6 DEF Cs
  <2> QED
    BY <2>1, <2>7, <2>8
<1>10. Len(items) >= p.min
  <2>1. A!Size(t) \in Nat /\ p.min \in Int
    BY <1>2, <1>3 DEF Compiled
  <2> QED
    BY <1>2, <2>1
<1>11. a.exceeded > 0 => "soft_target" \in p.decisions
  <2>1. CASE p.soft
    BY <2>1 DEF Compiled
  <2>2. CASE ~p.soft
    BY <2>2
  <2> QED
    BY <2>1, <2>2
<1>12. \A q \in A!Range(p.quotas) :
         A!Cardinality({c \in paper : q.kp \in c.kps /\ (q.isolated => A!Isolated(c) /\ c.kps = {q.kp})})
           >= IF q.isolated THEN q.least ELSE 1
  BY <1>9, SameSize
<1>13. a.items = items
  BY DEF items
<1> QED
  BY <1>2, <1>3, <1>4, <1>7, <1>8, <1>10, <1>11, <1>12, <1>13 DEF A!PaperLegal, Es, paper

\* The candidates that are eligible and those left out for each of the
\* reasons are all of the pool.
LEMMA DropsAddUp ==
  ASSUME NEW p, NEW pool, IsFiniteSet(pool), NEW shown
  PROVE  /\ DOMAIN A!Drops(p, pool, shown) \subseteq A!Range(A!Reasons)
         /\ Cardinality(pool) = Cardinality(A!Eligible(p, pool, shown)) + A!Dropped(A!Drops(p, pool, shown))
<1> DEFINE drops == A!Drops(p, pool, shown)
           reason == [c \in pool |-> A!DropReason(p, c, shown)]
           Of(r) == {c \in pool : reason[c] = r}
           g == [i \in 1..8 |-> Of(A!Reasons[i])]
           s == [i \in 1..8 |-> IF A!Reasons[i] \in DOMAIN drops THEN drops[A!Reasons[i]] ELSE 0]
           Out == UNION {g[i] : i \in 1..8}
           Es == A!Eligible(p, pool, shown)
<1>1. DOMAIN A!Reasons = 1..8 /\ \A i, j \in 1..8 : A!Reasons[i] = A!Reasons[j] => i = j
  <2>1. DOMAIN A!Reasons = 1..8
    BY DEF A!Reasons
  <2>2. /\ A!Reasons[1] = "gradeband_mismatch" /\ A!Reasons[2] = "kp_out_of_scope"
        /\ A!Reasons[3] = "purpose_not_licensed" /\ A!Reasons[4] = "exposed_item"
        /\ A!Reasons[5] = "exposed_template" /\ A!Reasons[6] = "missing_p_correct_prior"
        /\ A!Reasons[7] = "p_correct_out_of_range" /\ A!Reasons[8] = "relation_declaration_invalid"
    BY DEF A!Reasons
  <2>3. \A i \in 1..8 : i \in {1, 2, 3, 4, 5, 6, 7, 8}
    OBVIOUS
  <2> QED
    BY <2>1, <2>2, <2>3
<1>2. ASSUME NEW c \in pool PROVE reason[c] = NONE \/ \E i \in 1..8 : reason[c] = A!Reasons[i]
  <2> DEFINE r == A!DropReason(p, c, shown)
  <2>1. r \in {"gradeband_mismatch", "kp_out_of_scope", "purpose_not_licensed", "exposed_item", "exposed_template",
               "missing_p_correct_prior", "p_correct_out_of_range", "relation_declaration_invalid", NONE}
    BY Zenon DEF A!DropReason
  <2>2. reason[c] = r
    OBVIOUS
  <2>3. /\ A!Reasons[1] = "gradeband_mismatch" /\ A!Reasons[2] = "kp_out_of_scope"
        /\ A!Reasons[3] = "purpose_not_licensed" /\ A!Reasons[4] = "exposed_item"
        /\ A!Reasons[5] = "exposed_template" /\ A!Reasons[6] = "missing_p_correct_prior"
        /\ A!Reasons[7] = "p_correct_out_of_range" /\ A!Reasons[8] = "relation_declaration_invalid"
    BY DEF A!Reasons
  <2>4. 1 \in 1..8 /\ 2 \in 1..8 /\ 3 \in 1..8 /\ 4 \in 1..8 /\ 5 \in 1..8 /\ 6 \in 1..8 /\ 7 \in 1..8 /\ 8 \in 1..8
    OBVIOUS
  <2> HIDE DEF r, reason
  <2> QED
    BY <2>1, <2>2, <2>3, <2>4
<1>3. \A i \in 1..8 : A!Reasons[i] # NONE
  BY <1>1, NoneAssumption
<1>4. DOMAIN drops = {reason[c] : c \in pool} \ {NONE} /\ \A r \in DOMAIN drops : drops[r] = Cardinality(Of(r))
  <2>1. \A r : {c \in pool : A!DropReason(p, c, shown) = r} = Of(r)
    OBVIOUS
  <2>2. {A!DropReason(p, c, shown) : c \in pool} = {reason[c] : c \in pool}
    OBVIOUS
  <2>3. DOMAIN drops = {A!DropReason(p, c, shown) : c \in pool} \ {NONE}
    BY DEF A!Drops
  <2>4. \A r \in DOMAIN drops : drops[r] = A!Cardinality({c \in pool : A!DropReason(p, c, shown) = r})
    BY DEF A!Drops
  <2> HIDE DEF reason, Of, drops
  <2> QED
    BY <2>1, <2>2, <2>3, <2>4, SameSize
<1> HIDE DEF drops
<1>5. DOMAIN drops \subseteq A!Range(A!Reasons)
  <2> HIDE DEF reason, Of
  <2> QED
    BY <1>1, <1>2, <1>4 DEF A!Range
<1>6. Es = Of(NONE)
  BY DEF A!Eligible
<1>7. \A r : IsFiniteSet(Of(r)) /\ Of(r) \in SUBSET pool
  <2>1. \A r : Of(r) \in SUBSET pool
    OBVIOUS
  <2> HIDE DEF Of
  <2> QED
    BY <2>1, FS_Subset
<1>8. \A i \in 1..8 : g[i] = Of(A!Reasons[i]) /\ g[i] \in SUBSET pool
  <2>1. \A i \in 1..8 : g[i] = Of(A!Reasons[i])
    OBVIOUS
  <2> HIDE DEF Of, g
  <2> QED
    BY <1>7, <2>1
<1>9. ASSUME NEW i \in 1..8 PROVE s[i] = Cardinality(g[i]) /\ s[i] \in Int
  <2>1. s[i] = IF A!Reasons[i] \in DOMAIN drops THEN drops[A!Reasons[i]] ELSE 0
    OBVIOUS
  <2>2. A!Reasons[i] \notin DOMAIN drops => Of(A!Reasons[i]) = {}
    <3>1. \A r : r \notin DOMAIN drops /\ r # NONE => Of(r) = {}
      BY <1>4
    <3> HIDE DEF Of
    <3> QED
      BY <1>3, <3>1
  <2>3. s[i] = Cardinality(Of(A!Reasons[i]))
    <3> HIDE DEF s, Of
    <3> QED
      BY <1>4, <2>1, <2>2, FS_EmptySet
  <2>4. Cardinality(Of(A!Reasons[i])) \in Nat
    <3> HIDE DEF Of
    <3> QED
      BY <1>7, FS_CardinalityType
  <2> HIDE DEF s, g, Of
  <2> QED
    BY <1>8, <2>3, <2>4
<1>10. \A i, j \in 1..8 : i # j => g[i] \cap g[j] = {}
  <2>1. \A q, r : q # r => Of(q) \cap Of(r) = {}
    OBVIOUS
  <2> HIDE DEF Of, g
  <2> QED
    BY <1>1, <1>8, <2>1
<1>11. g \in [1..8 -> SUBSET pool] /\ s \in [1..8 -> Int]
  <2>1. \A i \in 1..8 : Of(A!Reasons[i]) \in SUBSET pool
    OBVIOUS
  <2>2. g \in [1..8 -> SUBSET pool]
    <3> HIDE DEF Of
    <3> QED
      BY <2>1
  <2> DEFINE At(i) == IF A!Reasons[i] \in DOMAIN drops THEN drops[A!Reasons[i]] ELSE 0
  <2>3. \A i \in 1..8 : At(i) = s[i]
    OBVIOUS
  <2>4. \A i \in 1..8 : At(i) \in Int
    <3> HIDE DEF s, At
    <3> QED
      BY <1>9, <2>3
  <2>5. s = [i \in 1..8 |-> At(i)]
    OBVIOUS
  <2>6. s \in [1..8 -> Int]
    <3> HIDE DEF s, At
    <3> QED
      BY <2>4, <2>5
  <2> QED
    BY <2>2, <2>6
<1>12. S!Total(s) = Cardinality(Out)
  <2>1. 8 \in Nat
    OBVIOUS
  <2> HIDE DEF g, s
  <2> QED
    BY <1>9, <1>10, <1>11, <2>1, SumOfParts
<1>13. pool = Es \cup Out /\ Es \cap Out = {}
  <2>1. \A x \in pool : x \in Of(reason[x])
    OBVIOUS
  <2>2. \A x, r : x \in Of(r) => x \in pool /\ reason[x] = r
    OBVIOUS
  <2>3. \A x : x \in Out <=> \E i \in 1..8 : x \in Of(A!Reasons[i])
    <3> HIDE DEF Of, g
    <3> QED
      BY <1>8
  <2> HIDE DEF Of, Out, reason, Es
  <2>4. \A x \in pool : x \in Es \/ x \in Out
    BY <1>2, <1>6, <2>1, <2>2, <2>3
  <2>5. \A x : ~(x \in Es /\ x \in Out)
    BY <1>3, <1>6, <2>2, <2>3
  <2>6. \A x : x \in Es \/ x \in Out => x \in pool
    BY <1>6, <2>2, <2>3
  <2> QED
    BY <2>4, <2>5, <2>6
<1>14. Cardinality(pool) = Cardinality(Es) + S!Total(s)
  <2>1. Es \in SUBSET pool /\ Out \in SUBSET pool
    <3> HIDE DEF Es, Out
    <3> QED
      BY <1>13
  <2> HIDE DEF Es, Out, s
  <2>2. IsFiniteSet(Es) /\ IsFiniteSet(Out)
    BY <2>1, FS_Subset
  <2>3. Cardinality(Es \cup Out) = Cardinality(Es) + Cardinality(Out) - Cardinality(Es \cap Out)
    BY <2>2, FS_Union
  <2>4. Cardinality(Es \cap Out) = 0 /\ Cardinality(Es) \in Nat /\ Cardinality(Out) \in Nat
    BY <1>13, <2>2, FS_EmptySet, FS_CardinalityType
  <2> QED
    BY <1>12, <1>13, <2>3, <2>4
<1>15. A!Dropped(drops) = S!Total(s)
  <2>1. s = [i \in DOMAIN A!Reasons |-> IF A!Reasons[i] \in DOMAIN drops THEN drops[A!Reasons[i]] ELSE 0]
    BY <1>1
  <2> HIDE DEF s
  <2> QED
    BY <2>1, SameTotal DEF A!Dropped
<1> HIDE DEF s
<1> QED
  BY <1>5, <1>14, <1>15 DEF drops

(* The candidates that can serve a quota whatever else is taken.           *)
CountingFor(Es, q) ==
  {c \in Es : /\ q.kp \in c.kps
              /\ q.isolated => /\ A!Isolated(c) /\ c.kps = {q.kp}
                               /\ c.group = NONE \/ A!InGroup(Es, c.group) = {c}}

\* A quota that is not served has fewer candidates than it asks for, if
\* every unit that serves it is selected and no group was left out.
LEMMA ShortIsShort ==
  ASSUME NEW Es, PoolFits(Es), A!Oversized(Es) = {}, NEW p, NEW t \in Selections(p, A!UnitsOf(Es)),
         NEW q, q.isolated \in BOOLEAN, q.least \in Nat, A!Served(t, q) < q.least,
         \A u \in A!UnitsOf(Es) : A!Serves(u, q) => u \in Held(t)
  PROVE  Cardinality(CountingFor(Es, q)) < q.least
<1> DEFINE Ss == HeldIn(ServingIn(t, q))
<1>1. A!Served(t, q) = Cardinality(Ss) /\ A!Served(t, q) \in Nat /\ IsFiniteSet(Ss)
  BY SizesAre
<1>2. ASSUME NEW c \in CountingFor(Es, q) PROVE c \in Ss
  <2> DEFINE u == UnitOf(Es, c)
  <2>1. c \in Es /\ q.kp \in c.kps
    BY DEF CountingFor
  <2>2. u \in A!UnitsOf(Es) /\ c \in Held(u.members)
    BY <2>1, UnitsListed
  <2>3. UnitFits(Es, u)
    BY <2>2, UnitsFit
  <2> HIDE DEF u
  <2>4. u.kps = UNION {m.kps : m \in Held(u.members)}
    BY <2>3 DEF UnitFits
  <2>5. CASE q.isolated
    <3>1. A!Isolated(c) /\ c.kps = {q.kp} /\ (c.group = NONE \/ A!InGroup(Es, c.group) = {c})
      BY <2>5 DEF CountingFor
    <3>2. Held(u.members) = {c}
      BY <2>2, <2>3, <3>1 DEF UnitFits
    <3>3. Cardinality(Held(u.members)) = 1 /\ \A m \in Held(u.members) : A!Isolated(m)
      BY <3>1, <3>2, FS_Singleton
    <3>4. u.isolated
      BY <2>3, <3>3 DEF UnitFits
    <3>5. u.kps = {q.kp}
      BY <2>4, <3>1, <3>2
    <3>6. A!Serves(u, q)
      BY <2>5, <3>4, <3>5 DEF A!Serves
    <3> QED
      BY <2>2, <3>6 DEF HeldIn, ServingIn
  <2>6. CASE ~q.isolated
    <3>1. A!Serves(u, q)
      BY <2>1, <2>2, <2>4, <2>6 DEF A!Serves
    <3> QED
      BY <2>2, <3>1 DEF HeldIn, ServingIn
  <2> QED
    BY <2>5, <2>6
<1>3. CountingFor(Es, q) \in SUBSET Ss
  BY <1>2
<1> HIDE DEF Ss
<1>4. IsFiniteSet(CountingFor(Es, q)) /\ Cardinality(CountingFor(Es, q)) <= Cardinality(Ss)
  BY <1>1, <1>3, FS_Subset
<1>5. Cardinality(CountingFor(Es, q)) \in Nat
  BY <1>4, FS_CardinalityType
<1> QED
  BY <1>1, <1>4, <1>5

\* What the solver answers is legal, whether it is a paper or a refusal.
LEMMA AssembledIsLegal ==
  ASSUME NEW p, Compiled(p), \A i \in DOMAIN p.quotas : p.quotas[i].isolated \in BOOLEAN,
         NEW pool, PoolFits(pool), NEW shown
  PROVE  A!PaperLegal(p, pool, shown, A!Assemble(p, pool, shown))
<1> DEFINE Es == A!Eligible(p, pool, shown)
           units == A!Units(Es)
           t == A!FillMinimum(p, units, A!FillQuotas(p, units))
           Short == {q \in A!Range(p.quotas) : A!Served(t, q) < q.least}
           conflicts == {<<"max_items_per_group", g>> : g \in A!Oversized(Es)}
                        \cup {<<"kp_quota", q.kp>> : q \in Short}
                        \cup (IF A!Size(t) < p.min THEN {<<"item_count", NONE>>} ELSE {})
           drops == A!Drops(p, pool, shown)
           refusal == [kind |-> "infeasible", conflicts |-> conflicts, pool |-> A!Cardinality(pool),
                       eligible |-> A!Cardinality(Es), drops |-> drops]
           paper == [kind |-> "paper", items |-> ItemsOf(p, t),
                     exceeded |-> IF p.soft /\ A!Size(t) > p.max THEN A!Size(t) - p.max ELSE 0]
           a == A!Assemble(p, pool, shown)
<1>1. a = IF conflicts # {} THEN refusal ELSE paper
  BY Zenon DEF A!Assemble, ItemsOf
<1>2. Es \in SUBSET pool /\ PoolFits(Es)
  <2>1. Es \in SUBSET pool
    BY DEF A!Eligible
  <2> HIDE DEF Es
  <2>2. IsFiniteSet(Es)
    BY <2>1, FS_Subset DEF PoolFits
  <2> QED
    BY <2>1, <2>2 DEF PoolFits
<1>3. t \in Selections(p, A!UnitsOf(Es)) /\ ShortOnlyOfAll(p, A!UnitsOf(Es), t)
  <2> HIDE DEF Es
  <2> QED
    BY <1>2, SelectionMade
<1> HIDE DEF Es, t, units, a
<1>4. CASE conflicts = {}
  <2>1. \A q \in A!Range(p.quotas) : ~(A!Served(t, q) < q.least)
    BY <1>4
  <2>2. ~(A!Size(t) < p.min)
    BY <1>4
  <2>3. /\ a.kind = "paper" /\ a.items = ItemsOf(p, t)
        /\ a.exceeded = IF p.soft /\ A!Size(t) > p.max THEN A!Size(t) - p.max ELSE 0
    <3> HIDE DEF conflicts, refusal
    <3>1. a = paper
      BY <1>1, <1>4
    <3> QED
      BY <3>1
  <2>4. A!PaperLegal(p, pool, shown, a)
    BY <1>3, <2>1, <2>2, <2>3, PaperIsLegal DEF Es
  <2> QED
    BY <2>4 DEF a
<1>5. CASE conflicts # {}
  <2>1. /\ a.kind = "infeasible" /\ a.conflicts = conflicts /\ a.pool = Cardinality(pool) /\ a.eligible = Cardinality(Es)
        /\ a.drops = drops
    <3> HIDE DEF conflicts, paper, drops
    <3>1. a = refusal
      BY <1>1, <1>5
    <3> QED
      BY <3>1, SameSize
  <2>2. /\ DOMAIN drops \subseteq A!Range(A!Reasons)
        /\ Cardinality(pool) = Cardinality(Es) + A!Dropped(drops)
    <3>1. IsFiniteSet(pool)
      BY DEF PoolFits
    <3> QED
      BY <3>1, DropsAddUp DEF Es
  <2>3. ASSUME ~p.oneTemplate, A!Oversized(Es) = {}, NEW q \in A!Range(p.quotas), <<"kp_quota", q.kp>> \in conflicts
        PROVE  Cardinality(CountingFor(Es, q)) < q.least
    <3>1. PICK r \in Short : r.kp = q.kp
      BY <2>3
    <3>2. DOMAIN p.quotas = 1..Len(p.quotas)
      BY DEF Compiled, Listed
    <3>3. PICK k \in DOMAIN p.quotas : q = p.quotas[k]
      BY DEF A!Range
    <3>4. r = q
      BY <3>1, <3>3 DEF Compiled, A!Range
    <3>5. A!Served(t, q) < q.least /\ q.least \in Nat /\ q.isolated \in BOOLEAN
      BY <3>1, <3>3, <3>4 DEF Compiled
    <3>6. \A u \in A!UnitsOf(Es) : A!Serves(u, q) => u \in Held(t)
      BY <1>3, <2>3, <3>2, <3>3, <3>5 DEF ShortOnlyOfAll
    <3> QED
      BY <1>2, <1>3, <2>3, <3>5, <3>6, ShortIsShort
  <2> HIDE DEF conflicts, drops
  <2>4. \A q : A!Cardinality(CountingFor(Es, q)) = Cardinality(CountingFor(Es, q))
    BY SameSize
  <2>5. A!PaperLegal(p, pool, shown, a)
    BY <2>1, <2>2, <2>3, <2>4 DEF A!PaperLegal, Es, CountingFor
  <2> QED
    BY <2>5 DEF a
<1> QED
  BY <1>4, <1>5

\* What is compiled is what the solver may ask of.
LEMMA CompiledFits ==
  ASSUME NEW call0, ProfileFits(call0),
         A!Compile(call0.purpose, "M", call0.kps, call0.overlays, call0.least, call0.soften).kind = "profile"
  PROVE  LET p == A!Compile(call0.purpose, "M", call0.kps, call0.overlays, call0.least, call0.soften)
         IN Compiled(p) /\ \A i \in DOMAIN p.quotas : p.quotas[i].isolated \in BOOLEAN
<1> DEFINE overlays == call0.overlays
           kps == call0.kps
           n == Len(kps)
           least == IF call0.least # NONE THEN call0.least ELSE IF call0.purpose = "diagnosis" THEN 3 ELSE 1
           quotas == A!Quotas(call0.purpose, kps, call0.least)
           count == A!Setting(overlays, "item_count_range", <<10, 20>>)
           mix == A!Setting(overlays, "content_mix", <<>>)
           p == A!Compile(call0.purpose, "M", kps, overlays, call0.least, call0.soften)
<1>1. n \in Nat /\ DOMAIN kps = 1..n /\ Len(overlays) \in Nat /\ DOMAIN overlays = 1..Len(overlays) /\ least \in Nat \ {0}
  BY DEF ProfileFits, Listed
<1>2. ASSUME NEW name, NEW otherwise
      PROVE  \/ A!Setting(overlays, name, otherwise) = otherwise
             \/ \E i \in DOMAIN overlays : name \in DOMAIN overlays[i] /\ A!Setting(overlays, name, otherwise) = overlays[i][name]
  <2> DEFINE naming == {i \in DOMAIN overlays : name \in DOMAIN overlays[i]}
  <2>1. A!Setting(overlays, name, otherwise) = IF naming = {} THEN otherwise ELSE overlays[A!Max(naming)][name]
    BY DEF A!Setting
  <2>2. naming \in SUBSET (1..Len(overlays)) /\ IsFiniteSet(1..Len(overlays))
    BY <1>1, FS_Interval
  <2>3. \A i \in naming : i \in DOMAIN overlays /\ name \in DOMAIN overlays[i]
    OBVIOUS
  <2> HIDE DEF naming, overlays
  <2>4. IsFiniteSet(naming) /\ naming \in SUBSET Int
    <3>1. IsFiniteSet(naming)
      BY <2>2, FS_Subset
    <3> QED
      BY <2>2, <3>1
  <2>5. naming # {} => A!Max(naming) \in naming
    BY <2>4, Extremes, SameEnds
  <2> QED
    BY <2>1, <2>3, <2>5
<1>3. count[1] \in Int /\ count[2] \in Int
  <2>1. <<10, 20>> \in Int \X Int
    OBVIOUS
  <2>2. \A i \in DOMAIN overlays : "item_count_range" \in DOMAIN overlays[i] => overlays[i]["item_count_range"] \in Int \X Int
    BY DEF ProfileFits
  <2>3. count \in Int \X Int
    <3>1. \/ count = <<10, 20>>
          \/ \E i \in DOMAIN overlays : "item_count_range" \in DOMAIN overlays[i] /\ count = overlays[i]["item_count_range"]
      BY <1>2
    <3> HIDE DEF count, overlays
    <3> QED
      BY <2>1, <2>2, <3>1
  <2> HIDE DEF count
  <2> QED
    BY <2>3
<1>4. \A tag \in DOMAIN mix : mix[tag] \in Int
  <2>1. \A i \in DOMAIN overlays : "content_mix" \in DOMAIN overlays[i] =>
          \A tag \in DOMAIN overlays[i]["content_mix"] : overlays[i]["content_mix"][tag] \in Int
    BY DEF ProfileFits
  <2>2. \/ mix = <<>>
        \/ \E i \in DOMAIN overlays : "content_mix" \in DOMAIN overlays[i] /\ mix = overlays[i]["content_mix"]
    BY <1>2
  <2>3. DOMAIN <<>> = {}
    OBVIOUS
  <2> HIDE DEF mix, overlays
  <2> QED
    BY <2>1, <2>2, <2>3
<1>5. /\ DOMAIN quotas = 1..n /\ Len(quotas) = n
      /\ \A i \in 1..n : quotas[i] = [kp |-> kps[i], isolated |-> call0.purpose = "diagnosis", least |-> least]
  <2>1. quotas = [i \in 1..n |-> [kp |-> kps[i], isolated |-> call0.purpose = "diagnosis", least |-> least]]
    BY <1>1, Zenon DEF A!Quotas
  <2> HIDE DEF quotas, least, n
  <2> QED
    BY <1>1, <2>1
<1>6. A!Required(quotas) \in Int
  <2> DEFINE s == [i \in 1..n |-> least]
  <2>1. [i \in DOMAIN quotas |-> quotas[i].least] = s
    <3> HIDE DEF quotas, least, n
    <3> QED
      BY <1>5
  <2>2. s \in [1..n -> Int]
    BY <1>1
  <2>3. A!Required(quotas) = S!Total(s)
    <3> HIDE DEF s, quotas
    <3> QED
      BY <2>1, SameTotal DEF A!Required
  <2> HIDE DEF s, n
  <2>4. PICK t \in [0..n -> Int] : S!Total(s) = t[n]
    BY <1>1, <2>2, TotalSteps
  <2>5. n \in 0..n
    BY <1>1
  <2> QED
    BY <2>3, <2>4, <2>5
<1> DEFINE over == A!Required(quotas) > count[2]
<1>7. /\ p.quotas = quotas /\ p.mix = mix /\ p.soft = over
      /\ p.min = IF count[1] < A!Required(quotas) THEN A!Required(quotas) ELSE count[1]
      /\ p.decisions = (IF over THEN {"soft_target"} ELSE {})
                       \cup (IF count[1] < A!Required(quotas) THEN {"raise_min"} ELSE {})
  <2>1. p.kind = "profile"
    OBVIOUS
  <2>2. ~(over /\ ~call0.soften)
    <3>1. ASSUME over /\ ~call0.soften PROVE p = [kind |-> "refused"]
      BY <3>1, Zenon DEF A!Compile
    <3>2. ASSUME p = [kind |-> "refused"] PROVE FALSE
      BY <2>1, <3>2
    <3> QED
      BY <3>1, <3>2
  <2> HIDE DEF p
  <2>3. p = [kind |-> "profile", purpose |-> call0.purpose, band |-> "M", quotas |-> quotas,
             min |-> IF count[1] < A!Required(quotas) THEN A!Required(quotas) ELSE count[1],
             max |-> count[2], soft |-> over,
             rate |-> A!Setting(overlays, "target_p_correct_range", NONE),
             margin |-> A!Setting(overlays, "uncertainty_margin", 1),
             gradient |-> A!Setting(overlays, "require_gradient_monotone", TRUE),
             oneTemplate |-> A!Setting(overlays, "same_template_different_paper", TRUE),
             crossPeriod |-> ~A!Setting(overlays, "cross_period_repeat", FALSE),
             mix |-> mix,
             relations |-> A!Setting(overlays, "multi_point_relation_check", call0.purpose = "diagnosis"),
             decisions |-> (IF over THEN {"soft_target"} ELSE {})
                           \cup (IF count[1] < A!Required(quotas) THEN {"raise_min"} ELSE {})]
    BY <2>2, Zenon DEF A!Compile, p
  <2> HIDE DEF over, quotas, count, mix, overlays
  <2> QED
    BY <2>3
<1>8. p.min \in Int
  <2> HIDE DEF quotas, count, mix, p
  <2> QED
    BY <1>3, <1>6, <1>7
<1>9. p.soft => "soft_target" \in p.decisions
  <2> HIDE DEF p, over
  <2> QED
    BY <1>7
<1>10. Listed(p.quotas)
  <2> HIDE DEF p, quotas, n
  <2> QED
    BY <1>1, <1>5, <1>7 DEF Listed
<1>11. ASSUME NEW i \in DOMAIN p.quotas, NEW j \in DOMAIN p.quotas
       PROVE  /\ p.quotas[i].least \in Nat \ {0} /\ p.quotas[i].isolated \in BOOLEAN
              /\ p.quotas[i].kp = p.quotas[j].kp => p.quotas[i] = p.quotas[j]
  <2>1. i \in 1..n /\ j \in 1..n
    <3> HIDE DEF p, quotas, n
    <3> QED
      BY <1>5, <1>7
  <2>2. /\ p.quotas[i] = [kp |-> kps[i], isolated |-> call0.purpose = "diagnosis", least |-> least]
        /\ p.quotas[j] = [kp |-> kps[j], isolated |-> call0.purpose = "diagnosis", least |-> least]
    <3> HIDE DEF p, quotas, n, kps, least
    <3> QED
      BY <1>5, <1>7, <2>1
  <2> HIDE DEF p, least
  <2> QED
    BY <1>1, <2>2
<1>12. \A tag \in DOMAIN p.mix : p.mix[tag] \in Int
  <2> HIDE DEF p, mix
  <2> QED
    BY <1>4, <1>7
<1> HIDE DEF p
<1>13. Compiled(p) /\ \A i \in DOMAIN p.quotas : p.quotas[i].isolated \in BOOLEAN
  BY <1>8, <1>9, <1>10, <1>11, <1>12 DEF Compiled
<1> QED
  BY <1>13 DEF p

-----------------------------------------------------------------------------
\* The class and the trigger accept the same tables.
LEMMA TablesAgree ==
  ASSUME NEW cells, CellsFit(cells), KeysFit(cells)
  PROVE  M!ValidatorsAgree(cells)
<1> DEFINE n == Len(cells)
           Fits(i) == M!CellFits(cells[i])
           Apart(i, j) == cells[i].content # cells[j].content \/ cells[i].level # cells[j].level
           keys == [i \in 1..n |-> M!Key(cells[i])]
<1>1. n \in Nat /\ DOMAIN cells = 1..n
  BY DEF CellsFit, Listed
<1>2. ASSUME NEW i \in 1..n, NEW before
      PROVE  M!Refused(cells[i], before) <=> ~Fits(i) \/ M!Key(cells[i]) \in before
  <2>1. cells[i].count \in Int /\ cells[i].low \in Int /\ cells[i].high \in Int
    BY <1>1 DEF CellsFit
  <2>2. {cells[i].low, cells[i].high} \subseteq 0..10 <=>
          ~(cells[i].low < 0) /\ ~(cells[i].low > 10) /\ ~(cells[i].high < 0) /\ ~(cells[i].high > 10)
    <3>1. \A x \in Int : x \in 0..10 <=> ~(x < 0) /\ ~(x > 10)
      OBVIOUS
    <3>2. {cells[i].low, cells[i].high} \subseteq 0..10 <=> cells[i].low \in 0..10 /\ cells[i].high \in 0..10
      BY Zenon
    <3> QED
      BY <2>1, <3>1, <3>2
  <2>3. (cells[i].count >= 0 <=> ~(cells[i].count < 0)) /\ (cells[i].low <= cells[i].high <=> ~(cells[i].low > cells[i].high))
    BY <2>1
  <2> QED
    BY <2>2, <2>3 DEF M!Refused, M!CellFits
<1>3. ASSUME NEW i \in 1..n, NEW j \in 1..n, Fits(i), Fits(j)
      PROVE  M!Key(cells[i]) = M!Key(cells[j]) <=> ~Apart(i, j)
  <2>1. {cells[i].level, cells[j].level} \subseteq M!Levels
    BY <1>3 DEF M!CellFits
  <2>2. M!Key(cells[i]) = M!Key(cells[j]) => ~Apart(i, j)
    BY <1>1, <2>1 DEF KeysFit
  <2>3. ~Apart(i, j) => M!Key(cells[i]) = M!Key(cells[j])
    BY DEF M!Key
  <2> QED
    BY <2>2, <2>3
<1> DEFINE Before(i) == {M!Key(cells[j]) : j \in 1..(i - 1)}
<1>4. M!TableFits(cells) <=> /\ cells # <<>> /\ \A i \in 1..n : Fits(i)
                             /\ M!TotalCount(cells) > 0
                             /\ \A i, j \in 1..n : i # j => Apart(i, j)
  BY <1>1 DEF M!TableFits
<1>5. M!TriggerAdmits(cells) <=> /\ cells # <<>> /\ \A i \in 1..n : ~M!Refused(cells[i], Before(i))
                                 /\ M!TotalCount(cells) > 0
  BY <1>1 DEF M!TriggerAdmits
<1>6. ASSUME \A i \in 1..n : Fits(i), \A i, j \in 1..n : i # j => Apart(i, j), NEW i \in 1..n
      PROVE  ~M!Refused(cells[i], Before(i))
  <2>1. ASSUME NEW j \in 1..(i - 1), M!Key(cells[i]) = M!Key(cells[j]) PROVE FALSE
    <3>1. j \in 1..n /\ i # j
      BY <1>1
    <3> HIDE DEF Fits, Apart, n
    <3> QED
      BY <1>3, <1>6, <2>1, <3>1
  <2>2. M!Key(cells[i]) \notin Before(i)
    BY <2>1
  <2> HIDE DEF Fits, Before, n
  <2> QED
    BY <1>2, <1>6, <2>2
<1>7. ASSUME \A i \in 1..n : ~M!Refused(cells[i], Before(i)), NEW i \in 1..n, NEW j \in 1..n, i # j
      PROVE  Fits(i) /\ Apart(i, j)
  <2>1. \A k \in 1..n : Fits(k) /\ M!Key(cells[k]) \notin Before(k)
    <3> HIDE DEF Fits, Before, n
    <3> QED
      BY <1>2, <1>7
  <2>2. \A k, l \in 1..n : l < k => M!Key(cells[l]) \in Before(k)
    <3>1. \A k, l \in 1..n : l < k => l \in 1..(k - 1)
      BY <1>1
    <3> QED
      BY <3>1
  <2>3. M!Key(cells[i]) # M!Key(cells[j])
    <3>1. i < j \/ j < i
      BY <1>1, <1>7
    <3> HIDE DEF Fits, Before, n
    <3> QED
      BY <2>1, <2>2, <3>1
  <2> HIDE DEF Fits, Apart, n, Before
  <2> QED
    BY <1>3, <2>1, <2>3
<1>8. ASSUME \A i \in 1..n : ~M!Refused(cells[i], Before(i)), NEW i \in 1..n PROVE Fits(i)
  <2> HIDE DEF Fits, Before, n
  <2> QED
    BY <1>2, <1>8
<1> HIDE DEF Fits, Apart, Before, n
<1> QED
  BY <1>4, <1>5, <1>6, <1>7, <1>8 DEF M!ValidatorsAgree

\* What the search finds complies, and what it reports as short is short.
LEMMA SearchIsHonest ==
  ASSUME NEW cells, CellsFit(cells), NEW pool, IsFiniteSet(pool), \A c \in pool : c.p \in Int, NEW shown, NEW limited \in BOOLEAN,
         NEW s \in M!Solve(cells, pool, shown, limited)
  PROVE  M!SearchHonest(cells, pool, shown, limited, s)
<1> DEFINE n == Len(cells)
           found == M!Places(cells, pool, shown)
           Of(f, k) == {c \in pool : f[c] = k}
<1>1. n \in Nat /\ DOMAIN cells = 1..n /\ \A k \in 1..n : cells[k].count \in Int /\ cells[k].low \in Int /\ cells[k].high \in Int
  BY DEF CellsFit, Listed
<1>2. ASSUME NEW f \in found
      PROVE  /\ f \in [pool -> 0..n]
             /\ \A c \in pool : f[c] # 0 => M!Matches(c, cells[f[c]]) /\ ~M!Excluded(c, shown)
             /\ \A k \in 1..n : Cardinality(Of(f, k)) = cells[k].count
             /\ \A c, d \in pool : M!SameGroup(c, d) => (f[c] = 0 <=> f[d] = 0)
  <2>1. \A k : M!Cardinality(Of(f, k)) = Cardinality(Of(f, k))
    BY SameSize
  <2> QED
    BY <1>1, <2>1 DEF M!Places
<1>3. \A k \in 1..n : cells[k].count = cells[k].count
  OBVIOUS
<1>4. ASSUME s.kind = "solution" PROVE M!SearchHonest(cells, pool, shown, limited, s)
  <2>1. PICK f \in found : s = [kind |-> "solution", cell |-> f]
    <3>1. \/ \E f \in found : s = [kind |-> "solution", cell |-> f]
          \/ s = M!Infeasible(cells, pool, shown)
      BY DEF M!Solve
    <3>2. M!Infeasible(cells, pool, shown).kind = "infeasible"
      BY DEF M!Infeasible
    <3> QED
      BY <1>4, <3>1, <3>2
  <2> DEFINE paper == M!BuildPaper(cells, s)
             chosen == UNION {paper[k].items : k \in DOMAIN paper}
             g == [k \in 1..n |-> Of(f, k)]
             counts == [k \in 1..n |-> cells[k].count]
  <2>2. /\ f \in [pool -> 0..n]
        /\ \A c \in pool : f[c] # 0 => M!Matches(c, cells[f[c]]) /\ ~M!Excluded(c, shown)
        /\ \A k \in 1..n : Cardinality(Of(f, k)) = cells[k].count
        /\ \A c, d \in pool : M!SameGroup(c, d) => (f[c] = 0 <=> f[d] = 0)
    BY <1>2
  <2>3. DOMAIN paper = 1..n /\ \A k \in 1..n : paper[k].items = Of(f, k)
    <3>1. s.cell = f /\ DOMAIN f = pool
      BY <2>1, <2>2
    <3> QED
      BY <1>1, <3>1 DEF M!BuildPaper
  <2> HIDE DEF paper
  <2>4. M!Violations(paper, cells) = {}
    <3>1. ASSUME NEW k \in 1..n PROVE M!Cardinality(paper[k].items) = cells[k].count
      BY <2>2, <2>3, SameSize
    <3>2. ASSUME NEW k \in 1..n, NEW c \in paper[k].items PROVE ~(c.p < cells[k].low \/ c.p > cells[k].high)
      <4>1. c \in pool /\ f[c] = k /\ k # 0
        BY <2>3, <3>2
      <4>2. cells[k].low <= c.p /\ c.p <= cells[k].high
        BY <2>2, <4>1 DEF M!Matches
      <4>3. c.p \in Int /\ cells[k].low \in Int /\ cells[k].high \in Int
        BY <1>1, <4>1
      <4> QED
        BY <4>2, <4>3
    <3> QED
      BY <1>1, <3>1, <3>2 DEF M!Violations
  <2>5. chosen = UNION {g[k] : k \in 1..n}
    BY <2>3
  <2>6. \A c : c \in chosen <=> c \in pool /\ f[c] \in 1..n
    BY <2>5
  <2>7. M!Cardinality(chosen) = M!TotalCount(cells)
    <3>1. \A k \in 1..n : g[k] \in SUBSET pool
      OBVIOUS
    <3>2. \A k, l \in 1..n : k # l => g[k] \cap g[l] = {}
      OBVIOUS
    <3>3. counts \in [1..n -> Int] /\ \A k \in 1..n : counts[k] = Cardinality(g[k])
      BY <1>1, <2>2
    <3>4. g \in [1..n -> SUBSET pool]
      OBVIOUS
    <3>5. M!TotalCount(cells) = S!Total(counts)
      BY <1>1, SameTotal DEF M!TotalCount
    <3> HIDE DEF g, counts, chosen, n
    <3>6. S!Total(counts) = Cardinality(UNION {g[k] : k \in 1..n})
      BY <1>1, <3>2, <3>3, <3>4, SumOfParts
    <3> QED
      BY <2>5, <3>5, <3>6, SameSize
  <2>8. ASSUME NEW c \in chosen PROVE ~M!Excluded(c, shown) /\ \A d \in pool : d.group = c.group /\ c.group # NONE => d \in chosen
    <3>1. c \in pool /\ f[c] # 0
      BY <1>1, <2>6
    <3>2. ASSUME NEW d \in pool, d.group = c.group, c.group # NONE PROVE d \in chosen
      <4>1. f[d] # 0
        BY <2>2, <3>1, <3>2 DEF M!SameGroup
      <4>2. f[d] \in 1..n
        BY <1>1, <2>2, <4>1
      <4> HIDE DEF chosen
      <4> QED
        BY <2>6, <4>2
    <3> QED
      BY <2>2, <3>1, <3>2
  <2> HIDE DEF chosen
  <2> QED
    BY <1>4, <2>4, <2>7, <2>8 DEF M!SearchHonest, chosen, paper
<1>5. ASSUME s.kind # "solution" PROVE M!SearchHonest(cells, pool, shown, limited, s)
  <2> DEFINE short == {k \in DOMAIN cells : M!EligibleCount(cells[k], pool, shown) < cells[k].count}
  <2>1. s = M!Infeasible(cells, pool, shown) /\ (found = {} \/ limited)
    <3>1. ASSUME NEW f \in found, s = [kind |-> "solution", cell |-> f] PROVE FALSE
      BY <1>5, <3>1
    <3> QED
      BY <3>1 DEF M!Solve
  <2>2. s.conflicts = IF short # {} THEN short ELSE {0}
    BY <2>1 DEF M!Infeasible
  <2>3. ASSUME NEW k \in short, NEW f \in found PROVE FALSE
    <3> DEFINE Fit == {c \in pool : ~M!Excluded(c, shown) /\ M!Matches(c, cells[k])}
    <3>1. k \in 1..n /\ k # 0 /\ M!EligibleCount(cells[k], pool, shown) < cells[k].count
      BY <1>1
    <3>2. /\ \A c \in pool : f[c] # 0 => M!Matches(c, cells[f[c]]) /\ ~M!Excluded(c, shown)
          /\ Cardinality(Of(f, k)) = cells[k].count
      BY <1>2, <3>1
    <3>3. Of(f, k) \in SUBSET Fit /\ Fit \in SUBSET pool
      BY <3>1, <3>2
    <3>4. M!EligibleCount(cells[k], pool, shown) = Cardinality(Fit)
      BY SameSize DEF M!EligibleCount
    <3> HIDE DEF Fit, Of, short
    <3>5. IsFiniteSet(Fit) /\ Cardinality(Of(f, k)) <= Cardinality(Fit) /\ IsFiniteSet(Of(f, k))
      BY <3>3, FS_Subset
    <3>6. Cardinality(Of(f, k)) \in Nat /\ Cardinality(Fit) \in Nat
      BY <3>5, FS_CardinalityType
    <3> QED
      BY <3>1, <3>2, <3>4, <3>5, <3>6
  <2>4. s.conflicts # {0} => found = {}
    <3> HIDE DEF found, short
    <3> QED
      BY <2>2, <2>3
  <2> HIDE DEF short
  <2> QED
    BY <1>5, <2>1, <2>4 DEF M!SearchHonest
<1> QED
  BY <1>4, <1>5

-----------------------------------------------------------------------------
(* A list of one for every item of a kind, an empty one for the others.    *)
Singled(items, kind) == [i \in 1..Len(items) |-> IF items[i] \in kind THEN <<items[i]>> ELSE <<>>]

\* Of a list is kept what is of a kind.
LEMMA KeptHolds ==
  ASSUME NEW items, Listed(items), NEW kind
  PROVE  /\ Singled(items, kind) \in [1..Len(items) -> Seq(Held(items))] /\ Len(items) \in Nat
         /\ M!Kept(items, kind) = S!FlattenSeq(Singled(items, kind))
         /\ M!Kept(items, kind) \in Seq(Held(items)) /\ Held(M!Kept(items, kind)) = Held(items) \cap kind
<1> DEFINE n == Len(items)
           ss == Singled(items, kind)
<1>1. n \in Nat /\ DOMAIN items = 1..n
  BY DEF Listed
<1>2. M!Kept(items, kind) = S!FlattenSeq(ss)
  BY <1>1, SameFlat DEF M!Kept, Singled
<1>3. ASSUME NEW i \in 1..n
      PROVE  ss[i] \in Seq(Held(items)) /\ Held(ss[i]) = {items[i]} \cap kind
  <2>1. items[i] \in Held(items)
    BY DEF Held
  <2>2. CASE items[i] \in kind
    <3>1. ss[i] = <<items[i]>>
      BY <2>2 DEF Singled
    <3>2. Len(<<items[i]>>) = 1 /\ <<items[i]>>[1] = items[i] /\ 1..1 = {1}
      OBVIOUS
    <3>3. Held(<<items[i]>>) = {items[i]}
      BY <3>2 DEF Held
    <3> QED
      BY <2>1, <2>2, <3>1, <3>3
  <2>3. CASE items[i] \notin kind
    <3>1. ss[i] = <<>>
      BY <2>3 DEF Singled
    <3>2. Held(<<>>) = {}
      BY DEF Held
    <3> QED
      BY <2>3, <3>1, <3>2
  <2> QED
    BY <2>2, <2>3
<1>4. ss \in [1..n -> Seq(Held(items))]
  <2>1. ss = [i \in 1..n |-> ss[i]]
    BY DEF Singled
  <2> HIDE DEF ss, n
  <2> QED
    BY <1>3, <2>1
<1>5. S!FlattenSeq(ss) \in Seq(Held(items)) /\ Held(S!FlattenSeq(ss)) = UNION {Held(ss[i]) : i \in 1..n}
  <2> HIDE DEF ss, n
  <2> QED
    BY <1>1, <1>4, FlattenHolds
<1>6. UNION {Held(ss[i]) : i \in 1..n} = Held(items) \cap kind
  <2>1. \A x : x \in UNION {Held(ss[i]) : i \in 1..n} <=> \E i \in 1..n : x = items[i] /\ x \in kind
    <3> HIDE DEF ss, n
    <3> QED
      BY <1>3
  <2>2. \A x : x \in Held(items) <=> \E i \in 1..n : x = items[i]
    BY DEF Held
  <2> HIDE DEF ss, n
  <2> QED
    BY <2>1, <2>2
<1> QED
  BY <1>1, <1>2, <1>4, <1>5, <1>6

\* What is kept and what is not are all of the list together.
LEMMA KeptCounts ==
  ASSUME NEW items, Listed(items), NEW kind, NEW others, Held(items) \ kind = others
  PROVE  Len(M!Kept(items, kind)) + Len(M!Kept(items, others)) = Len(items)
<1> DEFINE n == Len(items)
           a == Singled(items, kind)
           b == Singled(items, others)
           X == Held(items)
<1>1. n \in Nat /\ a \in [1..n -> Seq(X)] /\ b \in [1..n -> Seq(X)]
  BY KeptHolds
<1>2. ASSUME NEW i \in 1..n
      PROVE  Len(a[i]) \in Nat /\ Len(b[i]) \in Nat /\ Len(a[i]) + Len(b[i]) = 1
  <2>1. items[i] \in X
    BY DEF Held
  <2>2. Len(<<items[i]>>) = 1 /\ Len(<<>>) = 0
    OBVIOUS
  <2>3. items[i] \in kind <=> items[i] \notin others
    BY <2>1
  <2> QED
    BY <2>2, <2>3 DEF Singled
<1> HIDE DEF a, b, X, n
<1>3. PICK f \in [0..n -> Seq(X)] : /\ f[0] = <<>> /\ \A i \in 1..n : f[i] = f[i - 1] \o a[i]
                                    /\ S!FlattenSeq(a) = f[n]
  BY <1>1, FlattenSteps
<1>4. PICK g \in [0..n -> Seq(X)] : /\ g[0] = <<>> /\ \A i \in 1..n : g[i] = g[i - 1] \o b[i]
                                    /\ S!FlattenSeq(b) = g[n]
  BY <1>1, FlattenSteps
<1> DEFINE T == {k \in 0..n : Len(f[k]) + Len(g[k]) = k}
<1>5. 0 \in T
  BY <1>1, <1>3, <1>4
<1>6. ASSUME NEW k \in 1..n, k - 1 \in T PROVE k \in T
  <2>1. /\ f[k - 1] \in Seq(X) /\ g[k - 1] \in Seq(X) /\ a[k] \in Seq(X) /\ b[k] \in Seq(X)
        /\ k - 1 \in Int /\ k \in 0..n
    <3>1. k - 1 \in 0..n /\ k - 1 \in Int /\ k \in 0..n
      BY <1>1
    <3> HIDE DEF T
    <3> QED
      BY <1>1, <3>1
  <2>2. Len(f[k]) = Len(f[k - 1]) + Len(a[k]) /\ Len(g[k]) = Len(g[k - 1]) + Len(b[k])
    <3>1. f[k] = f[k - 1] \o a[k] /\ g[k] = g[k - 1] \o b[k]
      BY <1>3, <1>4
    <3> HIDE DEF T
    <3> QED
      BY <2>1, <3>1, ConcatProperties
  <2>3. Len(f[k - 1]) \in Nat /\ Len(g[k - 1]) \in Nat
    BY <2>1, LenProperties
  <2>4. Len(f[k - 1]) + Len(g[k - 1]) = k - 1
    BY <1>6
  <2>5. Len(f[k]) + Len(g[k]) = k
    <3>1. Len(a[k]) \in Nat /\ Len(b[k]) \in Nat /\ Len(a[k]) + Len(b[k]) = 1 /\ k \in Int
      BY <1>1, <1>2
    <3> DEFINE p == Len(f[k - 1])
               q == Len(g[k - 1])
               v == Len(a[k])
               w == Len(b[k])
    <3>2. p \in Nat /\ q \in Nat /\ v \in Nat /\ w \in Nat /\ p + q = k - 1 /\ v + w = 1 /\ k \in Int
      BY <2>3, <2>4, <3>1
    <3>3. Len(f[k]) = p + v /\ Len(g[k]) = q + w
      BY <2>2
    <3> HIDE DEF T, p, q, v, w
    <3>4. (p + v) + (q + w) = k
      BY <3>2
    <3> QED
      BY <3>3, <3>4
  <2> QED
    BY <2>1, <2>5
<1>7. Len(f[n]) + Len(g[n]) = n
  <2>1. n \in 0..n
    BY <1>1
  <2>2. \A k \in 0..n : k \in T
    <3> HIDE DEF T
    <3> QED
      BY <1>1, <1>5, <1>6, CountingUp
  <2> QED
    BY <2>1, <2>2
<1>8. M!Kept(items, kind) = f[n] /\ M!Kept(items, others) = g[n]
  BY <1>3, <1>4, KeptHolds DEF a, b
<1> QED
  BY <1>7, <1>8 DEF n

\* Listening comes first, in a share that the paper has room for.
LEMMA ListeningIsLegal ==
  ASSUME NEW items, Listed(items), NEW heard, NEW total \in Int, NEW ratio \in Int \X Int,
         NEW share, share = M!Overlay(total, Len(items), ratio),
         NEW marked, marked = IF share = NONE THEN NONE ELSE M!MarkListening(items, heard, share)
  PROVE  M!ListeningLegal(items, heard, total, ratio, share, marked)
<1>1. ASSUME share # NONE
      PROVE  /\ 1 <= share[1] /\ share[1] <= share[2] /\ share[2] <= total
             /\ share[1] < share[2] => 10 * share[2] <= ratio[2] * total
  <2> DEFINE x == total * ratio[1]
             y == total * ratio[2]
             least == (x + 9) \div 10
             low == IF least < 1 THEN 1 ELSE least
             high == y \div 10
  <2>1. x \in Int /\ y \in Int /\ ratio[2] * total = y
    BY <1>1
  <2>2. share = <<low, IF high < low THEN low ELSE high>> /\ ~(share[2] > total)
    <3>1. M!ShareOf(total, ratio) = <<low, IF high < low THEN low ELSE high>>
      BY DEF M!ShareOf
    <3> HIDE DEF low, high
    <3> QED
      BY <1>1, <3>1 DEF M!Overlay
  <2> HIDE DEF x, y
  <2>3. low \in Int /\ high \in Int /\ 1 <= low /\ 10 * high <= y
    <3>1. \A z \in Int : z \div 10 \in Int /\ 10 * (z \div 10) <= z
      OBVIOUS
    <3>2. x + 9 \in Int
      BY <2>1
    <3> QED
      BY <2>1, <3>1, <3>2
  <2> HIDE DEF low, high
  <2> QED
    BY <2>1, <2>2, <2>3
<1>2. ASSUME marked # NONE
      PROVE  /\ M!Range(marked) = M!Range(items) /\ Len(marked) = Len(items)
             /\ \A i, j \in DOMAIN marked : i < j /\ marked[j] \in heard => marked[i] \in heard
  <2> DEFINE X == Held(items)
             a == M!Kept(items, heard)
             b == M!Kept(items, X \ heard)
  <2>1. M!Range(items) = X
    BY DEF M!Range, Listed, Held
  <2>2. marked = a \o b
    <3>1. marked = M!ListeningFirst(items, heard)
      BY <1>2 DEF M!MarkListening
    <3> QED
      BY <2>1, <3>1 DEF M!ListeningFirst
  <2>3. a \in Seq(X) /\ b \in Seq(X) /\ Held(a) = X \cap heard /\ Held(b) = X \cap (X \ heard)
    BY KeptHolds
  <2>4. Len(a) + Len(b) = Len(items)
    <3>1. Held(items) \ heard = X \ heard
      OBVIOUS
    <3> HIDE DEF X
    <3> QED
      BY <3>1, KeptCounts
  <2> HIDE DEF a, b, X
  <2>5. marked \in Seq(X) /\ Held(marked) = Held(a) \cup Held(b) /\ Len(marked) = Len(a) + Len(b)
    <3>1. a \o b \in Seq(X) /\ Held(a \o b) = Held(a) \cup Held(b) /\ Len(a \o b) = Len(a) + Len(b)
      BY <2>3, HeldByBoth
    <3> QED
      BY <2>2, <3>1
  <2>6. /\ Len(a) \in Nat /\ Len(b) \in Nat /\ DOMAIN marked = 1..(Len(a) + Len(b))
        /\ \A i \in 1..(Len(a) + Len(b)) : marked[i] = IF i <= Len(a) THEN a[i] ELSE b[i - Len(a)]
    BY <2>2, <2>3, <2>5, ConcatProperties, LenProperties
  <2>7. M!Range(marked) = Held(marked)
    BY <2>5, <2>6 DEF M!Range, Held
  <2>8. Held(marked) = X
    BY <2>3, <2>5
  <2>9. ASSUME NEW i \in DOMAIN marked, NEW j \in DOMAIN marked, i < j, marked[j] \in heard
        PROVE  marked[i] \in heard
    <3>1. j <= Len(a)
      <4>1. SUFFICES ASSUME ~(j <= Len(a)) PROVE FALSE
        OBVIOUS
      <4>2. j - Len(a) \in 1..Len(b) /\ marked[j] = b[j - Len(a)]
        <5>1. j \in 1..(Len(a) + Len(b)) /\ marked[j] = IF j <= Len(a) THEN a[j] ELSE b[j - Len(a)]
          BY <2>6
        <5>2. Len(a) \in Nat /\ Len(b) \in Nat
          BY <2>6
        <5> QED
          BY <4>1, <5>1, <5>2
      <4>3. marked[j] \in Held(b)
        BY <4>2 DEF Held
      <4> QED
        BY <2>3, <2>9, <4>3
    <3>2. i \in 1..Len(a) /\ marked[i] = a[i]
      BY <2>6, <2>9, <3>1
    <3>3. marked[i] \in Held(a)
      BY <3>2 DEF Held
    <3> QED
      BY <2>3, <3>3
  <2> QED
    BY <2>1, <2>4, <2>5, <2>7, <2>8, <2>9
<1> HIDE DEF M!Kept
<1> QED
  BY <1>1, <1>2 DEF M!ListeningLegal

\* A paper that conflicts with nothing keeps the limits of its band.
LEMMA BandIsKept ==
  ASSUME NEW b, BandFits(b), M!BandConflicts(b.spec, b.band, b.over) = {}
  PROVE  \A f \in {"items", "minutes"} : b.spec[f] # NONE => b.spec[f] <= M!Resolved(b.band, b.over)[f]
<1> SUFFICES ASSUME NEW f \in {"items", "minutes"}, b.spec[f] # NONE PROVE b.spec[f] <= M!Resolved(b.band, b.over)[f]
  OBVIOUS
<1>1. b.spec[f] \in Int /\ (f \in DOMAIN b.over => b.over[f] \in Int)
  BY DEF BandFits
<1>2. M!Resolved(b.band, b.over)[f] = IF f \in DOMAIN b.over THEN b.over[f] ELSE M!BandLimits[b.band][f]
  BY DEF M!Resolved
<1>3. M!BandLimits[b.band][f] \in Int
  <2>1. b.band \in {"L", "M", "H"}
    BY DEF BandFits
  <2> QED
    BY <2>1 DEF M!BandLimits
<1>4. ~(b.spec[f] > M!Resolved(b.band, b.over)[f])
  BY DEF M!BandConflicts
<1> QED
  BY <1>1, <1>2, <1>3, <1>4

-----------------------------------------------------------------------------
(* What a paper is made of, and what a table, a search, a listening part   *)
(* and a band are asked about, is one of the constants.                    *)
PaperCallFits ==
  /\ call.kind = "paper" => call.of.p \in Profiles /\ call.of.pool \in Pools /\ call.of.shown \in Shown
  /\ call.kind = "table" => call.of \in Tables
  /\ call.kind = "measurement" =>
       call.of.cells \in Blueprints /\ call.of.pool \in MeasurementPools /\ call.of.limited \in BOOLEAN
  /\ call.kind = "listening" => call.of \in Listenings
  /\ call.kind = "band" => call.of \in Bands

Profile(p) == A!Compile(p.purpose, "M", p.kps, p.overlays, p.least, p.soften)
Assembled(of) == IF Profile(of.p).kind = "refused" THEN Profile(of.p) ELSE A!Assemble(Profile(of.p), of.pool, of.shown)
ShareOfCall(of) == M!Overlay(of.total, Len(of.items), of.ratio)
MarkedOfCall(of) == IF ShareOfCall(of) = NONE THEN NONE ELSE M!MarkListening(of.items, of.heard, ShareOfCall(of))

(* What is answered is the answer of the assembly to this call.            *)
PaperAnswerFits ==
  /\ Answered("paper") => answer = [profile |-> Profile(call.of.p), result |-> Assembled(call.of)]
  /\ Answered("measurement") => answer \in M!Solve(call.of.cells, call.of.pool, call.of.shown, call.of.limited)
  /\ Answered("listening") => answer = [share |-> ShareOfCall(call.of), marked |-> MarkedOfCall(call.of)]
  /\ Answered("band") => answer = M!BandConflicts(call.of.spec, call.of.band, call.of.over)

\* Every call that is chosen is one that the assembly is made for.
LEMMA PaperCallsFit == Init => PaperCallFits /\ PaperAnswerFits
<1> SUFFICES ASSUME Init PROVE PaperCallFits /\ PaperAnswerFits
  OBVIOUS
<1>1. PaperAnswerFits
  <2>1. answer = NONE
    BY DEF Init, InitPapers, InitMarks, InitTemplates, InitValues, InitStatistics, Call
  <2> QED
    BY <2>1 DEF PaperAnswerFits, Answered
<1>2. CASE InitPapers
  <2>1. CASE \E p \in Profiles, pool \in Pools, shown \in Shown : Call("paper", [p |-> p, pool |-> pool, shown |-> shown])
    BY <1>1, <2>1 DEF Call, PaperCallFits
  <2>2. CASE \E t \in Tables : Call("table", t)
    BY <1>1, <2>2 DEF Call, PaperCallFits
  <2>3. CASE \E b \in Blueprints, pool \in MeasurementPools, shown \in Shown, limited \in BOOLEAN :
               Call("measurement", [cells |-> b, pool |-> pool, shown |-> shown, limited |-> limited])
    BY <1>1, <2>3 DEF Call, PaperCallFits
  <2>4. CASE \E l \in Listenings : Call("listening", l)
    BY <1>1, <2>4 DEF Call, PaperCallFits
  <2>5. CASE \E b \in Bands : Call("band", b)
    BY <1>1, <2>5 DEF Call, PaperCallFits
  <2> QED
    BY <1>2, <2>1, <2>2, <2>3, <2>4, <2>5 DEF InitPapers
<1>3. CASE InitMarks
  <2>1. \E of : \/ call = [kind |-> "exact", of |-> of] \/ call = [kind |-> "steps", of |-> of]
                \/ call = [kind |-> "rubric", of |-> of] \/ call = [kind |-> "math", of |-> of]
                \/ call = [kind |-> "shadow", of |-> of] \/ call = [kind |-> "record", of |-> of]
    BY <1>3 DEF InitMarks, Call
  <2> QED
    BY <1>1, <2>1 DEF PaperCallFits
<1>4. CASE InitTemplates
  BY <1>1, <1>4 DEF InitTemplates, Call, PaperCallFits
<1>5. CASE InitValues
  <2>1. \E of : call = [kind |-> "values", of |-> of] \/ call = [kind |-> "wholes", of |-> of]
                \/ call = [kind |-> "conversion", of |-> of] \/ call = [kind |-> "intervals", of |-> of]
    BY <1>5 DEF InitValues, Call
  <2> QED
    BY <1>1, <2>1 DEF PaperCallFits
<1>6. CASE InitStatistics
  BY <1>1, <1>6 DEF InitStatistics, Call, PaperCallFits
<1> QED
  BY <1>2, <1>3, <1>4, <1>5, <1>6 DEF Init

\* The assembly answers its calls, and they never become other calls.
LEMMA PaperAnswersFit == PaperCallFits /\ PaperAnswerFits /\ [Next]_vars => (PaperCallFits /\ PaperAnswerFits)'
<1> SUFFICES ASSUME PaperCallFits, PaperAnswerFits, [Next]_vars PROVE (PaperCallFits /\ PaperAnswerFits)'
  OBVIOUS
<1>1. CASE UNCHANGED vars
  BY <1>1 DEF vars, PaperCallFits, PaperAnswerFits, Answered
<1>2. ASSUME Next PROVE call' = call
  BY <1>2, Zenon DEF Next, Answer, Paper, Table, MeasurementPaper, Listening, Band, Exact, Steps, Rubric, Math, Shadow,
       Record, Expression, Items, Variants, Solvable, Values, WholeNumbers, Conversion, Intervals, ItemNumbers,
       Health, Coverage, Rescore
<1>3. ASSUME Next PROVE PaperCallFits'
  BY <1>2, <1>3 DEF PaperCallFits
<1>4. ASSUME Paper PROVE PaperAnswerFits'
  <2>1. /\ call.kind = "paper" /\ call' = call
        /\ answer' = [profile |-> Profile(call.of.p), result |-> Assembled(call.of)]
    BY <1>4, Zenon DEF Paper, Answer, Profile, Assembled
  <2> QED
    BY <2>1 DEF PaperAnswerFits, Answered
<1>5. ASSUME Table PROVE PaperAnswerFits'
  <2>1. call.kind = "table" /\ call' = call
    BY <1>5, Zenon DEF Table, Answer
  <2> QED
    BY <2>1 DEF PaperAnswerFits, Answered
<1>6. ASSUME MeasurementPaper PROVE PaperAnswerFits'
  BY <1>6 DEF MeasurementPaper, Answer, PaperAnswerFits, Answered
<1>7. ASSUME Listening PROVE PaperAnswerFits'
  <2>1. /\ call.kind = "listening" /\ call' = call
        /\ answer' = [share |-> ShareOfCall(call.of), marked |-> MarkedOfCall(call.of)]
    BY <1>7, Zenon DEF Listening, Answer, ShareOfCall, MarkedOfCall
  <2> QED
    BY <2>1 DEF PaperAnswerFits, Answered
<1>8. ASSUME Band PROVE PaperAnswerFits'
  BY <1>8 DEF Band, Answer, PaperAnswerFits, Answered
<1>9. ASSUME Exact \/ Steps \/ Rubric \/ Math \/ Shadow \/ Record PROVE PaperAnswerFits'
  <2>1. call' = call /\ call.kind \in {"exact", "steps", "rubric", "math", "shadow", "record"}
    BY <1>9, Zenon DEF Exact, Steps, Rubric, Math, Shadow, Record, Answer
  <2> QED
    BY <2>1 DEF PaperAnswerFits, Answered
<1>10. ASSUME Expression \/ Items \/ Variants \/ Solvable PROVE PaperAnswerFits'
  <2>1. call' = call /\ call.kind \in {"expression", "items", "variants", "solvable"}
    BY <1>10, Zenon DEF Expression, Items, Variants, Solvable, Answer
  <2> QED
    BY <2>1 DEF PaperAnswerFits, Answered
<1>11. ASSUME Values \/ WholeNumbers \/ Conversion \/ Intervals PROVE PaperAnswerFits'
  <2>1. call' = call /\ call.kind \in {"values", "wholes", "conversion", "intervals"}
    BY <1>11, Zenon DEF Values, WholeNumbers, Conversion, Intervals, Answer
  <2> QED
    BY <2>1 DEF PaperAnswerFits, Answered
<1>12. ASSUME ItemNumbers \/ Health \/ Coverage \/ Rescore PROVE PaperAnswerFits'
  <2>1. call' = call /\ call.kind \in {"statistics", "health", "coverage", "rescore"}
    BY <1>12, Zenon DEF ItemNumbers, Health, Coverage, Rescore, Answer
  <2> QED
    BY <2>1 DEF PaperAnswerFits, Answered
<1>13. ASSUME Next PROVE PaperAnswerFits'
  BY <1>4, <1>5, <1>6, <1>7, <1>8, <1>9, <1>10, <1>11, <1>12, <1>13 DEF Next
<1> QED
  BY <1>1, <1>3, <1>13

\* What the assembly answers is legal.
LEMMA AnswersAreLegal == PaperCallFits /\ PaperAnswerFits => PapersLegal
<1> SUFFICES ASSUME PaperCallFits, PaperAnswerFits PROVE PapersLegal
  OBVIOUS
<1>1. ASSUME Answered("paper"), answer.profile.kind = "profile"
      PROVE  A!PaperLegal(answer.profile, call.of.pool, call.of.shown, answer.result)
  <2> DEFINE of == call.of
             p == Profile(of.p)
  <2>1. ProfileFits(of.p) /\ PoolFits(of.pool)
    BY <1>1, PaperAssumption DEF PaperCallFits, Answered
  <2>2. answer.profile = p /\ answer.result = Assembled(of)
    BY <1>1 DEF PaperAnswerFits
  <2> HIDE DEF of
  <2>3. p.kind = "profile"
    BY <1>1, <2>2
  <2>4. answer.result = A!Assemble(p, of.pool, of.shown)
    BY <2>2, <2>3 DEF Assembled
  <2>5. Compiled(p) /\ \A i \in DOMAIN p.quotas : p.quotas[i].isolated \in BOOLEAN
    BY <2>1, <2>3, CompiledFits DEF Profile
  <2> HIDE DEF p
  <2>6. A!PaperLegal(p, of.pool, of.shown, A!Assemble(p, of.pool, of.shown))
    BY <2>1, <2>5, AssembledIsLegal
  <2> QED
    BY <2>2, <2>4, <2>6 DEF of
<1>2. ASSUME Answered("table") PROVE M!ValidatorsAgree(call.of)
  BY <1>2, TableAssumption, TablesAgree DEF PaperCallFits, Answered
<1>3. ASSUME Answered("measurement")
      PROVE  M!SearchHonest(call.of.cells, call.of.pool, call.of.shown, call.of.limited, answer)
  <2>1. /\ CellsFit(call.of.cells) /\ IsFiniteSet(call.of.pool) /\ \A c \in call.of.pool : c.p \in Int
        /\ call.of.limited \in BOOLEAN
        /\ answer \in M!Solve(call.of.cells, call.of.pool, call.of.shown, call.of.limited)
    BY <1>3, MeasurementAssumption DEF PaperCallFits, PaperAnswerFits, Answered
  <2> QED
    BY <2>1, SearchIsHonest
<1>4. ASSUME Answered("listening")
      PROVE  M!ListeningLegal(call.of.items, call.of.heard, call.of.total, call.of.ratio, answer.share, answer.marked)
  <2>1. Listed(call.of.items) /\ call.of.total \in Int /\ call.of.ratio \in Int \X Int
    BY <1>4, ListeningAssumption DEF PaperCallFits, Answered
  <2>2. answer.share = ShareOfCall(call.of) /\ answer.marked = MarkedOfCall(call.of)
    BY <1>4 DEF PaperAnswerFits
  <2>3. /\ answer.share = M!Overlay(call.of.total, Len(call.of.items), call.of.ratio)
        /\ answer.marked = IF answer.share = NONE THEN NONE
                           ELSE M!MarkListening(call.of.items, call.of.heard, answer.share)
    BY <2>2 DEF ShareOfCall, MarkedOfCall
  <2> QED
    BY <2>1, <2>3, ListeningIsLegal
<1>5. ASSUME Answered("band"), answer = {}
      PROVE  \A f \in {"items", "minutes"} :
               call.of.spec[f] # NONE => call.of.spec[f] <= M!Resolved(call.of.band, call.of.over)[f]
  <2>1. BandFits(call.of)
    BY <1>5, BandAssumption DEF PaperCallFits, Answered
  <2>2. M!BandConflicts(call.of.spec, call.of.band, call.of.over) = {}
    BY <1>5 DEF PaperAnswerFits
  <2> QED
    BY <2>1, <2>2, BandIsKept
<1> QED
  BY <1>1, <1>2, <1>3, <1>4, <1>5 DEF PapersLegal

\* A paper of the greedy solver keeps what its profile asks for, the two
\* validators of a table agree, what the search finds complies and what it
\* reports as short is short, listening comes first and in its share, and a
\* paper without conflicts keeps the limits of its band, for every profile,
\* pool, table and list of items that the assumptions admit (assembly/).
THEOREM PapersAreLegal == Spec => []PapersLegal
<1>1. Init => PaperCallFits /\ PaperAnswerFits
  BY PaperCallsFit
<1>2. PaperCallFits /\ PaperAnswerFits /\ [Next]_vars => (PaperCallFits /\ PaperAnswerFits)'
  BY PaperAnswersFit
<1>3. PaperCallFits /\ PaperAnswerFits => PapersLegal
  BY AnswersAreLegal
<1> QED
  BY <1>1, <1>2, <1>3, PTL DEF Spec
=============================================================================
