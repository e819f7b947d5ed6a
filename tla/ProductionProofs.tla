-------------------------- MODULE ProductionProofs --------------------------
(***************************************************************************)
(* Theorems about Production, for every set of workers and jobs, every     *)
(* policy that loads and every stock of drafts.                            *)
(*                                                                         *)
(* Between the commit of a certificate and the commit of the artifact      *)
(* anything may happen to the tables. What makes the writes sound all the  *)
(* same is that no table ever forgets: certificates are appended only and  *)
(* versions never go away (Grows), so what a call knew when its gate       *)
(* signed (Call) still holds when it writes.                               *)
(***************************************************************************)
EXTENDS Production, FunctionTheorems, FiniteSetTheorems, TLAPS

Asks == {Drawn(j, w) : j \in Jobs, w \in Workers}
Names == {a.id : a \in Asks}
Runs == [validator : DOMAIN ValidatorInfo, blocking : BOOLEAN, verdict : Verdicts]
Certificates == [artifact : Names, chain : Seq(Steps), runs : Seq(Runs)]
Places == {"idle", "check", "template", "write", "done"}

TypeOK ==
  /\ certs \in Seq(Certificates) /\ pubs \in Seq([version : Names, cert : Nat])
  /\ pc \in [Workers -> Places] /\ DOMAIN job = Workers /\ DOMAIN seen = Workers
  /\ asked \in [Workers -> Seq(Steps)] /\ results \in [Workers -> Seq(Runs)]
  /\ cert \in [Workers -> Nat] /\ DOMAIN reply = Workers

\* The verdicts so far are those of the first validators of the chain.
Follows(w) ==
  /\ Len(results[w]) <= Len(asked[w])
  /\ \A i \in 1..Len(results[w]) : results[w][i].validator = asked[w][i].id

\* What a call knows of itself and of the tables, wherever it is.
Call(w) ==
  /\ pc[w] = "idle" => results[w] = <<>>
  /\ pc[w] # "idle" => /\ job[w] \in Asks /\ Follows(w)
                       /\ job[w].line = "C" => job[w].id = Fresh[w]
  /\ pc[w] = "check" => asked[w] # <<>>
  /\ pc[w] # "done" => reply[w] = NONE
  /\ pc[w] = "template" => job[w].line = "D"
  /\ pc[w] \in {"template", "write"} =>
       cert[w] \in DOMAIN certs /\ certs[cert[w]].artifact = job[w].id
  /\ pc[w] \in {"check", "write"} /\ job[w].line = "issue" =>
       job[w].id \in DOMAIN versions /\ seen[w].item = job[w].id

\* References lead somewhere, and a version belongs to its own item.
Stands ==
  /\ \A v \in DOMAIN versions : versions[v].item = v
  /\ \A p \in DOMAIN passages : passages[p] \in DOMAIN certs
  /\ \A n \in DOMAIN pubs : pubs[n].cert \in DOMAIN certs

\* What a call was told is on file (ToldIsOnFile, for one of them).
Told(w) ==
  /\ reply[w] \in {"fail", "review"} =>
       /\ placeholder
       /\ \E t \in trail : t.cert = 0 /\ t.artifact = job[w].id /\ t.verdict = reply[w]
  /\ reply[w] = "published" =>
       IF job[w].line = "C" THEN job[w].id \in DOMAIN passages ELSE job[w].id \in Published

Sound == Stands /\ CertifiedIsClean /\ PublishedBacked /\ GroupsWhole
IInv == TypeOK /\ Sound /\ \A w \in Workers : Call(w) /\ Told(w)

\* No table forgets, and a step is a step of one call.
Grows ==
  /\ \A c \in DOMAIN certs : c \in DOMAIN certs' /\ certs'[c] = certs[c]
  /\ trail \subseteq trail' /\ placeholder' = placeholder
  /\ DOMAIN versions \subseteq DOMAIN versions' /\ Published \subseteq Published'
  /\ DOMAIN passages \subseteq DOMAIN passages'

Moves(w) ==
  \A d \in Workers \ {w} :
    /\ pc'[d] = pc[d] /\ job'[d] = job[d] /\ seen'[d] = seen[d] /\ asked'[d] = asked[d]
    /\ results'[d] = results[d] /\ cert'[d] = cert[d] /\ reply'[d] = reply[d]

\* What PublicationsKept says of one step.
Publishes ==
  \A v \in Published :
    /\ v \in Published'
    /\ versions'[v].cert # versions[v].cert => pubs' = Append(pubs, [version |-> v, cert |-> versions'[v].cert])

-----------------------------------------------------------------------------
\* A call goes by the record of its job; a C line's has the id it drew.
LEMMA DrawnFacts ==
  ASSUME NEW j \in Jobs, NEW w \in Workers
  PROVE  /\ Drawn(j, w) \in Asks /\ Drawn(j, w).line = j.line
         /\ Drawn(j, w).id = IF j.line = "C" THEN Fresh[w] ELSE j.id
         /\ Drawn(j, w).context.payload # NONE => Drawn(j, w).context.payload.math \in Verdicts
<1>1. CASE j.line = "C"
  <2>1. /\ {"line", "id", "context"} \subseteq DOMAIN j
        /\ {"type", "pack", "payload"} \subseteq DOMAIN j.context
        /\ {"license", "math"} \subseteq DOMAIN j.context.payload
        /\ j.context.payload.math \in Verdicts
    BY <1>1, JobsAssumption
  <2>2. Drawn(j, w) = [j EXCEPT !.id = Fresh[w], !.context.payload.license = Fresh[w]]
    BY <1>1 DEF Drawn
  <2>3. Drawn(j, w).line = j.line
    BY <2>1, <2>2
  <2>4. Drawn(j, w).id = Fresh[w]
    BY <2>1, <2>2
  <2>5. Drawn(j, w).context = [j.context EXCEPT !.payload.license = Fresh[w]]
    BY <2>1, <2>2
  <2>6. Drawn(j, w).context.payload = [j.context.payload EXCEPT !.license = Fresh[w]]
    BY <2>1, <2>5
  <2>7. Drawn(j, w).context.payload.math = j.context.payload.math
    BY <2>1, <2>6
  <2> QED
    BY <1>1, <2>1, <2>3, <2>4, <2>7 DEF Asks
<1>2. CASE j.line # "C"
  <2>1. Drawn(j, w) = j
    BY <1>2 DEF Drawn
  <2>2. Drawn(j, w) \in Asks
    BY DEF Asks
  <2> QED
    BY <1>2, <2>1, <2>2, JobsAssumption
<1> QED
  BY <1>1, <1>2

LEMMA AskFacts ==
  ASSUME NEW a \in Asks
  PROVE  /\ a.line \in Lines /\ a.id \in Names
         /\ a.context.payload # NONE => a.context.payload.math \in Verdicts
<1>1. PICK j \in Jobs, w \in Workers : a = Drawn(j, w)
  BY DEF Asks
<1> QED
  BY <1>1, DrawnFacts, JobsAssumption DEF Names

\* A registered validator says one of the three things it may say.
LEMMA VerdictType ==
  ASSUME NEW v \in DOMAIN ValidatorInfo, NEW c, NEW db,
         c.payload # NONE => c.payload.math \in Verdicts
  PROVE  VerdictOf(v, c, db) \in Verdicts
<1>1. SchemaVerdict(c) \in Verdicts
  BY DEF SchemaVerdict, Verdicts
<1>2. \A registry, time : LicenseVerdict(c, registry, time) \in Verdicts
  BY DEF LicenseVerdict, Verdicts
<1>3. \A published : DuplicateVerdict(c, published) \in Verdicts
  BY DEF DuplicateVerdict, Verdicts
<1>4. FactVerdict(c) \in Verdicts
  BY DEF FactVerdict, Verdicts
<1>5. AgeVerdict(c) \in Verdicts
  BY DEF AgeVerdict, Verdicts
<1>6. DifficultyVerdict(c) \in Verdicts
  <2>1. \A rate, goal : Deviation(rate, goal) \in {"below", "within", "above"}
    BY DEF Deviation
  <2>2. \A d \in {"below", "within", "above"} :
          [below |-> "review", within |-> "pass", above |-> "fail"][d] \in Verdicts
    BY DEF Verdicts
  <2> QED
    BY <2>1, <2>2 DEF DifficultyVerdict, Verdicts
<1>7. RubricVerdict(c) \in Verdicts
  BY DEF RubricVerdict, Verdicts
<1>8. \A corpus : WordVerdict(c, corpus) \in Verdicts
  BY DEF WordVerdict, Verdicts
<1>9. v \in {"schema", "license", "duplicate_placeholder", "passage_fact_check",
             "passage_age_appropriate", "passage_difficulty_gate",
             "rubric_completeness", "word", "solvability"}
  BY DEF ValidatorInfo
<1>10. "review" \in Verdicts
  BY DEF Verdicts
<1> QED
  BY <1>1, <1>2, <1>3, <1>4, <1>5, <1>6, <1>7, <1>8, <1>9, <1>10 DEF VerdictOf

\* The class of every validator says whether it blocks.
LEMMA BlockingType == \A v \in DOMAIN ValidatorInfo : ValidatorInfo[v].blocking \in BOOLEAN
<1>1. /\ ValidatorInfo.schema.blocking \in BOOLEAN
      /\ ValidatorInfo.license.blocking \in BOOLEAN
      /\ ValidatorInfo.duplicate_placeholder.blocking \in BOOLEAN
      /\ ValidatorInfo.passage_fact_check.blocking \in BOOLEAN
      /\ ValidatorInfo.passage_age_appropriate.blocking \in BOOLEAN
      /\ ValidatorInfo.passage_difficulty_gate.blocking \in BOOLEAN
      /\ ValidatorInfo.rubric_completeness.blocking \in BOOLEAN
      /\ ValidatorInfo.word.blocking \in BOOLEAN
      /\ ValidatorInfo.solvability.blocking \in BOOLEAN
  BY DEF ValidatorInfo
<1>2. DOMAIN ValidatorInfo =
        {"schema", "license", "duplicate_placeholder", "passage_fact_check",
         "passage_age_appropriate", "passage_difficulty_gate",
         "rubric_completeness", "word", "solvability"}
  BY DEF ValidatorInfo
<1> QED
  BY <1>1, <1>2

-----------------------------------------------------------------------------
\* Sorting a chain by cost asks the same steps: every step has one place.
LEMMA OrderedSteps ==
  ASSUME NEW chain \in Seq(Steps)
  PROVE  Ordered(chain) \in Seq(Steps)
<1> DEFINE D == DOMAIN chain
           Lower(i) == {j \in D : Before(chain, j, i)}
<1>1. D = 1..Len(chain) /\ Len(chain) \in Nat /\ \A i \in D : chain[i] \in Steps
  OBVIOUS
<1>2. IsFiniteSet(D) /\ Cardinality(D) = Len(chain)
  BY <1>1, FS_Interval
<1>3. \A i \in D : Tier(chain[i]) \in Nat
  BY <1>1 DEF Tier, Steps, ValidatorInfo
<1>4. \A i \in D : /\ IsFiniteSet(Lower(i)) /\ Cardinality(Lower(i)) \in Nat
                   /\ i \notin Lower(i) /\ Lower(i) \subseteq D
                   /\ Place(chain, i) = 1 + Cardinality(Lower(i))
  <2> TAKE i \in D
  <2>1. i \notin Lower(i)
    BY <1>1, <1>3 DEF Before
  <2>2. Lower(i) \in SUBSET D
    OBVIOUS
  <2>3. IsFiniteSet(Lower(i)) /\ Cardinality(Lower(i)) \in Nat
    BY <1>2, <2>2, FS_Subset, FS_CardinalityType
  <2> QED
    BY <2>1, <2>2, <2>3 DEF Place
<1> HIDE DEF Lower
<1>5. \A i \in D : Place(chain, i) \in D
  <2> SUFFICES ASSUME NEW i \in D PROVE Place(chain, i) \in D
    OBVIOUS
  <2>1. IsFiniteSet(D \ {i}) /\ Cardinality(D \ {i}) = Len(chain) - 1
    BY <1>2, FS_RemoveElement
  <2>2. Lower(i) \in SUBSET (D \ {i})
    BY <1>4
  <2>3. Cardinality(Lower(i)) <= Len(chain) - 1
    BY <2>1, <2>2, FS_Subset
  <2> QED
    BY <1>1, <1>4, <2>3
<1>6. \A i, k \in D : Before(chain, i, k) => Place(chain, i) < Place(chain, k)
  <2> SUFFICES ASSUME NEW i \in D, NEW k \in D, Before(chain, i, k)
               PROVE  Place(chain, i) < Place(chain, k)
    OBVIOUS
  <2>1. Lower(i) \cup {i} \in SUBSET Lower(k)
    BY <1>1, <1>3 DEF Before, Lower
  <2>2. Cardinality(Lower(i) \cup {i}) = Cardinality(Lower(i)) + 1
    BY <1>4, FS_AddElement
  <2>3. Cardinality(Lower(i) \cup {i}) <= Cardinality(Lower(k))
    BY <1>4, <2>1, FS_Subset
  <2> QED
    BY <1>4, <2>2, <2>3
<1>7. \A i, k \in D : i # k => Before(chain, i, k) \/ Before(chain, k, i)
  BY <1>1, <1>3 DEF Before
<1> DEFINE At(n) == CHOOSE i \in D : Place(chain, i) = n
<1> DEFINE f == [i \in D |-> Place(chain, i)]
<1>8. f \in Injection(D, D)
  <2>1. f \in [D -> D]
    BY <1>5
  <2>2. \A i, k \in D : f[i] = f[k] => i = k
    BY <1>1, <1>5, <1>6, <1>7
  <2> QED
    BY <2>1, <2>2, Fun_IsInj DEF Injection
<1>9. \A n \in D : \E i \in D : Place(chain, i) = n
  <2>1. f \in Surjection(D, D)
    BY <1>2, <1>8, FS_Injection
  <2> QED
    BY <2>1 DEF Surjection
<1>10. \A n \in D : At(n) \in D
  BY <1>9
<1> HIDE DEF At
<1>11. [n \in 1..Len(chain) |-> chain[At(n)]] \in Seq(Steps)
  BY <1>1, <1>10
<1>12. Ordered(chain) = [n \in 1..Len(chain) |-> chain[At(n)]]
  BY DEF Ordered, At
<1> QED
  BY <1>11, <1>12

LEMMA ChainType == \A j \in Jobs : ChainFor(j) \in Seq(Steps)
<1> SUFFICES ASSUME NEW j \in Jobs PROVE ChainFor(j) \in Seq(Steps)
  OBVIOUS
<1>1. ChainOf(Policy, j.context.pack, j.context.type) \in Seq(Steps)
  BY PolicyAssumption DEF ChainOf
<1> QED
  BY <1>1, OrderedSteps, JobsAssumption DEF ChainFor

-----------------------------------------------------------------------------
\* The other calls know what they knew, and what they were told stays true.
LEMMA OtherCalls ==
  ASSUME IInv, NEW w \in Workers, Moves(w), Grows, Call(w)', Told(w)'
  PROVE  \A d \in Workers : Call(d)' /\ Told(d)'
<1> SUFFICES ASSUME NEW d \in Workers, d # w PROVE Call(d)' /\ Told(d)'
  OBVIOUS
<1>1. Call(d) /\ Told(d) /\ pc'[d] = pc[d] /\ job'[d] = job[d] /\ seen'[d] = seen[d] /\ asked'[d] = asked[d]
      /\ results'[d] = results[d] /\ cert'[d] = cert[d] /\ reply'[d] = reply[d]
  BY DEF IInv, Moves
<1>2. Call(d)'
  BY <1>1 DEF Call, Follows, Grows
<1>3. Told(d)'
  BY <1>1 DEF Told, Grows
<1> QED
  BY <1>2, <1>3

\* A step that leaves the artifacts and the certificates alone.
LEMMA Quiet ==
  ASSUME IInv, trail \subseteq trail', placeholder' = placeholder,
         UNCHANGED <<certs, versions, current, pubs, passages, groups>>
  PROVE  Sound' /\ Grows /\ Publishes
<1>1. Stands'
  BY DEF IInv, Sound, Stands
<1>2. CertifiedIsClean'
  BY DEF IInv, Sound, CertifiedIsClean
<1>3. PublishedBacked'
  BY DEF IInv, Sound, PublishedBacked, Published
<1>4. GroupsWhole'
  BY DEF IInv, Sound, GroupsWhole
<1> QED
  BY <1>1, <1>2, <1>3, <1>4 DEF Sound, Grows, Publishes, Published

\* The steps that keep the tables: each says what its own call does.
LEMMA StartStep ==
  ASSUME IInv, NEW w \in Workers, Start(w)
  PROVE  TypeOK' /\ Sound' /\ Grows /\ Publishes /\ Moves(w) /\ Call(w)' /\ Told(w)'
<1>1. PICK j \in Jobs :
        /\ job' = [job EXCEPT ![w] = Drawn(j, w)]
        /\ seen' = [seen EXCEPT ![w] = IF j.line = "issue" /\ j.id \in DOMAIN versions
                                       THEN versions[j.id] ELSE NONE]
        /\ asked' = [asked EXCEPT ![w] = ChainFor(j)]
        /\ IF ~Fits(j) THEN Answer(w, "refused")
           ELSE IF ChainFor(j) = <<>> THEN Answer(w, "error")
           ELSE Goto(w, "check")
  BY DEF Start
<1>2. /\ UNCHANGED <<now, licenses, placeholder, certs, trail, versions, current, pubs, passages, groups, results, cert>>
      /\ pc[w] = "idle"
  BY DEF Start
<1>3. TypeOK /\ Call(w) /\ Stands
  BY DEF IInv, Sound
<1>4. ChainFor(j) \in Seq(Steps)
  BY ChainType
<1>5. Drawn(j, w) \in Asks /\ Drawn(j, w).line = j.line /\ Drawn(j, w).id = IF j.line = "C" THEN Fresh[w] ELSE j.id
  BY DrawnFacts
<1>6. results[w] = <<>> /\ reply[w] = NONE
  BY <1>2, <1>3 DEF Call
<1>7. \/ pc' = [pc EXCEPT ![w] = "done"] /\ \E r \in {"refused", "error"} : reply' = [reply EXCEPT ![w] = r]
      \/ pc' = [pc EXCEPT ![w] = "check"] /\ reply' = reply /\ Fits(j) /\ ChainFor(j) # <<>>
  BY <1>1 DEF Answer, Goto
<1>8. TypeOK'
  BY <1>1, <1>2, <1>3, <1>4, <1>7 DEF TypeOK, Places
<1>9. Moves(w)
  BY <1>1, <1>2, <1>3, <1>7 DEF TypeOK, Moves
<1>10. Fits(j) /\ j.line = "issue" => j.id \in DOMAIN versions /\ versions[j.id].item = j.id
  BY <1>3 DEF Fits, Waiting, Stands
<1>11. job'[w] = Drawn(j, w) /\ asked'[w] = ChainFor(j) /\ results'[w] = <<>>
       /\ seen'[w] = IF j.line = "issue" /\ j.id \in DOMAIN versions THEN versions[j.id] ELSE NONE
  BY <1>1, <1>2, <1>3, <1>6 DEF TypeOK
<1>12. \/ pc'[w] = "done" /\ reply'[w] \in {"refused", "error"}
       \/ pc'[w] = "check" /\ reply'[w] = NONE /\ Fits(j) /\ ChainFor(j) # <<>>
  BY <1>3, <1>6, <1>7 DEF TypeOK
<1>13. Call(w)'
  <2>1. Follows(w)'
    BY <1>4, <1>11 DEF Follows
  <2> QED
    BY <1>2, <1>5, <1>10, <1>11, <1>12, <2>1 DEF Call
<1>14. Told(w)'
  BY <1>12, NoneAssumption DEF Told
<1> QED
  BY <1>2, <1>8, <1>9, <1>13, <1>14, Quiet

LEMMA CheckStep ==
  ASSUME IInv, NEW w \in Workers, Check(w)
  PROVE  TypeOK' /\ Sound' /\ Grows /\ Publishes /\ Moves(w) /\ Call(w)' /\ Told(w)'
<1> DEFINE step == asked[w][Len(results[w]) + 1]
           r == [validator |-> step.id, blocking |-> Blocking(step),
                 verdict |-> VerdictOf(step.id, job[w].context, SeenBy(w))]
<1>1. /\ pc[w] = "check" /\ Len(results[w]) < Len(asked[w])
      /\ results' = [results EXCEPT ![w] = Append(@, r)]
      /\ UNCHANGED <<now, tables, pc, job, seen, asked, cert, reply>>
  BY DEF Check
<1>2. TypeOK /\ Call(w) /\ Told(w)
  BY DEF IInv
<1>3. step \in Steps /\ Len(results[w]) \in Nat
  BY <1>1, <1>2 DEF TypeOK
<1>4. job[w] \in Asks /\ Follows(w)
  BY <1>1, <1>2 DEF Call
<1>5. VerdictOf(step.id, job[w].context, SeenBy(w)) \in Verdicts
  BY <1>3, <1>4, AskFacts, VerdictType DEF Steps
<1>6. Blocking(step) \in BOOLEAN
  <2>2. ValidatorInfo[step.id].blocking \in BOOLEAN
    BY <1>3, BlockingType DEF Steps
  <2>3. (step.blocking = "yes") \in BOOLEAN
    OBVIOUS
  <2> QED
    BY <2>2, <2>3, Zenon DEF Blocking
<1>7. r \in Runs
  BY <1>3, <1>5, <1>6 DEF Runs, Steps
<1> HIDE DEF r
<1>8. TypeOK'
  BY <1>1, <1>2, <1>7 DEF TypeOK, tables, content
<1>9. Moves(w)
  BY <1>1, <1>2 DEF TypeOK, Moves
<1>10. Follows(w)'
  <2>1. results'[w] = Append(results[w], r) /\ r.validator = step.id /\ asked'[w] = asked[w]
    BY <1>1, <1>2 DEF TypeOK, r
  <2> QED
    BY <1>1, <1>2, <1>4, <1>7, <2>1 DEF Follows, TypeOK
<1>11. Call(w)'
  BY <1>1, <1>2, <1>10 DEF Call, tables, content, testlets
<1>12. Told(w)'
  BY <1>1, <1>2 DEF Told, tables, content, testlets, Published
<1> QED
  BY <1>1, <1>8, <1>9, <1>11, <1>12, Quiet DEF tables, content, testlets

\* Who is refused is told a verdict that one of the runs carries.
LEMMA RefusedFacts ==
  ASSUME IInv, NEW w \in Workers, ~Signs(w), job[w].line # "word"
  PROVE  /\ FinalVerdict(results[w]) \in {"fail", "review"}
         /\ \E i \in DOMAIN results[w] : results[w][i].verdict = FinalVerdict(results[w])
  BY DEF Signs, FinalVerdict, Stops

LEMMA RefuseStep ==
  ASSUME IInv, NEW w \in Workers, Refuse(w)
  PROVE  TypeOK' /\ Sound' /\ Grows /\ Publishes /\ Moves(w) /\ Call(w)' /\ Told(w)'
<1>1. /\ Checked(w) /\ ~Signs(w) /\ job[w].line # "word"
      /\ pc' = [pc EXCEPT ![w] = "done"]
      /\ \/ /\ placeholder /\ trail' = trail \cup RunRows(w, 0)
            /\ reply' = [reply EXCEPT ![w] = FinalVerdict(results[w])]
         \/ trail' = trail /\ reply' = [reply EXCEPT ![w] = "error"]
      /\ UNCHANGED <<now, placeholder, certs, content, testlets, job, seen, asked, results, cert>>
  BY DEF Refuse, Answer
<1>2. TypeOK /\ Call(w)
  BY DEF IInv
<1>3. TypeOK'
  BY <1>1, <1>2 DEF TypeOK, Places, content
<1>4. Moves(w)
  BY <1>1, <1>2 DEF TypeOK, Moves
<1>5. Call(w)'
  BY <1>1, <1>2 DEF TypeOK, Call, Checked, Follows
<1>6. Told(w)'
  <2>1. CASE reply' = [reply EXCEPT ![w] = "error"]
    BY <1>2, <2>1 DEF TypeOK, Told
  <2>2. CASE /\ placeholder /\ trail' = trail \cup RunRows(w, 0)
             /\ reply' = [reply EXCEPT ![w] = FinalVerdict(results[w])]
    <3>1. PICK i \in DOMAIN results[w] : results[w][i].verdict = FinalVerdict(results[w])
      BY <1>1, RefusedFacts
    <3>2. reply'[w] = FinalVerdict(results[w]) /\ reply'[w] \in {"fail", "review"}
      BY <1>1, <1>2, <2>2, RefusedFacts DEF TypeOK
    <3>3. results[w][i] \in ToSet(results[w])
      BY DEF ToSet
    <3> DEFINE t == [cert |-> 0, artifact |-> job[w].id, validator |-> results[w][i].validator,
                     verdict |-> results[w][i].verdict, blocking |-> results[w][i].blocking]
    <3>4. t \in RunRows(w, 0)
      BY <3>3 DEF RunRows
    <3>5. t \in trail' /\ t.cert = 0 /\ t.artifact = job'[w].id /\ t.verdict = reply'[w]
      BY <1>1, <2>2, <3>1, <3>2, <3>4
    <3> HIDE DEF t
    <3>6. placeholder'
      BY <1>1, <2>2
    <3> QED
      BY <3>2, <3>5, <3>6 DEF Told
  <2> QED
    BY <1>1, <2>1, <2>2
<1> QED
  BY <1>1, <1>3, <1>4, <1>5, <1>6, Quiet DEF content, testlets

\* A call that ends or looks around without touching the artifacts.
LEMMA ReportStep ==
  ASSUME IInv, NEW w \in Workers, Report(w) \/ Lose(w)
  PROVE  TypeOK' /\ Sound' /\ Grows /\ Publishes /\ Moves(w) /\ Call(w)' /\ Told(w)'
<1>1. /\ pc[w] \in {"check", "template", "write"} /\ pc' = [pc EXCEPT ![w] = "done"]
      /\ \E r \in {"uncertified", "lost"} : reply' = [reply EXCEPT ![w] = r]
      /\ UNCHANGED <<now, tables, job, seen, asked, results, cert>>
  BY DEF Report, Lose, Checked, Answer
<1>2. TypeOK /\ Call(w)
  BY DEF IInv
<1>3. TypeOK'
  BY <1>1, <1>2 DEF TypeOK, Places, tables, content
<1>4. Moves(w)
  BY <1>1, <1>2 DEF TypeOK, Moves
<1>5. Call(w)'
  BY <1>1, <1>2 DEF TypeOK, Call, Follows
<1>6. Told(w)'
  BY <1>1, <1>2 DEF TypeOK, Told
<1> QED
  BY <1>1, <1>3, <1>4, <1>5, <1>6, Quiet DEF tables, content, testlets

LEMMA LookUpStep ==
  ASSUME IInv, NEW w \in Workers, LookUpTemplate(w)
  PROVE  TypeOK' /\ Sound' /\ Grows /\ Publishes /\ Moves(w) /\ Call(w)' /\ Told(w)'
<1>1. /\ pc[w] = "template" /\ pc' = [pc EXCEPT ![w] = "write"]
      /\ seen' = [seen EXCEPT ![w] = templates]
      /\ UNCHANGED <<now, tables, job, asked, results, cert, reply>>
  BY DEF LookUpTemplate, Goto
<1>2. TypeOK /\ Call(w) /\ Told(w) /\ job[w].line = "D"
  BY <1>1 DEF IInv, Call
<1>3. TypeOK'
  BY <1>1, <1>2 DEF TypeOK, Places, tables, content
<1>4. Moves(w)
  BY <1>1, <1>2 DEF TypeOK, Moves
<1>5. Call(w)'
  BY <1>1, <1>2 DEF TypeOK, Call, Follows, tables
<1>6. Told(w)'
  BY <1>1, <1>2 DEF TypeOK, Told, tables, content, testlets, Published
<1> QED
  BY <1>1, <1>3, <1>4, <1>5, <1>6, Quiet DEF tables, content, testlets

-----------------------------------------------------------------------------
\* A gate that signs has asked its whole chain, and nothing blocking failed.
LEMMA SignedFacts ==
  ASSUME IInv, NEW w \in Workers, Checked(w), Signs(w)
  PROVE  /\ pc[w] = "check" /\ job[w] \in Asks /\ results[w] # <<>>
         /\ [i \in DOMAIN results[w] |-> results[w][i].validator]
              = [i \in DOMAIN asked[w] |-> asked[w][i].id]
         /\ \A i \in DOMAIN results[w] : results[w][i].blocking => results[w][i].verdict = "pass"
<1>1. /\ pc[w] = "check" /\ job[w] \in Asks /\ Follows(w) /\ asked[w] # <<>>
      /\ asked[w] \in Seq(Steps) /\ results[w] \in Seq(Runs)
  BY DEF IInv, Call, TypeOK, Checked
<1>2. \A i \in DOMAIN results[w] : results[w][i].verdict \in Verdicts
  <2>1. \A i \in DOMAIN results[w] : results[w][i] \in Runs
    BY <1>1
  <2>2. \A r \in Runs : r.verdict \in Verdicts
    BY DEF Runs
  <2> QED
    BY <2>1, <2>2
<1>3. \A i \in DOMAIN results[w] : results[w][i].blocking => results[w][i].verdict = "pass"
  BY <1>2 DEF Signs, MayCertify, FinalVerdict, Stops, Verdicts
<1>4. ~Halted(w)
  BY <1>3 DEF Halted, Stops
<1>5. Len(results[w]) = Len(asked[w])
  BY <1>4 DEF Checked
<1>6. /\ DOMAIN results[w] = 1..Len(results[w]) /\ DOMAIN asked[w] = 1..Len(asked[w])
      /\ results[w] # <<>>
  BY <1>1, <1>5
<1>7. \A i \in DOMAIN results[w] : results[w][i].validator = asked[w][i].id
  BY <1>1, <1>6 DEF Follows
<1> QED
  BY <1>1, <1>3, <1>5, <1>6, <1>7

LEMMA CertifyStep ==
  ASSUME IInv, NEW w \in Workers, Certify(w)
  PROVE  TypeOK' /\ Sound' /\ Grows /\ Publishes /\ Moves(w) /\ Call(w)' /\ Told(w)'
<1> DEFINE n == Len(certs) + 1
           c == [artifact |-> job[w].id, chain |-> asked[w], runs |-> results[w]]
<1>1. /\ Checked(w) /\ Signs(w)
      /\ certs' = Append(certs, c) /\ trail' = trail \cup RunRows(w, n)
      /\ cert' = [cert EXCEPT ![w] = n]
      /\ pc' = [pc EXCEPT ![w] = IF job[w].line = "D" THEN "template" ELSE "write"]
      /\ UNCHANGED <<now, placeholder, content, testlets, job, seen, asked, results, reply>>
  BY DEF Certify, Goto
<1>2. TypeOK /\ Call(w) /\ Sound
  BY DEF IInv
<1>3. /\ pc[w] = "check" /\ job[w] \in Asks /\ results[w] # <<>>
      /\ [i \in DOMAIN results[w] |-> results[w][i].validator]
           = [i \in DOMAIN asked[w] |-> asked[w][i].id]
      /\ \A i \in DOMAIN results[w] : results[w][i].blocking => results[w][i].verdict = "pass"
  BY <1>1, SignedFacts
<1>4. c \in Certificates
  BY <1>2, <1>3, AskFacts DEF TypeOK, Certificates
<1>5. /\ c.artifact = job[w].id /\ c.chain = asked[w] /\ c.runs = results[w]
  OBVIOUS
<1> HIDE DEF c
<1>6. /\ n \in Nat /\ DOMAIN certs = 1..(n - 1) /\ DOMAIN certs' = 1..n /\ certs'[n] = c
      /\ certs' \in Seq(Certificates)
      /\ \A k \in DOMAIN certs : k \in DOMAIN certs' /\ certs'[k] = certs[k]
  BY <1>1, <1>2, <1>4 DEF TypeOK
<1>7. TypeOK'
  BY <1>1, <1>2, <1>6 DEF TypeOK, Places, content
<1>8. Grows
  BY <1>1, <1>6 DEF Grows, content, testlets, Published
<1>9. Moves(w)
  BY <1>1, <1>2 DEF TypeOK, Moves
<1>10. Call(w)'
  BY <1>1, <1>2, <1>3, <1>5, <1>6 DEF TypeOK, Call, Follows, content
<1>11. Told(w)'
  BY <1>1, <1>2, <1>3, NoneAssumption DEF Told, Call
<1>12. Stands'
  BY <1>1, <1>2, <1>6 DEF Sound, Stands, content, testlets
<1>13. PublishedBacked'
  BY <1>1, <1>2, <1>6 DEF Sound, Stands, PublishedBacked, Published, content, testlets
<1>14. GroupsWhole'
  BY <1>1, <1>2 DEF Sound, GroupsWhole, content, testlets
<1>15. CertifiedIsClean'
  <2>1. \A r \in ToSet(results[w]) : \E t \in trail' : t.cert = n /\ t.validator = r.validator /\ t.verdict = r.verdict
    <3> SUFFICES ASSUME NEW r \in ToSet(results[w])
                 PROVE  \E t \in trail' : t.cert = n /\ t.validator = r.validator /\ t.verdict = r.verdict
      OBVIOUS
    <3> DEFINE t == [cert |-> n, artifact |-> job[w].id, validator |-> r.validator,
                     verdict |-> r.verdict, blocking |-> r.blocking]
    <3>1. t \in RunRows(w, n)
      BY DEF RunRows
    <3> QED
      BY <1>1, <3>1
  <2> SUFFICES ASSUME NEW k \in DOMAIN certs'
               PROVE  LET rs == certs'[k].runs IN
                      /\ [i \in DOMAIN rs |-> rs[i].validator]
                           = [i \in DOMAIN certs'[k].chain |-> certs'[k].chain[i].id]
                      /\ rs # <<>>
                      /\ \A i \in DOMAIN rs : rs[i].blocking => rs[i].verdict = "pass"
                      /\ \A r \in ToSet(rs) : \E t \in trail' : t.cert = k /\ t.validator = r.validator /\ t.verdict = r.verdict
    BY DEF CertifiedIsClean
  <2>2. CASE k = n
    BY <1>3, <1>5, <1>6, <2>1, <2>2
  <2>3. CASE k # n
    <3>1. k \in DOMAIN certs /\ certs'[k] = certs[k]
      BY <1>6, <2>3
    <3> QED
      BY <1>1, <1>2, <3>1 DEF Sound, CertifiedIsClean
  <2> QED
    BY <2>2, <2>3
<1>16. Publishes
  BY <1>1 DEF Publishes, content, Published
<1> QED
  BY <1>7, <1>8, <1>9, <1>10, <1>11, <1>12, <1>13, <1>14, <1>15, <1>16 DEF Sound

\* The certified version of a writing task or a word is inserted.
LEMMA InsertStep ==
  ASSUME IInv, NEW w \in Workers, Insert(w)
  PROVE  TypeOK' /\ Sound' /\ Grows /\ Publishes /\ Moves(w) /\ Call(w)' /\ Told(w)'
<1> DEFINE v == job[w].id
           row == Row("published", cert[w], v)
<1>1. /\ pc[w] = "write" /\ job[w].line \in {"D", "word"} /\ pc' = [pc EXCEPT ![w] = "done"]
      /\ UNCHANGED <<placeholder, certs, trail, pubs, passages, groups, job, seen, asked, results, cert>>
      /\ \/ /\ \E r \in {"skipped", "error"} : reply' = [reply EXCEPT ![w] = r]
            /\ UNCHANGED <<versions, current>>
         \/ /\ v \notin DOMAIN versions /\ reply' = [reply EXCEPT ![w] = "published"]
            /\ versions' = With(versions, v, row) /\ current' = With(current, v, v)
  BY DEF Insert, Answer
<1>2. TypeOK /\ Call(w) /\ Sound
  BY DEF IInv
<1>3. TypeOK'
  BY <1>1, <1>2 DEF TypeOK, Places
<1>4. Moves(w)
  BY <1>1, <1>2 DEF TypeOK, Moves
<1>5. Call(w)'
  BY <1>1, <1>2 DEF TypeOK, Call, Follows
<1>6. CASE /\ \E r \in {"skipped", "error"} : reply' = [reply EXCEPT ![w] = r]
           /\ UNCHANGED <<versions, current>>
  <2>1. Told(w)'
    BY <1>1, <1>2, <1>6 DEF TypeOK, Told
  <2> QED
    BY <1>1, <1>3, <1>4, <1>5, <1>6, <2>1, Quiet
<1>7. CASE /\ v \notin DOMAIN versions /\ reply' = [reply EXCEPT ![w] = "published"]
           /\ versions' = With(versions, v, row) /\ current' = With(current, v, v)
  <2>1. /\ DOMAIN versions' = DOMAIN versions \cup {v} /\ versions'[v] = row
        /\ \A u \in DOMAIN versions : versions'[u] = versions[u]
        /\ DOMAIN current' = DOMAIN current \cup {v} /\ current'[v] = v
        /\ \A i \in DOMAIN current : i # v => current'[i] = current[i]
    BY <1>7 DEF With
  <2>2. row.status = "published" /\ row.cert = cert[w] /\ row.item = v
    BY DEF Row
  <2> HIDE DEF row
  <2>3. Published' = Published \cup {v} /\ v \notin Published
    BY <1>7, <2>1, <2>2 DEF Published
  <2>4. cert[w] \in DOMAIN certs /\ certs[cert[w]].artifact = v
    BY <1>1, <1>2 DEF Call
  <2>5. Grows
    BY <1>1, <2>1, <2>3 DEF Grows
  <2>6. Told(w)'
    BY <1>1, <1>2, <1>7, <2>3 DEF TypeOK, Told
  <2>7. Stands'
    BY <1>1, <1>2, <2>1, <2>2 DEF Sound, Stands
  <2>8. CertifiedIsClean'
    BY <1>1, <1>2 DEF Sound, CertifiedIsClean
  <2>9. PublishedBacked'
    <3>1. \A u \in Published' : versions'[u].cert \in DOMAIN certs /\ certs[versions'[u].cert].artifact = u
      BY <1>2, <2>1, <2>2, <2>3, <2>4 DEF Sound, PublishedBacked, Published
    <3>2. \A i \in DOMAIN current' : current'[i] \in Published' /\ versions'[current'[i]].item = i
      BY <1>2, <2>1, <2>2, <2>3 DEF Sound, PublishedBacked, Published
    <3> QED
      BY <1>1, <1>2, <3>1, <3>2 DEF Sound, PublishedBacked
  <2>10. GroupsWhole'
    BY <1>1, <1>2, <2>1 DEF Sound, GroupsWhole
  <2>11. Publishes
    BY <2>1, <2>3 DEF Publishes, Published
  <2> QED
    BY <1>3, <1>4, <1>5, <2>5, <2>6, <2>7, <2>8, <2>9, <2>10, <2>11 DEF Sound
<1> QED
  BY <1>1, <1>6, <1>7

\* A testlet is written back whole.
LEMMA WriteBackStep ==
  ASSUME IInv, NEW w \in Workers, WriteBack(w)
  PROVE  TypeOK' /\ Sound' /\ Grows /\ Publishes /\ Moves(w) /\ Call(w)' /\ Told(w)'
<1> DEFINE ids == [i \in DOMAIN job[w].specs |-> job[w].specs[i].version]
           new == ToSet(ids)
           row == [v \in new |-> Row("draft", 0, v)]
           p == Fresh[w]
<1>1. /\ pc[w] = "write" /\ job[w].line = "C" /\ pc' = [pc EXCEPT ![w] = "done"]
      /\ UNCHANGED <<placeholder, certs, trail, current, pubs, job, seen, asked, results, cert>>
      /\ \/ /\ reply' = [reply EXCEPT ![w] = "writeback_error"]
            /\ UNCHANGED <<passages, versions, groups>>
         \/ /\ new \cap DOMAIN versions = {} /\ reply' = [reply EXCEPT ![w] = "published"]
            /\ passages' = With(passages, p, cert[w]) /\ versions' = WithAll(versions, new, row)
            /\ groups' = With(groups, p, ids)
  BY DEF WriteBack, Answer
<1>2. TypeOK /\ Call(w) /\ Sound
  BY DEF IInv
<1>3. TypeOK'
  BY <1>1, <1>2 DEF TypeOK, Places
<1>4. Moves(w)
  BY <1>1, <1>2 DEF TypeOK, Moves
<1>5. Call(w)'
  BY <1>1, <1>2 DEF TypeOK, Call, Follows
<1>6. CASE reply' = [reply EXCEPT ![w] = "writeback_error"] /\ UNCHANGED <<passages, versions, groups>>
  <2>1. Told(w)'
    BY <1>1, <1>2, <1>6 DEF TypeOK, Told
  <2> QED
    BY <1>1, <1>3, <1>4, <1>5, <1>6, <2>1, Quiet
<1>7. CASE /\ new \cap DOMAIN versions = {} /\ reply' = [reply EXCEPT ![w] = "published"]
           /\ passages' = With(passages, p, cert[w]) /\ versions' = WithAll(versions, new, row)
           /\ groups' = With(groups, p, ids)
  <2>1. \A v \in new : row[v].status = "draft" /\ row[v].item = v
    BY DEF Row
  <2> HIDE DEF row, new
  <2>2. /\ DOMAIN versions' = DOMAIN versions \cup new
        /\ \A v \in new : versions'[v] = row[v]
        /\ \A u \in DOMAIN versions : versions'[u] = versions[u]
    BY <1>7 DEF WithAll
  <2> HIDE DEF ids
  <2>3. /\ DOMAIN passages' = DOMAIN passages \cup {p} /\ passages'[p] = cert[w]
        /\ \A q \in DOMAIN passages : q # p => passages'[q] = passages[q]
        /\ DOMAIN groups' = DOMAIN groups \cup {p} /\ groups'[p] = ids
        /\ \A q \in DOMAIN groups : q # p => groups'[q] = groups[q]
    BY <1>7 DEF With
  <2>4. Published' = Published
    BY <2>1, <2>2 DEF Published
  <2>5. cert[w] \in DOMAIN certs /\ certs[cert[w]].artifact = p /\ job[w].id = p
    BY <1>1, <1>2 DEF Call
  <2>6. Grows
    BY <1>1, <2>2, <2>3, <2>4 DEF Grows
  <2>7. Told(w)'
    BY <1>1, <1>2, <1>7, <2>3, <2>5 DEF TypeOK, Told
  <2>8. Stands'
    BY <1>1, <1>2, <2>1, <2>2, <2>3, <2>5 DEF Sound, Stands
  <2>9. CertifiedIsClean'
    BY <1>1, <1>2 DEF Sound, CertifiedIsClean
  <2>10. PublishedBacked'
    <3>1. \A u \in Published : versions'[u] = versions[u]
      BY <2>2 DEF Published
    <3>2. \A q \in DOMAIN passages' : certs[passages'[q]].artifact = q
      BY <1>2, <2>3, <2>5 DEF Sound, PublishedBacked
    <3> QED
      BY <1>1, <1>2, <2>4, <3>1, <3>2 DEF Sound, PublishedBacked
  <2>11. GroupsWhole'
    <3>1. new = ToSet(ids)
      BY DEF new
    <3>2. DOMAIN groups' = DOMAIN passages'
      BY <1>2, <2>3 DEF Sound, GroupsWhole
    <3>3. \A g \in DOMAIN groups' : ToSet(groups'[g]) \subseteq DOMAIN versions'
      BY <1>2, <2>2, <2>3, <3>1 DEF Sound, GroupsWhole
    <3>4. \A g \in DOMAIN groups : g # p => ToSet(groups'[g]) \cap new = {}
      BY <1>2, <1>7, <2>3 DEF Sound, GroupsWhole
    <3>5. \A g, h \in DOMAIN groups' : g # h => ToSet(groups'[g]) \cap ToSet(groups'[h]) = {}
      BY <1>2, <2>3, <3>1, <3>4 DEF Sound, GroupsWhole
    <3> QED
      BY <3>2, <3>3, <3>5 DEF GroupsWhole
  <2>12. Publishes
    BY <2>2, <2>4 DEF Publishes, Published
  <2> QED
    BY <1>3, <1>4, <1>5, <2>6, <2>7, <2>8, <2>9, <2>10, <2>11, <2>12 DEF Sound
<1> QED
  BY <1>1, <1>6, <1>7

\* The issue page writes over whatever has become of the row.
LEMMA IssueStep ==
  ASSUME IInv, NEW w \in Workers, Issue(w)
  PROVE  TypeOK' /\ Sound' /\ Grows /\ Publishes /\ Moves(w) /\ Call(w)' /\ Told(w)'
<1> DEFINE v == job[w].id
           row == Row("published", cert[w], seen[w].item)
           pub == [version |-> v, cert |-> cert[w]]
<1>1. /\ pc[w] = "write" /\ job[w].line = "issue"
      /\ pc' = [pc EXCEPT ![w] = "done"] /\ reply' = [reply EXCEPT ![w] = "published"]
      /\ versions' = [versions EXCEPT ![v] = row] /\ pubs' = Append(pubs, pub)
      /\ current' = With(current, seen[w].item, v)
      /\ UNCHANGED <<placeholder, certs, trail, passages, groups, job, seen, asked, results, cert>>
  BY DEF Issue, Answer
<1>2. TypeOK /\ Call(w) /\ Sound
  BY DEF IInv
<1>3. /\ v \in DOMAIN versions /\ seen[w].item = v /\ job[w] \in Asks
      /\ cert[w] \in DOMAIN certs /\ certs[cert[w]].artifact = v
  BY <1>1, <1>2 DEF Call
<1>4. row.status = "published" /\ row.cert = cert[w] /\ row.item = v
  BY <1>3 DEF Row
<1>5. pub.version = v /\ pub.cert = cert[w] /\ pub \in [version : Names, cert : Nat]
  BY <1>2, <1>3, AskFacts DEF TypeOK
<1> HIDE DEF row
<1>6. /\ DOMAIN versions' = DOMAIN versions /\ versions'[v] = row
      /\ \A u \in DOMAIN versions : u # v => versions'[u] = versions[u]
      /\ DOMAIN current' = DOMAIN current \cup {v} /\ current'[v] = v
      /\ \A i \in DOMAIN current : i # v => current'[i] = current[i]
  BY <1>1, <1>3 DEF With
<1>7. /\ pubs' \in Seq([version : Names, cert : Nat])
      /\ \A n \in DOMAIN pubs' : pubs'[n] = pub \/ (n \in DOMAIN pubs /\ pubs'[n] = pubs[n])
  <2> HIDE DEF pub
  <2> QED
    BY <1>1, <1>2, <1>5 DEF TypeOK
<1>8. Published' = Published \cup {v}
  BY <1>3, <1>4, <1>6 DEF Published
<1>9. TypeOK'
  BY <1>1, <1>2, <1>7 DEF TypeOK, Places
<1>10. Moves(w)
  BY <1>1, <1>2 DEF TypeOK, Moves
<1>11. Call(w)'
  BY <1>1, <1>2 DEF TypeOK, Call, Follows
<1>12. Told(w)'
  BY <1>1, <1>2, <1>8 DEF TypeOK, Told
<1>13. Grows
  BY <1>1, <1>6, <1>8 DEF Grows
<1>14. Stands'
  <2>1. \A n \in DOMAIN pubs' : pubs'[n].cert \in DOMAIN certs
    BY <1>2, <1>3, <1>5, <1>7 DEF Sound, Stands
  <2>2. \A u \in DOMAIN versions' : versions'[u].item = u
    BY <1>2, <1>4, <1>6 DEF Sound, Stands
  <2> QED
    BY <1>1, <1>2, <2>1, <2>2 DEF Sound, Stands
<1>15. CertifiedIsClean'
  BY <1>1, <1>2 DEF Sound, CertifiedIsClean
<1>16. PublishedBacked'
  <2>1. \A u \in Published' : versions'[u].cert \in DOMAIN certs /\ certs[versions'[u].cert].artifact = u
    BY <1>2, <1>3, <1>4, <1>6, <1>8 DEF Sound, PublishedBacked, Published
  <2>2. \A i \in DOMAIN current : current[i] \in Published /\ current[i] = i
    BY <1>2 DEF Sound, Stands, PublishedBacked, Published
  <2>3. \A i \in DOMAIN current' : current'[i] \in Published' /\ current'[i] = i
    BY <1>6, <1>8, <2>2
  <2>4. \A u \in Published' : versions'[u].item = u
    BY <1>2, <1>4, <1>6, <1>8 DEF Sound, Stands, Published
  <2>5. \A n \in DOMAIN pubs' : certs[pubs'[n].cert].artifact = pubs'[n].version
    BY <1>2, <1>3, <1>5, <1>7 DEF Sound, PublishedBacked
  <2> QED
    BY <1>1, <1>2, <2>1, <2>3, <2>4, <2>5 DEF Sound, PublishedBacked
<1>17. GroupsWhole'
  BY <1>1, <1>2, <1>6 DEF Sound, GroupsWhole
<1>18. Publishes
  BY <1>1, <1>4, <1>6, <1>8 DEF Publishes, Published
<1> QED
  BY <1>9, <1>10, <1>11, <1>12, <1>13, <1>14, <1>15, <1>16, <1>17, <1>18 DEF Sound

-----------------------------------------------------------------------------
LEMMA InitInvariant == Init => IInv
<1> SUFFICES ASSUME Init PROVE IInv
  OBVIOUS
<1>1. TypeOK
  BY DEF Init, TypeOK, Places
<1>2. Stands
  BY DEF Init, Stands
<1>3. CertifiedIsClean
  BY DEF Init, CertifiedIsClean
<1>4. Published = {} /\ DOMAIN passages = {} /\ DOMAIN current = {} /\ DOMAIN pubs = {} /\ DOMAIN groups = {}
  BY DEF Init, Published
<1>5. PublishedBacked /\ GroupsWhole
  BY <1>4 DEF PublishedBacked, GroupsWhole
<1>6. \A w \in Workers : Call(w) /\ Told(w)
  BY NoneAssumption DEF Init, Call, Told
<1> QED
  BY <1>1, <1>2, <1>3, <1>5, <1>6 DEF IInv, Sound

LEMMA StepInvariant == IInv /\ [Next]_vars => IInv' /\ Publishes
<1> SUFFICES ASSUME IInv, [Next]_vars PROVE IInv' /\ Publishes
  OBVIOUS
<1>1. ASSUME NEW w \in Workers,
             TypeOK' /\ Sound' /\ Grows /\ Publishes /\ Moves(w) /\ Call(w)' /\ Told(w)'
      PROVE  IInv' /\ Publishes
  BY <1>1, OtherCalls DEF IInv
<1>2. ASSUME NEW w \in Workers, Step(w) \/ Lose(w) PROVE IInv' /\ Publishes
  BY <1>1, <1>2, StartStep, CheckStep, CertifyStep, RefuseStep, ReportStep, LookUpStep,
     InsertStep, WriteBackStep, IssueStep DEF Step
<1>3. CASE UNCHANGED <<tables, pc, job, seen, asked, results, cert, reply>>
  <2>1. Sound' /\ Publishes
    BY <1>3, Quiet DEF tables, content, testlets
  <2>2. TypeOK'
    BY <1>3 DEF IInv, TypeOK, tables, content
  <2>3. \A w \in Workers : Call(w)' /\ Told(w)'
    BY <1>3 DEF IInv, Call, Follows, Told, tables, content, testlets, Published
  <2> QED
    BY <2>1, <2>2, <2>3 DEF IInv
<1> QED
  BY <1>2, <1>3 DEF Next, Tick, vars

\* In every state the tables are sound and every call knows what it stands
\* on (transactions of the lines, and of the issue page).
THEOREM Invariant == Spec => []IInv
<1>1. Init => IInv
  BY InitInvariant
<1>2. IInv /\ [Next]_vars => IInv'
  BY StepInvariant
<1> QED
  BY <1>1, <1>2, PTL DEF Spec

\* A certificate stands for a chain asked to its end without a blocking
\* verdict other than pass (run_gate, issue_certificate).
THEOREM CertificatesAreClean == Spec => []CertifiedIsClean
<1>1. IInv => CertifiedIsClean
  BY DEF IInv, Sound
<1> QED
  BY <1>1, Invariant, PTL

\* Whatever students can be given has a certificate of its own.
THEOREM PublishedIsBacked == Spec => []PublishedBacked
<1>1. IInv => PublishedBacked
  BY DEF IInv, Sound
<1> QED
  BY <1>1, Invariant, PTL

\* A testlet is written whole or not at all (write-back of the C line).
THEOREM GroupsAreWhole == Spec => []GroupsWhole
<1>1. IInv => GroupsWhole
  BY DEF IInv, Sound
<1> QED
  BY <1>1, Invariant, PTL

\* What a caller was told is on file (_insert_run_and_verdict, publishing).
THEOREM AnswersAreOnFile == Spec => []ToldIsOnFile
<1>1. IInv => ToldIsOnFile
  BY DEF IInv, Told, ToldIsOnFile
<1> QED
  BY <1>1, Invariant, PTL

\* A publication is kept, and a new certificate for it leaves a row in the
\* history (issue_item_version).
THEOREM PublicationsAreKept == Spec => PublicationsKept
<1>1. IInv /\ [Next]_vars => [Publishes]_vars
  BY StepInvariant
<1>2. Publishes <=> \A v \in Published :
        /\ v \in Published'
        /\ versions'[v].cert # versions[v].cert => pubs' = Append(pubs, [version |-> v, cert |-> versions'[v].cert])
  BY DEF Publishes
<1> QED
  BY <1>1, <1>2, Invariant, PTL DEF Spec, PublicationsKept
=============================================================================
