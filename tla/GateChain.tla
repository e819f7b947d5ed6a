------------------------------ MODULE GateChain ------------------------------
(***************************************************************************)
(* The gate of the Python service: what every validator says of an         *)
(* artifact, how a policy orders the validators into a chain, and what     *)
(* their verdicts add up to. Operators only; Production runs them.         *)
(*                                                                         *)
(* An artifact is what the validators look at: a payload is the record of  *)
(* the values they read, NONE where the code finds None or no key.         *)
(* Evidence, confidences and costs are left out.                           *)
(***************************************************************************)
EXTENDS Integers, Sequences, FiniteSets, SequencesExt

CONSTANT NONE   \* no value: None, or a key that is absent

(* The domain of artifact types that a policy may name. *)
ArtifactTypes == {"item", "material", "corpus", "group", "blueprint", "audio", "passage"}

(* The only verdicts a result can carry. *)
Verdicts == {"pass", "fail", "review"}

(* Structure: a json schema when the context has one, else required keys. *)
SchemaVerdict(c) ==
  IF c.payload = NONE \/ (c.schema = NONE /\ c.required = {}) THEN "review"
  ELSE IF \/ c.schema = NONE /\ c.required \subseteq c.payload.keys
          \/ c.schema = "fits"
       THEN "pass" ELSE "fail"

(* The license a context names, before the one its payload names. *)
LicenseOf(c) ==
  IF c.license # NONE THEN c.license
  ELSE IF c.payload # NONE THEN c.payload.license ELSE NONE

(* registry: the material_license rows, license id -> [decision, expires]; *)
(* an expiry of NONE is a permanent license.                               *)
LicenseVerdict(c, registry, now) ==
  LET lid == LicenseOf(c) IN
  CASE lid = NONE /\ c.type = "item" -> "pass"
    [] lid = NONE /\ c.type # "item" -> "fail"
    [] lid # NONE /\ ~c.db -> "review"
    [] lid # NONE /\ c.db ->
         IF /\ lid \in DOMAIN registry
            /\ registry[lid].decision = "approved"
            /\ registry[lid].expires = NONE \/ registry[lid].expires > now
         THEN "pass" ELSE "fail"

(* Duplicates are looked up by the digest of the whole payload among the   *)
(* ids of published versions; ids of versions digest other fields.         *)
PayloadDigest(c) == <<"payload", c.payload>>
DuplicateVerdict(c, published) ==
  IF c.payload = NONE \/ c.type \notin {"item", "material", "corpus"} \/ ~c.db THEN "review"
  ELSE IF PayloadDigest(c) \in published THEN "review" ELSE "pass"

(* Bodies that name forbidden terms fail; no body is cleared without a     *)
(* person, so this validator never passes.                                 *)
FactVerdict(c) ==
  IF c.payload = NONE THEN "fail"
  ELSE IF c.payload.body \in {"political", "violent", "missing"} THEN "fail" ELSE "review"

Ceiling(band) == CASE band = "L" -> 15 [] band = "M" -> 25 [] band = "H" -> 40 [] OTHER -> 25
BlockedGenres == {"argumentative", "news_report"}

(* Low grades get no contested genres or topics; sentences over the        *)
(* ceiling of the grade are reviewed, over one and a half of it refused.   *)
AgeVerdict(c) ==
  IF c.payload = NONE THEN "fail"
  ELSE LET p == c.payload
           low == p.band = "L" /\ (p.genre \in BlockedGenres \/ p.body = "social")
       IN IF low \/ 2 * p.sentence > 3 * Ceiling(p.band) THEN "fail"
          ELSE IF p.sentence > Ceiling(p.band) THEN "review" ELSE "pass"

Deviation(rate, goal) ==
  IF rate < goal.min THEN "below" ELSE IF rate > goal.max THEN "above" ELSE "within"

(* Without a baseline or a goal nothing can be compared. *)
DifficultyVerdict(c) ==
  IF c.payload = NONE THEN "fail"
  ELSE LET p == c.payload IN
       IF ~p.baseline \/ p.goal = NONE THEN "review"
       ELSE [below |-> "review", within |-> "pass", above |-> "fail"][Deviation(p.oov, p.goal)]

(* A writing task must carry a rubric that parses, names every level and   *)
(* whose dimensions add up to its total.                                   *)
RubricVerdict(c) ==
  IF c.payload # NONE /\ c.payload.rubric = "complete" THEN "pass" ELSE "fail"

(* A target word from the context or the lineage, looked up in a corpus.   *)
WordVerdict(c, corpus) ==
  IF c.payload = NONE THEN "review"
  ELSE LET word == IF c.target # NONE THEN c.target ELSE c.payload.word
       IN IF word = NONE THEN "review" ELSE IF word \in corpus THEN "pass" ELSE "fail"

(* Words per minute within a tenth of what the grade expects. *)
Wpm == [L |-> 120, M |-> 140, H |-> 160]
AudioAgeVerdict(p) ==
  IF /\ p.band \in DOMAIN Wpm
     /\ p.wpm # NONE
     /\ 9 * Wpm[p.band] <= 10 * p.wpm
     /\ 10 * p.wpm <= 11 * Wpm[p.band]
  THEN "pass" ELSE "fail"

(* A transcript, when there is one, decides; else the lengths must agree. *)
AudioQualityVerdict(p) ==
  IF /\ p.text # NONE
     /\ IF p.transcript # NONE THEN p.transcript = p.text
        ELSE p.metaLength \in {NONE, Len(p.text)}
  THEN "pass" ELSE "fail"

(* The validators with the constants of their classes. *)
ValidatorInfo ==
  [schema |-> [tier |-> 0, blocking |-> TRUE],
   license |-> [tier |-> 0, blocking |-> TRUE],
   duplicate_placeholder |-> [tier |-> 0, blocking |-> FALSE],
   passage_fact_check |-> [tier |-> 0, blocking |-> TRUE],
   passage_age_appropriate |-> [tier |-> 0, blocking |-> TRUE],
   passage_difficulty_gate |-> [tier |-> 0, blocking |-> TRUE],
   rubric_completeness |-> [tier |-> 0, blocking |-> TRUE],
   word |-> [tier |-> 0, blocking |-> TRUE],
   solvability |-> [tier |-> 1, blocking |-> FALSE]]

(* What validator v says of context c against the tables it reads. *)
VerdictOf(v, c, db) ==
  CASE v = "schema" -> SchemaVerdict(c)
    [] v = "license" -> LicenseVerdict(c, db.licenses, db.now)
    [] v = "duplicate_placeholder" -> DuplicateVerdict(c, db.published)
    [] v = "passage_fact_check" -> FactVerdict(c)
    [] v = "passage_age_appropriate" -> AgeVerdict(c)
    [] v = "passage_difficulty_gate" -> DifficultyVerdict(c)
    [] v = "rubric_completeness" -> RubricVerdict(c)
    [] v = "word" -> WordVerdict(c, db.corpus)
    [] v = "solvability" -> IF c.payload = NONE THEN "review" ELSE c.payload.math

(* A step of a chain: a registered validator, and whether it blocks. *)
Steps == [id : DOMAIN ValidatorInfo, blocking : {"unset", "yes", "no"}]

(* A policy maps <<pack, type>> to a chain of steps [id, blocking]. It is  *)
(* refused unless every type is legal, no chain repeats a validator and    *)
(* every validator is registered for the pack or the platform.             *)
PolicyLoads(policy, registered) ==
  /\ DOMAIN policy # {}
  /\ \A k \in DOMAIN policy :
       /\ k[2] \in ArtifactTypes
       /\ policy[k] # <<>>
       /\ \A i, j \in DOMAIN policy[k] : policy[k][i].id = policy[k][j].id => i = j
       /\ \A i \in DOMAIN policy[k] : policy[k][i].id \in registered

(* The chain of a pack, or that of the platform. *)
ChainOf(policy, pack, type) ==
  IF <<pack, type>> \in DOMAIN policy THEN policy[<<pack, type>>]
  ELSE IF <<"platform", type>> \in DOMAIN policy THEN policy[<<"platform", type>>] ELSE <<>>

(* Cheap validators first, in the order of the policy within a tier: a     *)
(* step takes the place after all that come before it.                     *)
Tier(step) == ValidatorInfo[step.id].tier
Before(chain, i, j) ==
  Tier(chain[i]) < Tier(chain[j]) \/ (Tier(chain[i]) = Tier(chain[j]) /\ i < j)
Place(chain, i) == 1 + Cardinality({j \in DOMAIN chain : Before(chain, j, i)})
Ordered(chain) ==
  [n \in 1..Len(chain) |-> chain[CHOOSE i \in DOMAIN chain : Place(chain, i) = n]]

(* A step that leaves blocking open takes that of the validator's class. *)
Blocking(step) ==
  IF step.blocking = "unset" THEN ValidatorInfo[step.id].blocking ELSE step.blocking = "yes"

(* A result of the chain: validator, verdict, whether it blocks. *)
Stops(r) == r.verdict = "fail" /\ r.blocking

\* Mutation: only a blocking failure keeps a certificate back.
FinalVerdictUnlessFail(results) == IF \E i \in DOMAIN results : Stops(results[i]) THEN "fail" ELSE "pass"

FinalVerdict(results) ==
  IF \E i \in DOMAIN results : Stops(results[i]) THEN "fail"
  ELSE IF \E i \in DOMAIN results : results[i].verdict = "review" THEN "review" ELSE "pass"

(* What the certifier demands of a list of runs before it signs. *)
MayCertify(results) ==
  results # <<>> /\ \A i \in DOMAIN results : results[i].blocking => results[i].verdict = "pass"

=============================================================================
