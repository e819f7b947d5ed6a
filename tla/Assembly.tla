------------------------------ MODULE Assembly ------------------------------
(***************************************************************************)
(* Papers by rule: the compilation of a profile (assembly/profile.py) and  *)
(* the greedy solver (assembly/solver/heuristic.py). Rates are in tenths.  *)
(* Rank is the order of the stable hashes of items and groups under a seed.*)
(***************************************************************************)
EXTENDS Integers, Sequences, FiniteSets, SequencesExt, FiniteSetsExt

CONSTANTS NONE, Rank

\* The numbers of a list added up, from the first.
Total(s) == LET sum[n \in 0..Len(s)] == IF n = 0 THEN 0 ELSE sum[n - 1] + s[n] IN sum[Len(s)]
\* The members of S one after another, by the pairs of an order.
InOrder(S, before) ==
  [i \in 1..Cardinality(S) |-> CHOOSE x \in S : Cardinality({y \in S : <<y, x>> \in before}) = i - 1]

-----------------------------------------------------------------------------
(* compile_profile: of every setting the last overlay that names it counts;*)
(* an overlay is a function of the settings it names.                      *)
Setting(overlays, name, otherwise) ==
  LET naming == {i \in DOMAIN overlays : name \in DOMAIN overlays[i]}
  IN IF naming = {} THEN otherwise ELSE overlays[Max(naming)][name]

(* A diagnosis asks for isolated items, three of every knowledge point.    *)
Quotas(purpose, kps, least) ==
  [i \in DOMAIN kps |-> [kp |-> kps[i], isolated |-> purpose = "diagnosis",
     least |-> IF least # NONE THEN least ELSE IF purpose = "diagnosis" THEN 3 ELSE 1]]
Required(quotas) == Total([i \in DOMAIN quotas |-> quotas[i].least])

(* The quotas are hard: a maximum below their sum becomes a soft target,   *)
(* or the compilation is refused; a minimum below their sum is raised.     *)
Compile(purpose, band, kps, overlays, least, soften) ==
  LET count == Setting(overlays, "item_count_range", <<10, 20>>)
      quotas == Quotas(purpose, kps, least)
      over == Required(quotas) > count[2]
  IN IF over /\ ~soften THEN [kind |-> "refused"]
     ELSE [kind |-> "profile", purpose |-> purpose, band |-> band, quotas |-> quotas,
           min |-> IF count[1] < Required(quotas) THEN Required(quotas) ELSE count[1],
           max |-> count[2], soft |-> over,
           rate |-> Setting(overlays, "target_p_correct_range", NONE),
           margin |-> Setting(overlays, "uncertainty_margin", 1),
           gradient |-> Setting(overlays, "require_gradient_monotone", TRUE),
           oneTemplate |-> Setting(overlays, "same_template_different_paper", TRUE),
           crossPeriod |-> ~Setting(overlays, "cross_period_repeat", FALSE),
           mix |-> Setting(overlays, "content_mix", <<>>),
           relations |-> Setting(overlays, "multi_point_relation_check", purpose = "diagnosis"),
           decisions |-> (IF over THEN {"soft_target"} ELSE {})
                         \cup (IF count[1] < Required(quotas) THEN {"raise_min"} ELSE {})]

-----------------------------------------------------------------------------
(* A candidate: [id, band, kps, mode, p, purposes, group, template, mix].  *)
(* candidate_from_serving_row: a row without knowledge points or with an   *)
(* unknown purpose cannot be assembled at all.                             *)
Purposes == {"practice", "diagnosis", "measurement"}
Loads(c) == c.kps # {} /\ c.purposes \subseteq Purposes
Isolated(c) == Cardinality(c.kps) = 1 /\ c.mode = "single"

(* _filter_eligible: why a candidate is left out, NONE if it is not. *)
DropReason(profile, c, shown) ==
  CASE c.band # profile.band -> "gradeband_mismatch"
    [] ~\E i \in DOMAIN profile.quotas : profile.quotas[i].kp \in c.kps -> "kp_out_of_scope"
    [] profile.purpose \notin c.purposes -> "purpose_not_licensed"
    [] profile.crossPeriod /\ c.id \in shown.items -> "exposed_item"
    [] profile.oneTemplate /\ c.template # NONE /\ c.template \in shown.templates -> "exposed_template"
    [] profile.rate # NONE /\ c.p = NONE -> "missing_p_correct_prior"
    [] profile.rate # NONE /\ c.p < profile.rate[1] - profile.margin -> "p_correct_out_of_range"
    [] profile.rate # NONE /\ c.p > profile.rate[2] + profile.margin -> "p_correct_out_of_range"
    [] profile.relations /\ ~Isolated(c) /\ c.mode = "single" -> "relation_declaration_invalid"
    [] OTHER -> NONE
Reasons == <<"gradeband_mismatch", "kp_out_of_scope", "purpose_not_licensed", "exposed_item", "exposed_template",
             "missing_p_correct_prior", "p_correct_out_of_range", "relation_declaration_invalid">>
Eligible(profile, pool, shown) == {c \in pool : DropReason(profile, c, shown) = NONE}
Drops(profile, pool, shown) ==
  [r \in {DropReason(profile, c, shown) : c \in pool} \ {NONE} |->
     Cardinality({c \in pool : DropReason(profile, c, shown) = r})]
\* How many candidates a record of drops has.
Dropped(drops) == Total([i \in DOMAIN Reasons |-> IF Reasons[i] \in DOMAIN drops THEN drops[Reasons[i]] ELSE 0])

(* What is taken together: a single item, or what is eligible of a group.  *)
Ranked(S) == InOrder(S, {e \in S \X S : Rank[e[1].id] < Rank[e[2].id]})
Unit(members, rank) ==
  [members |-> Ranked(members), rank |-> rank, kps |-> UNION {m.kps : m \in members},
   templates |-> {m.template : m \in members} \ {NONE},
   isolated |-> Cardinality(members) = 1 /\ \A m \in members : Isolated(m)]
MaxPerGroup == 6
GroupsOf(S) == {c.group : c \in S} \ {NONE}
InGroup(S, g) == {c \in S : c.group = g}
Oversized(S) == {g \in GroupsOf(S) : Cardinality(InGroup(S, g)) > MaxPerGroup}
UnitsOf(S) == {Unit({c}, Rank[c.id]) : c \in InGroup(S, NONE)}
              \cup {Unit(InGroup(S, g), Rank[g]) : g \in GroupsOf(S) \ Oversized(S)}
Units(S) == InOrder(UnitsOf(S), {e \in UnitsOf(S) \X UnitsOf(S) : e[1].rank < e[2].rank})

Serves(u, q) == IF q.isolated THEN u.isolated /\ u.kps = {q.kp} ELSE q.kp \in u.kps
\* The members of the units at some places of a selection, in its order.
Members(taken, places) == FlattenSeq([i \in DOMAIN taken |-> IF i \in places THEN taken[i].members ELSE <<>>])
Size(taken) == Len(Members(taken, DOMAIN taken))
Served(taken, q) == Len(Members(taken, {i \in DOMAIN taken : Serves(taken[i], q)}))

\* Mutation: items of one template may stand in one paper.
TemplateFreeAlways(profile, taken, u) == TRUE

TemplateFree(profile, taken, u) ==
  profile.oneTemplate => \A i \in DOMAIN taken : taken[i].templates \cap u.templates = {}

(* Phase 1, by quota: units in their order until the quota is served. The  *)
(* maximum is not asked here.                                              *)
Take(profile, taken, u, q) ==
  IF Served(taken, q) < q.least /\ ~Contains(taken, u) /\ Serves(u, q) /\ TemplateFree(profile, taken, u)
  THEN Append(taken, u) ELSE taken
FillQuota(profile, units, taken, q) ==
  LET fill[n \in 0..Len(units)] == IF n = 0 THEN taken ELSE Take(profile, fill[n - 1], units[n], q)
  IN fill[Len(units)]
FillQuotas(profile, units) ==
  LET fill[n \in 0..Len(profile.quotas)] ==
        IF n = 0 THEN <<>> ELSE FillQuota(profile, units, fill[n - 1], profile.quotas[n])
  IN fill[Len(profile.quotas)]

(* Phase 2: the unit that the mix of the content misses most, the first of *)
(* them, until the minimum is reached.                                     *)
MixDeficit(profile, taken, tag) ==
  IF tag \notin DOMAIN profile.mix THEN 0
  ELSE profile.mix[tag] * (Size(taken) + 1)
       - 10 * Len(Members(taken, {i \in DOMAIN taken : \E m \in Range(taken[i].members) : m.mix = tag}))
Score(profile, taken, u) == Max({MixDeficit(profile, taken, m.mix) : m \in Range(u.members)})
Open(profile, units, taken) ==
  {i \in DOMAIN units : /\ ~Contains(taken, units[i]) /\ TemplateFree(profile, taken, units[i])
                        /\ profile.soft \/ Size(taken) + Len(units[i].members) <= profile.max}
TakeBest(profile, units, taken) ==
  LET open == Open(profile, units, taken)
      score == [i \in open |-> Score(profile, taken, units[i])]
      highest == Max(Range(score))
  IN IF Size(taken) >= profile.min \/ open = {} THEN taken
     ELSE Append(taken, units[Min({i \in open : score[i] = highest})])
FillMinimum(profile, units, taken) ==
  LET fill[n \in 0..Len(units)] == IF n = 0 THEN taken ELSE TakeBest(profile, units, fill[n - 1])
  IN fill[Len(units)]

(* From easy to hard, items without a rate last, equal ones by rank. *)
Easier(a, b) ==
  LET Rate(c) == IF c.p = NONE THEN -1 ELSE c.p
  IN Rate(a) > Rate(b) \/ (Rate(a) = Rate(b) /\ Rank[a.id] < Rank[b.id])

(* assemble. A quota that is short after phase 1 is short to the end: what *)
(* serves it and is not taken has a template that is.                      *)
Assemble(profile, pool, shown) ==
  LET S == Eligible(profile, pool, shown)
      units == Units(S)
      taken == FillMinimum(profile, units, FillQuotas(profile, units))
      members == Members(taken, DOMAIN taken)
      easier == {e \in Range(members) \X Range(members) : Easier(e[1], e[2])}
      conflicts ==
        {<<"max_items_per_group", g>> : g \in Oversized(S)}
        \cup {<<"kp_quota", q.kp>> : q \in {q \in Range(profile.quotas) : Served(taken, q) < q.least}}
        \cup (IF Size(taken) < profile.min THEN {<<"item_count", NONE>>} ELSE {})
  IN IF conflicts # {}
     THEN [kind |-> "infeasible", conflicts |-> conflicts, pool |-> Cardinality(pool), eligible |-> Cardinality(S),
           drops |-> Drops(profile, pool, shown)]
     ELSE [kind |-> "paper", items |-> IF profile.gradient THEN InOrder(Range(members), easier) ELSE members,
           exceeded |-> IF profile.soft /\ Size(taken) > profile.max THEN Size(taken) - profile.max ELSE 0]

-----------------------------------------------------------------------------
(* A paper holds eligible items only, as many as its minimum, no template  *)
(* in two of its units, what is eligible of a group together, an isolated  *)
(* item for every one a quota asks for, and gets no easier; a refusal      *)
(* accounts for every candidate, and without the rule on templates a point *)
(* that it names is really short.                                          *)
PaperLegal(profile, pool, shown, a) ==
  LET S == Eligible(profile, pool, shown)  paper == Range(a.items) IN
  IF a.kind = "paper"
  THEN /\ IsInjective(a.items) /\ paper \subseteq S /\ Len(a.items) >= profile.min
       /\ profile.oneTemplate => \A c, d \in paper :
            c # d /\ c.template = d.template /\ c.template # NONE => c.group = d.group /\ c.group # NONE
       /\ \A c \in paper : c.group # NONE => InGroup(S, c.group) \subseteq paper
       /\ \A q \in Range(profile.quotas) :
            Cardinality({c \in paper : q.kp \in c.kps /\ (q.isolated => Isolated(c) /\ c.kps = {q.kp})})
              >= IF q.isolated THEN q.least ELSE 1
       /\ profile.gradient => \A i, j \in DOMAIN a.items : i < j /\ a.items[j].p # NONE =>
            a.items[i].p # NONE /\ a.items[i].p >= a.items[j].p
       /\ a.exceeded > 0 => "soft_target" \in profile.decisions
  ELSE /\ DOMAIN a.drops \subseteq Range(Reasons)
       /\ a.pool = a.eligible + Dropped(a.drops)
       /\ ~profile.oneTemplate /\ Oversized(S) = {} => \A q \in Range(profile.quotas) :
            <<"kp_quota", q.kp>> \in a.conflicts =>
              Cardinality({c \in S : /\ q.kp \in c.kps
                                     /\ q.isolated => /\ Isolated(c) /\ c.kps = {q.kp}
                                                      /\ c.group = NONE \/ InGroup(S, c.group) = {c}}) < q.least
=============================================================================
