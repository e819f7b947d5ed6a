--------------------------- MODULE Instantiation ----------------------------
(***************************************************************************)
(* Items from a template: the linter of templates (dsl/linter, dsl/schema),*)
(* the engine that fills the slots (engine/engine, distractor/generator),  *)
(* variants along an axis with their certificate (variation/) and the      *)
(* request for a new difficulty (difficulty/trigger).                      *)
(***************************************************************************)
EXTENDS Expressions

CONSTANT NONE

(* A template: [id, blocks, slots, axes, refs, answer, rules, objective]:  *)
(* slots by name, axes as sets of names, refs the slots its text mentions, *)
(* rules: [type, error, expression]. A slot: [type, hard, min, max, many]. *)
Blocks == {"objective", "slots", "variation_axes", "presentation", "answer_program", "distractor_rules"}
SlotTypes == {"int", "decimal", "fraction", "string", "bool", "choice"}

(* ItemTemplateSpec: the schema asks for the blocks and takes any slot type*)
(* and a text that reads as true; the linter takes neither.                *)
SchemaFits(t) == Blocks \subseteq t.blocks /\ \A s \in DOMAIN t.slots : t.slots[s].hard \in {"yes", "no", "text"}
Lint(t) ==
  (IF Blocks \subseteq t.blocks THEN {} ELSE {"missing_block"})
  \cup (IF \A s \in DOMAIN t.slots : t.slots[s].type \in SlotTypes THEN {} ELSE {"invalid_slot_type"})
  \cup (IF \A a \in DOMAIN t.axes : t.axes[a] \subseteq DOMAIN t.slots THEN {} ELSE {"dangling_variation_slot"})
  \cup (IF \A s \in DOMAIN t.slots : t.slots[s].hard \in {"yes", "no"} THEN {} ELSE {"invalid_difficulty_relevant_type"})
  \cup (IF SchemaFits(t) THEN {} ELSE {"schema_violation"})

-----------------------------------------------------------------------------
(* A parameter as it is given: [form, q], a whole number, a float, a text  *)
(* with a point or with a slash, or one of the choices.                    *)
Toward(q) == IF q[1] < 0 THEN -((-q[1]) \div q[2]) ELSE q[1] \div q[2]

(* _normalize_value: what goes into the id and the text of the item; a     *)
(* float in an integer slot is cut.                                        *)
Normalized(type, raw) ==
  CASE type = "int" -> IF raw.form \in {"point", "slash", "choice"} THEN Error ELSE Value("int", Toward(raw.q), 1)
    [] type = "decimal" -> IF raw.form \in {"slash", "choice"} THEN Error ELSE Value("decimal", raw.q[1], raw.q[2])
    [] type = "fraction" -> IF raw.form = "choice" THEN Error ELSE Value("fraction", raw.q[1], raw.q[2])
    [] type \in {"string", "choice"} -> Value("text", raw.q[1], raw.q[2])
    [] type = "bool" -> Truth(raw.form \in {"point", "slash", "choice"} \/ raw.q[1] # 0)
    [] OTHER -> Error

(* _eval_env: what the answer is computed from; it takes the parameters as *)
(* they were given, and a fraction only with a slash.                      *)
EnvOf(type, raw) ==
  CASE type = "decimal" -> Value("decimal", raw.q[1], raw.q[2])
    [] type = "fraction" -> IF raw.form = "slash" THEN Value("fraction", raw.q[1], raw.q[2]) ELSE Error
    [] OTHER -> Value(CASE raw.form = "int" -> "int" [] raw.form = "float" -> "float" [] OTHER -> "text", raw.q[1], raw.q[2])

\* Mutation: an option may have the value of the answer.
OptionAny(rule, env, answer) ==
  LET v == Evaluate(rule.expression, env) IN
  CASE rule.type = "corpus_sample" -> [error |-> rule.error, value |-> NONE, refused |-> NONE]
    [] rule.type = "deterministic" ->
         [error |-> rule.error, value |-> v, refused |-> IF IsError(v) THEN "distractor" ELSE NONE]

(* _build_error_bindings and generate_distractors: one option of each rule,*)
(* or why there is none; a sample of the corpus has no value yet.          *)
Option(rule, env, answer) ==
  LET v == Evaluate(rule.expression, env) IN
  CASE rule.type = "corpus_sample" -> [error |-> rule.error, value |-> NONE, refused |-> NONE]
    [] rule.type = "deterministic" ->
         [error |-> rule.error, value |-> v,
          refused |-> CASE IsError(v) -> "distractor" [] SameValue(v, answer) -> "collision" [] OTHER -> NONE]

Refuse(reason) == [kind |-> "refused", reason |-> reason]

(* compute_instance_id: the template and the normal parameters; the rest of*)
(* the content address (pack, engine, corpus, locale) stays the same here. *)
ItemId(t, normal) == <<t.id, normal>>

(* instantiate: the first thing that fails refuses the item. *)
Assembled(t, params, normal, answer, options) ==
  LET bad == {i \in DOMAIN options : options[i].refused # NONE} IN
  CASE IsError(answer) -> Refuse("answer")
    [] ~IsError(answer) /\ bad # {} -> Refuse(options[Min(bad)].refused)
    [] ~IsError(answer) /\ bad = {} /\ ~(t.refs \subseteq DOMAIN params) -> Refuse("presentation")
    [] OTHER -> [kind |-> "item", id |-> ItemId(t, normal), answer |-> answer, options |-> options, params |-> params]
Answered(t, params, normal, env, answer) ==
  Assembled(t, params, normal, answer, [i \in DOMAIN t.rules |-> Option(t.rules[i], env, answer)])
Computed(t, params, normal, env) ==
  CASE \E s \in DOMAIN params : IsError(normal[s]) -> Refuse("value")
    [] (\A s \in DOMAIN params : ~IsError(normal[s])) /\ (\E s \in DOMAIN params : IsError(env[s])) -> Refuse("env")
    [] OTHER -> Answered(t, params, normal, env, Evaluate(t.answer, env))
Instantiate(t, params) ==
  IF ~SchemaFits(t) THEN Refuse("schema")
  ELSE IF ~(DOMAIN params \subseteq DOMAIN t.slots) THEN Refuse("slot")
  ELSE Computed(t, params, [s \in DOMAIN params |-> Normalized(t.slots[s].type, params[s])],
                [s \in DOMAIN params |-> EnvOf(t.slots[s].type, params[s])])

-----------------------------------------------------------------------------
(* _default_sampler: the next value of a slot; integers start again at the *)
(* minimum, decimals and fractions have no bounds.                         *)
Sample(slot, raw, i) ==
  CASE slot.type = "int" ->
         LET v == Toward(raw.q) + i
             up == IF slot.min # NONE /\ v < slot.min THEN slot.min + i - 1 ELSE v
             span == IF slot.max - slot.min > 0 THEN slot.max - slot.min ELSE 1
         IN [form |-> "int", q |-> <<IF slot.max # NONE /\ up > slot.max
                                     THEN slot.min + ((up - slot.min) % span) ELSE up, 1>>]
    [] slot.type = "decimal" -> [form |-> "point", q |-> <<raw.q[1] + i * raw.q[2], raw.q[2]>>]
    [] slot.type = "fraction" -> [form |-> "slash", q |-> <<raw.q[1] + i * raw.q[2], raw.q[2]>>]
    [] slot.type = "choice" /\ slot.many > 0 ->
         [form |-> "choice", q |-> <<1 + (((IF raw.q[1] \in 1..slot.many THEN raw.q[1] ELSE 1) - 1 + i) % slot.many), 1>>]
    [] OTHER -> raw

(* _check_objective_dependency: an axis of all slots, or of a choice that  *)
(* the answer depends on, would change what is examined.                   *)
NamesIn(tree) == {e.name : e \in {e \in Parts(tree) : e.op = "name"}}
Dependent(t, axis) ==
  \/ DOMAIN t.slots # {} /\ DOMAIN t.slots \subseteq axis
  \/ \E s \in axis \cap DOMAIN t.slots : t.slots[s].type = "choice" /\ s \in NamesIn(t.answer)

(* issue_certificate, mark_unproven: the id covers the variants, the axis, *)
(* the objective and the verdict.                                          *)
Certificate(t, axisId, certified, axis, ids) ==
  [certified |-> certified, objective |-> t.objective, axis |-> axis, frozen |-> DOMAIN t.slots \ axis,
   variants |-> ids, id |-> <<axisId, ids, t.objective, certified>>]

(* generate_variants: none and UNPROVEN along a dependent axis, otherwise n*)
(* items and a certificate; one that fails fails them all.                 *)
Variant(t, axis, base, i) ==
  Instantiate(t, [s \in DOMAIN t.slots |-> IF s \in axis THEN Sample(t.slots[s], base[s], i) ELSE base[s]])
Issued(t, axisId, axis, items) ==
  LET bad == {i \in DOMAIN items : items[i].kind = "refused"} IN
  IF bad # {} THEN items[Min(bad)]
  ELSE [kind |-> "variants", items |-> items,
        certificate |-> Certificate(t, axisId, TRUE, axis, [i \in DOMAIN items |-> items[i].id])]
GenerateVariants(t, axisId, n, base) ==
  IF n <= 0 THEN Refuse("count")
  ELSE IF ~SchemaFits(t) THEN Refuse("schema")
  ELSE IF axisId \notin DOMAIN t.axes THEN Refuse("axis")
  ELSE IF Dependent(t, t.axes[axisId])
       THEN [kind |-> "variants", items |-> <<>>, certificate |-> Certificate(t, axisId, FALSE, t.axes[axisId], <<>>)]
  ELSE IF ~(t.axes[axisId] \subseteq DOMAIN t.slots) THEN Refuse("axis_slot")
  ELSE IF ~(DOMAIN t.slots \subseteq DOMAIN base) THEN Refuse("base")
  ELSE Issued(t, axisId, t.axes[axisId], [i \in 1..n |-> Variant(t, t.axes[axisId], base, i)])

(* mark_ai_free_rewrite: what the model rewrites is never certified. *)
AIRewrite(t, item) == Certificate(t, "", FALSE, {}, <<item.id>>)

-----------------------------------------------------------------------------
(* detect_difficulty_change and emit_difficulty_reestimate: the slots that *)
(* make an item harder and differ from the baseline, as far as both name   *)
(* them; without any nothing may be emitted.                               *)
Differ(a, b) == a.q # b.q \/ ((a.form \in {"int", "float"}) # (b.form \in {"int", "float"}))
Changed(t, params, baseline) ==
  {s \in DOMAIN t.slots : /\ t.slots[s].hard # "no" /\ s \in DOMAIN params /\ s \in DOMAIN baseline
                          /\ Differ(params[s], baseline[s])}
Detect(t, params, baseline) == baseline # NONE /\ Changed(t, params, baseline) # {}
Emit(t, params, baseline) ==
  IF baseline = NONE THEN Refuse("baseline")
  ELSE IF Changed(t, params, baseline) = {} THEN Refuse("unchanged")
  ELSE [kind |-> "event", slots |-> Changed(t, params, baseline)]

-----------------------------------------------------------------------------
(* One id stands for one item: parameters of the same normal form give the *)
(* same answer and the same options, if they are given in the type of their*)
(* slot; and no option has the value of the answer.                        *)
Proper(t, params) ==
  \A s \in DOMAIN params :
    CASE t.slots[s].type = "int" -> params[s].form = "int"
      [] t.slots[s].type \in {"string", "choice"} -> params[s].form = "choice"
      [] t.slots[s].type = "bool" -> params[s].form = "int" /\ params[s].q \in {<<0, 1>>, <<1, 1>>}
      [] OTHER -> TRUE
OneItemPerId(t, a, b) ==
  a.kind = "item" /\ b.kind = "item" =>
    /\ a.id = b.id /\ Proper(t, a.params) /\ Proper(t, b.params) => a.answer = b.answer /\ a.options = b.options
    /\ \A i \in DOMAIN a.options : a.options[i].value # NONE => ~SameValue(a.options[i].value, a.answer)

(* Certified variants differ from the base in slots of their axis only,    *)
(* none of them decides what is examined, integers stay within their       *)
(* bounds, and the certificate names them all; a template without lint     *)
(* fails for its values only.                                              *)
VariantsHonest(t, axisId, n, base, r) ==
  /\ r.kind = "variants" =>
       /\ r.certificate.certified <=> Len(r.items) = n
       /\ Len(r.items) = Len(r.certificate.variants)
       /\ \A i \in DOMAIN r.items :
            /\ ~Dependent(t, r.certificate.axis)
            /\ \A s \in DOMAIN t.slots \ t.axes[axisId] : r.items[i].params[s] = base[s]
            /\ \A s \in r.certificate.axis : t.slots[s].type = "int" /\ t.slots[s].min # NONE /\ t.slots[s].max # NONE =>
                 r.items[i].params[s].q[1] \in t.slots[s].min..t.slots[s].max
  /\ Lint(t) = {} /\ n > 0 /\ axisId \in DOMAIN t.axes /\ DOMAIN base = DOMAIN t.slots /\ r.kind = "refused" =>
       r.reason \in {"value", "env", "answer", "distractor", "collision", "presentation"}

(* What is detected can be emitted and what is emitted was detected. *)
EmitsWhatIsDetected(t, params, baseline) ==
  LET e == Emit(t, params, baseline) IN Detect(t, params, baseline) <=> e.kind = "event"
=============================================================================
