----------------------------- MODULE Migrations -----------------------------
(***************************************************************************)
(* The migration chain (alembic/versions 0001-0031) as programs over the   *)
(* catalogue of the database. A command runs the migrations between two    *)
(* versions in one transaction (alembic/env.py): all of them or none. Of a *)
(* table the catalogue keeps what other statements depend on: types, keys  *)
(* to other tables, and the columns and constraints that are added later.  *)
(***************************************************************************)
EXTENDS Integers, Sequences, FiniteSets, TLC, SequencesExt

VARIABLES
  version,   \* the revision of the database
  schema,    \* name of an object -> [on: its table, needs: other objects, as: its text]
  rows,      \* facts of the stored rows that a statement may fail on
  failed     \* the last command was rolled back
migrations == <<version, schema, rows, failed>>

-----------------------------------------------------------------------------
(* Statements. Make and Drop insist, Ensure and Forget do not, Put         *)
(* replaces; what is dropped takes along what stands on it, and is refused *)
(* while anything else needs it, unless it cascades.                       *)
Statement(do, x, on, needs, as) == [do |-> do, x |-> x, on |-> on, needs |-> needs, as |-> as, unless |-> {}]
Table(t, refs)      == Statement("make", t, "", refs, "")
Make(x, t, needs)   == Statement("make", x, t, needs, "")
Column(x, t)        == Make(x, t, {})
Ensure(x, needs)    == Statement("ensure", x, "", needs, "")
Put(x, on, as)      == Statement("put", x, on, {}, as)
Drop(x)             == Statement("drop", x, "", {}, "")
Forget(x)           == Statement("forget", x, "", {}, "")
Cascade(x)          == Statement("cascade", x, "", {}, "")
Unless(fact, s)     == [s EXCEPT !.unless = {fact}]
Indexes(t, xs)      == [i \in DOMAIN xs |-> Make(xs[i], t, {})]
Drops(xs)           == [i \in DOMAIN xs |-> Drop(xs[i])]
Forgets(xs)         == [i \in DOMAIN xs |-> Forget(xs[i])]

(* The triggers that refuse UPDATE and DELETE, all named alike. *)
AppendOnly == "raise_append_only_error"
Guard(t)   == "trg_" \o t \o "_append_only"
Guards(ts, f) == [i \in DOMAIN ts |-> Make(Guard(ts[i]), ts[i], {f})]
Unguards(ts)  == [i \in DOMAIN ts |-> Forget(Guard(ts[i]))]

Migration(up, down) == [up |-> up, down |-> down]

-----------------------------------------------------------------------------
M0001 == Migration(
  <<Table("item", {}), Table("gate_certificate", {}), Table("response_event", {})>>,
  Drops(<<"response_event", "gate_certificate", "item">>))

(* 0002, the item model, by the functions that its upgrade calls. *)
ItemTypes == <<"item_tier_enum", "item_version_status_enum", "item_template_version_status_enum",
               "material_kind_enum", "material_license_decision_enum">>
TemplateTables ==
  <<Table("item_template", {}), Table("item_template_version", {"item_template", "item_template_version_status_enum"}),
    Make("fk_item_template_current_version", "item_template", {"item_template_version"})>>
ItemTables ==
  <<Table("item", {"item_template_version", "item_tier_enum"}),
    Table("item_version", {"item", "item_version_status_enum"}),
    Make("fk_item_current_version", "item", {"item_version"})>>
MaterialTables ==
  <<Table("material", {"material_kind_enum"}),
    Table("material_version", {"material", "material_license", "item_version_status_enum"}),
    Make("fk_material_current_version", "material", {"material_version"})>>
CorpusTables ==
  <<Table("corpus_asset", {}), Table("corpus_version", {"corpus_asset", "material_license", "item_version_status_enum"}),
    Make("fk_corpus_asset_current_version", "corpus_asset", {"corpus_version"})>>
GroupTables ==
  <<Table("item_group", {"material_version"}), Column("ck_ig_max_six_items", "item_group"),
    Table("item_kp", {"item", "item_version"}), Table("publication", {"item", "item_version"})>>
PublishTrigger ==
  <<Put("fn_item_version_on_publish", "", ""),
    Make("trg_item_version_on_publish", "item_version", {"fn_item_version_on_publish"})>>
ItemModelDown ==
  Forgets(<<"trg_item_version_on_publish", "fn_item_version_on_publish">>)
  \o Drops(<<"fk_item_current_version", "fk_material_current_version", "fk_corpus_asset_current_version",
             "fk_item_template_current_version", "publication", "item_kp", "item_group", "corpus_version",
             "corpus_asset", "material_version", "material", "item_version", "item", "item_template_version",
             "item_template", "material_license">>)
  \o Forgets(Reverse(ItemTypes)) \o <<Table("item", {})>>
M0002 == Migration(
  [i \in DOMAIN ItemTypes |-> Ensure(ItemTypes[i], {})]
  \o <<Drop("item"), Table("material_license", {"material_license_decision_enum"})>>
  \o TemplateTables \o ItemTables \o MaterialTables \o CorpusTables \o GroupTables \o PublishTrigger,
  ItemModelDown)

M0003 == Migration(
  <<Ensure("response_event_scene_enum", {}), Forget("response_event"),
    Table("response_event", {"response_event_scene_enum"}), Put(AppendOnly, "", "response_event"),
    Make(Guard("response_event"), "response_event", {AppendOnly}),
    [Ensure("response_event partitions", {}) EXCEPT !.on = "response_event"]>>,
  Forgets(<<Guard("response_event"), AppendOnly>>) \o <<Drop("response_event"),
    Forget("response_event_scene_enum"), Table("response_event", {})>>)

(* 0004 leaves its text of the trigger function behind. *)
GateTables ==
  <<Table("gate_certificate", {}), Table("gate_run", {"gate_certificate", "gate_run_verdict_enum"}),
    Column("gate_run.certificate_id NOT NULL", "gate_run"), Table("gate_verdict", {"gate_run"})>>
GateLedgers == <<"gate_certificate", "gate_run", "gate_verdict">>
M0004 == Migration(
  <<Ensure("gate_run_verdict_enum", {}), Forget("gate_certificate")>> \o GateTables
  \o <<Put(AppendOnly, "", "gate table")>> \o Guards(GateLedgers, AppendOnly),
  Unguards(GateLedgers) \o Drops(Reverse(GateLedgers))
  \o <<Forget("gate_run_verdict_enum"), Table("gate_certificate", {})>>)

CorpusGateColumns == <<"corpus_version.gate_certificate_id", "corpus_version.published_at", "corpus_version.retired_at">>
M0005 == Migration(
  <<Put(AppendOnly, "", "append-only table"), Put("corpus_version.status default", "corpus_version", "draft")>>
  \o Indexes("corpus_version", Append(CorpusGateColumns, "ck_cv_published_requires_gate_cert")),
  Drops(<<"ck_cv_published_requires_gate_cert">> \o Reverse(CorpusGateColumns))
  \o <<Forget("corpus_version.status default"), Put(AppendOnly, "", "gate table")>>)

M0006 == Migration(
  <<Ensure("kp_node_status_enum", {}), Table("relation_type", {}), Table("kp_node", {"kp_node_status_enum"}),
    Column("fk_kp_node_supersedes", "kp_node"), Table("kp_edge", {"kp_node", "relation_type"})>>,
  Drops(<<"kp_edge", "fk_kp_node_supersedes", "kp_node", "relation_type">>) \o <<Forget("kp_node_status_enum")>>)

M0007 == Migration(
  <<Ensure("graph_release_status_enum", {}), Table("graph_release", {"graph_release_status_enum"}),
    Column("fk_graph_release_superseded_by", "graph_release"),
    Table("kp_closure", {"graph_release", "kp_node", "relation_type"}), Column("ix_kpc_release_src", "kp_closure")>>,
  Drops(<<"ix_kpc_release_src", "kp_closure", "fk_graph_release_superseded_by", "graph_release">>)
  \o <<Forget("graph_release_status_enum")>>)

(* 0008, the views that serve published content; a role outlives them. *)
Grant(x, t, role) == [Ensure(x, {role}) EXCEPT !.on = t]
ServingViews == <<"v_serving_item_version", "v_serving_material_version", "v_serving_corpus_version">>
M0008 == Migration(
  <<Ensure("serving_reader", {}),
    Table("v_serving_item_version", {"item_version", "item"}),
    Table("v_serving_material_version", {"material_version", "material", "material_license"}),
    Table("v_serving_corpus_version", {"corpus_version", "corpus_asset", "material_license",
      "corpus_version.gate_certificate_id", "corpus_version.published_at", "corpus_version.retired_at"})>>
  \o [i \in 1..3 |-> Grant(ServingViews[i] \o " SELECT", ServingViews[i], "serving_reader")],
  Forgets(Reverse(ServingViews)))

M0009 == Migration(
  <<Put("raise_paper_append_only_error", "", ""), Table("paper", {}), Table("paper_item", {"paper", "item_version"}),
    Column("ix_paper_item_paper_id", "paper_item")>> \o Indexes("paper", <<"ix_paper_paper_spec_id", "ix_paper_weekly_batch_id">>)
  \o Guards(<<"paper", "paper_item">>, "raise_paper_append_only_error"),
  Unguards(<<"paper_item", "paper">>) \o Drops(<<"paper_item", "paper">>) \o <<Forget("raise_paper_append_only_error")>>)

M0010 == Migration(
  <<Table("paper_exposure", {"item_version", "paper"}), Table("student_exposure", {"item_version", "paper"})>>
  \o Indexes("paper_exposure", <<"ix_paper_exposure_queue", "ix_paper_exposure_template">>)
  \o Indexes("student_exposure", <<"ix_student_exposure_student", "ix_student_exposure_template">>)
  \o Guards(<<"paper_exposure", "student_exposure">>, AppendOnly),
  Unguards(<<"student_exposure", "paper_exposure">>) \o Drops(<<"student_exposure", "paper_exposure">>))

M0011 == Migration(
  <<Table("practice_session", {"paper"}), Column("ix_practice_session_student", "practice_session")>>,
  Drops(<<"ix_practice_session_student", "practice_session">>))

M0012 == Migration(
  <<Put("raise_review_policy_append_only_error", "", ""), Table("review_policy", {}),
    Table("review_queue_entry", {"review_policy"}), Column("ix_review_queue_entry_due", "review_queue_entry")>>
  \o Guards(<<"review_policy">>, "raise_review_policy_append_only_error") \o <<Put("policy 1.0.0", "review_policy", "")>>,
  Unguards(<<"review_policy">>) \o Drops(<<"review_queue_entry", "review_policy">>)
  \o <<Forget("raise_review_policy_append_only_error")>>)

M0013 == Migration(
  <<Table("item_param", {"item_version"})>> \o Indexes("item_param", <<"ix_item_param_item_version_id", "ix_item_param_purpose_scope">>)
  \o Guards(<<"item_param">>, AppendOnly),
  Unguards(<<"item_param">>) \o Drops(<<"item_param">>))

(* 0014, the vault, in a schema of its own. *)
VaultTable(t) == Make(t, "pii_vault", {})
M0014 == Migration(
  <<Ensure("pii_vault_reader", {}), Ensure("pii_vault", {}), VaultTable("student_identity"), VaultTable("access_log"),
    Grant("reader USAGE pii_vault", "pii_vault", "pii_vault_reader"),
    Grant("reader SELECT student_identity", "student_identity", "pii_vault_reader"),
    Grant("reader INSERT access_log", "access_log", "pii_vault_reader")>>,
  <<Cascade("pii_vault")>>)

M0015 == Migration(
  <<Put("raise_parental_consent_append_only_error", "", ""), Table("parental_consent", {})>>
  \o Indexes("parental_consent", <<"ix_parental_consent_student", "ix_parental_consent_student_purpose_version">>)
  \o Guards(<<"parental_consent">>, "raise_parental_consent_append_only_error"),
  Unguards(<<"parental_consent">>) \o <<Drop("parental_consent"), Forget("raise_parental_consent_append_only_error")>>)

EstimatorIndexes == <<"ix_estimator_run_purpose_scope", "uq_estimator_run_one_active_per_scope">>
M0016 == Migration(
  <<Table("estimator_run", {})>> \o Indexes("estimator_run", EstimatorIndexes),
  Drops(Append(Reverse(EstimatorIndexes), "estimator_run")))

ScoreRunIndexes == <<"ix_score_run_event", "ix_score_run_purpose_scope", "ix_score_run_scorer_version", "ix_score_run_rerun_of">>
M0017 == Migration(
  <<Table("score_run", {"response_event"})>> \o Indexes("score_run", ScoreRunIndexes) \o Guards(<<"score_run">>, AppendOnly),
  Unguards(<<"score_run">>) \o Drops(Append(Reverse(ScoreRunIndexes), "score_run")))

M0018 == Migration(
  <<Ensure("item_lifecycle_state_enum", {}), Table("item_lifecycle_transition", {"item", "item_lifecycle_state_enum"})>>
  \o Indexes("item_lifecycle_transition", <<"ix_item_lifecycle_item_created", "ix_item_lifecycle_to_state">>)
  \o <<Put("item_lifecycle_transition.created_at default", "item_lifecycle_transition", "now()"),
       Put("raise_lifecycle_append_only_error", "", ""),
       Make("trg_item_lifecycle_append_only", "item_lifecycle_transition", {"raise_lifecycle_append_only_error"})>>,
  Forgets(<<"trg_item_lifecycle_append_only", "raise_lifecycle_append_only_error">>)
  \o <<Drop("item_lifecycle_transition"), Forget("item_lifecycle_state_enum")>>)

M0019 == Migration(
  <<Table("spec_table", {})>> \o Indexes("spec_table", <<"ix_spec_table_gradeband", "ix_spec_table_graph_release">>)
  \o <<Put("raise_spec_table_append_only_error", "", "")>> \o Guards(<<"spec_table">>, "raise_spec_table_append_only_error"),
  Unguards(<<"spec_table">>) \o <<Forget("raise_spec_table_append_only_error"), Drop("spec_table")>>)

PassageIndexes == <<"ix_passage_content_hash", "ix_passage_subject_grade_band">>
M0020 == Migration(
  <<Table("passage", {"material_license"})>> \o Indexes("passage", PassageIndexes),
  Drops(Append(Reverse(PassageIndexes), "passage")))

BlueprintIndexes == <<"ix_blueprint_writing_type", "ix_blueprint_pack_id", "ix_blueprint_rubric_template_id">>
M0021 == Migration(
  <<Table("rubric_template", {}), Table("blueprint", {"rubric_template"}), Column("ix_rubric_template_grade_band", "rubric_template")>>
  \o Indexes("blueprint", BlueprintIndexes) \o Guards(<<"rubric_template", "blueprint">>, AppendOnly),
  Unguards(<<"blueprint", "rubric_template">>)
  \o Drops(Reverse(BlueprintIndexes) \o <<"ix_rubric_template_grade_band", "blueprint", "rubric_template">>))

ShadowIndexes == <<"ix_shadow_score_dataset_id", "ix_shadow_score_grade_band", "ix_shadow_score_consistency_status",
                   "ix_shadow_score_rubric_id">>
M0022 == Migration(
  <<Table("shadow_score", {})>> \o Indexes("shadow_score", ShadowIndexes) \o Guards(<<"shadow_score">>, AppendOnly),
  Unguards(<<"shadow_score">>) \o Drops(Append(Reverse(ShadowIndexes), "shadow_score")))

LifecycleClock(text) == <<Put("item_lifecycle_transition.created_at default", "item_lifecycle_transition", text)>>
M0023 == Migration(LifecycleClock("clock_timestamp()"), LifecycleClock("now()"))

ContentLedgers == <<"item_template_version", "material_version", "corpus_version", "passage">>
M0024 == Migration(Guards(ContentLedgers, AppendOnly), Unguards(ContentLedgers))

M0025 == Migration(<<Column("estimator_run.activated_by", "estimator_run")>>, <<Drop("estimator_run.activated_by")>>)

CallIndexes == <<"ix_ai_call_ledger_artifact", "ix_ai_call_ledger_task", "ix_ai_call_ledger_created_at">>
M0026 == Migration(
  <<Table("ai_call_ledger", {})>> \o Indexes("ai_call_ledger", CallIndexes) \o Guards(<<"ai_call_ledger">>, AppendOnly),
  Unguards(<<"ai_call_ledger">>) \o Drops(Append(Reverse(CallIndexes), "ai_call_ledger")))

\* Mutation: the index that becomes unique is not dropped first.
M0027Keeps == Migration(
  <<Column("parental_consent.recorded_by", "parental_consent"),
    Unless("a version twice", Column("uq_parental_consent_version_per_purpose", "parental_consent"))>>,
  <<Drop("uq_parental_consent_version_per_purpose"),
    Column("ix_parental_consent_student_purpose_version", "parental_consent"), Drop("parental_consent.recorded_by")>>)

M0027 == Migration(
  <<Column("parental_consent.recorded_by", "parental_consent"), Drop("ix_parental_consent_student_purpose_version"),
    Unless("a version twice", Column("uq_parental_consent_version_per_purpose", "parental_consent"))>>,
  <<Drop("uq_parental_consent_version_per_purpose"),
    Column("ix_parental_consent_student_purpose_version", "parental_consent"), Drop("parental_consent.recorded_by")>>)

(* 0028, the keys to the certificate and the ledger of failures. *)
CertificateKeys ==
  <<Make("fk_iv_gate_certificate", "item_version", {"gate_certificate"}),
    Make("fk_mv_gate_certificate", "material_version", {"gate_certificate"}),
    Make("fk_cv_gate_certificate", "corpus_version", {"gate_certificate", "corpus_version.gate_certificate_id"}),
    Make("fk_passage_certificate", "passage", {"gate_certificate"}),
    Make("fk_pub_certificate", "publication", {"gate_certificate"}),
    Make("fk_ilt_certificate", "item_lifecycle_transition", {"gate_certificate"})>>
FailureIndexes == <<"ix_gate_failure_artifact", "ix_gate_failure_failed_at">>
M0028Up ==
  CertificateKeys \o <<Drop("gate_run.certificate_id NOT NULL"), Table("gate_failure", {})>>
  \o Indexes("gate_failure", FailureIndexes) \o Guards(<<"gate_failure">>, AppendOnly)
M0028Down ==
  Unguards(<<"gate_failure">>) \o Drops(Append(Reverse(FailureIndexes), "gate_failure"))
  \o Forgets(Reverse([i \in DOMAIN CertificateKeys |-> CertificateKeys[i].x]))
  \o <<Unless("a run without certificate", Column("gate_run.certificate_id NOT NULL", "gate_run"))>>
M0028 == Migration(M0028Up, M0028Down)

M0029 == Migration(
  <<Ensure("pii_vault_writer", {}), Grant("writer USAGE pii_vault", "pii_vault", "pii_vault_writer"),
    Grant("writer INSERT student_identity", "student_identity", "pii_vault_writer"),
    Grant("writer INSERT access_log", "access_log", "pii_vault_writer"),
    Grant("reader SELECT access_log", "access_log", "pii_vault_reader"), Forget("reader INSERT access_log")>>,
  Forgets(<<"writer INSERT access_log", "writer INSERT student_identity", "writer USAGE pii_vault">>)
  \o <<Grant("reader INSERT access_log", "access_log", "pii_vault_reader"), Forget("reader SELECT access_log")>>)

SessionTrigger(x, f) == Make("trg_practice_session_topic_order_" \o x, "practice_session", {f})
Fn(f) == Statement("make", f, "", {}, "")
M0030Up ==
  <<Fn("enforce_practice_session_anchor_immutable"), SessionTrigger("no_rewrite", "enforce_practice_session_anchor_immutable"),
    SessionTrigger("no_delete", AppendOnly), Column("ck_practice_session_item_sequence_is_array", "practice_session"),
    Fn("enforce_practice_session_topic_order_structure"),
    SessionTrigger("structure", "enforce_practice_session_topic_order_structure"),
    Column("ck_spec_table_cells_not_empty", "spec_table"), Fn("validate_spec_table_cells"),
    Make("trg_spec_table_cells_structure", "spec_table", {"validate_spec_table_cells"})>>
M0030Down ==
  Forgets(<<"trg_practice_session_topic_order_structure", "trg_practice_session_topic_order_no_delete",
            "trg_practice_session_topic_order_no_rewrite", "enforce_practice_session_topic_order_structure",
            "enforce_practice_session_anchor_immutable", "ck_practice_session_item_sequence_is_array",
            "trg_spec_table_cells_structure", "validate_spec_table_cells", "ck_spec_table_cells_not_empty">>)
M0030 == Migration(M0030Up, M0030Down)

M0031 == Migration(<<Table("response_submission", {"practice_session", "response_event"})>>, Drops(<<"response_submission">>))

Chain == <<M0001, M0002, M0003, M0004, M0005, M0006, M0007, M0008, M0009, M0010, M0011, M0012, M0013, M0014, M0015,
           M0016, M0017, M0018, M0019, M0020, M0021, M0022, M0023, M0024, M0025, M0026, M0027, M0028, M0029, M0030, M0031>>
Latest == Len(Chain)

-----------------------------------------------------------------------------
(* One statement over the catalogue S. *)
Owned(S, x) ==
  LET below == {y \in DOMAIN S : S[y].on = x} IN {x} \cup below \cup {y \in DOMAIN S : S[y].on \in below}
Needed(S, gone) == \E y \in DOMAIN S \ gone : S[y].needs \cap gone # {}
Without(S, gone) == [y \in DOMAIN S \ gone |-> S[y]]
Legal(S, facts, s) ==
  LET there == s.x \in DOMAIN S IN
  CASE s.do \in {"drop", "forget"} -> (there \/ s.do = "forget") /\ ~(there /\ Needed(S, Owned(S, s.x)))
    [] s.do = "cascade" -> TRUE
    [] OTHER -> /\ ~(s.do = "make" /\ there) /\ s.needs \subseteq DOMAIN S
                /\ s.on \in DOMAIN S \cup {""} /\ s.unless \cap facts = {}
Effect(S, s) ==
  CASE s.do \in {"drop", "forget", "cascade"} -> Without(S, Owned(S, s.x))
    [] s.do = "ensure" /\ s.x \in DOMAIN S -> S
    [] OTHER -> (s.x :> [on |-> s.on, needs |-> s.needs, as |-> s.as]) @@ S

(* The statements of a migration, and the migrations of a command; what    *)
(* follows a refused statement is not run.                                 *)
Run(statements, start, facts) ==
  FoldLeft(LAMBDA r, s : IF ~r.ok THEN r ELSE IF Legal(r.S, facts, s) THEN [r EXCEPT !.S = Effect(r.S, s)]
                         ELSE [r EXCEPT !.ok = FALSE],
           [ok |-> TRUE, S |-> start], statements)
RunAll(scripts, start, facts) ==
  FoldLeft(LAMBDA r, script : IF ~r.ok THEN r ELSE Run(script, r.S, facts), [ok |-> TRUE, S |-> start], scripts)
Scripts(from, to) ==
  IF from <= to THEN [i \in 1..(to - from) |-> Chain[from + i].up]
  ELSE [i \in 1..(from - to) |-> Chain[from + 1 - i].down]

Init == version = 0 /\ schema = <<>> /\ rows = {} /\ failed = FALSE

(* run_migrations_online: one transaction for the whole command. *)
Command(to) ==
  LET r == RunAll(Scripts(version, to), schema, rows) IN
  /\ to # version
  /\ IF r.ok THEN version' = to /\ schema' = r.S /\ failed' = FALSE
             ELSE failed' = TRUE /\ UNCHANGED <<version, schema>>
  /\ rows' = IF ~r.ok THEN rows ELSE {f \in rows : IF f = "a version twice" THEN to >= 15 ELSE to >= 4}

(* What the program stores meanwhile: two consents that overlap take the   *)
(* same version while no index is unique, and a run of the gate may have   *)
(* no certificate once the column allows it.                               *)
Store ==
  /\ \/ /\ "parental_consent" \in DOMAIN schema /\ "uq_parental_consent_version_per_purpose" \notin DOMAIN schema
        /\ rows' = rows \cup {"a version twice"}
     \/ /\ "gate_run" \in DOMAIN schema /\ "gate_run.certificate_id NOT NULL" \notin DOMAIN schema
        /\ rows' = rows \cup {"a run without certificate"}
  /\ rows' # rows /\ failed' = FALSE /\ UNCHANGED <<version, schema>>

Targets == {0, 3, 4, 14, 15, 23, 26, 27, 28, Latest}
Next == Store \/ \E to \in Targets : Command(to)

-----------------------------------------------------------------------------
(* The catalogue that a fresh database has at a version. *)
Fresh == [v \in 0..Latest |-> RunAll(Scripts(0, v), <<>>, {}).S]
Roles == {"serving_reader", "pii_vault_reader", "pii_vault_writer"}
Catalogue(S) == {<<x, S[x].on, S[x].needs, IF x = AppendOnly /\ version = 3 THEN "" ELSE S[x].as>> : x \in DOMAIN S \ Roles}

(* The tables that refuse UPDATE and DELETE, as migrate_check finds them.  *)
Protected(S) == {S[x].on : x \in {y \in DOMAIN S : \E t \in DOMAIN S : y = Guard(t)}}
CoreLedgers == {"response_event", "gate_certificate", "gate_run", "gate_verdict"}

(* Whatever commands were run before: the catalogue at a version is that   *)
(* of a fresh database (roles stay, and version 3 keeps the error text of  *)
(* 0004), a command fails only on rows that the program could store, and   *)
(* no ledger that stays in the catalogue loses its protection on the way   *)
(* up.                                                                     *)
MigrationsReversible ==
  /\ Catalogue(schema) = Catalogue(Fresh[version])
  /\ failed => rows # {}
  /\ version >= 4 => CoreLedgers \subseteq Protected(schema)
  /\ \A v \in 0..version : Protected(Fresh[v]) \subseteq Protected(schema)
  /\ version < 24 => Range(ContentLedgers) \cap Protected(schema) = {}
=============================================================================
