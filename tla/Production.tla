------------------------------ MODULE Production ------------------------------
(***************************************************************************)
(* The production lines of the Python service: writing tasks (D line),     *)
(* passages with their testlets (C line), word items of the subject packs, *)
(* and the issue page of the workbench. Every line checks its artifact     *)
(* with the gate, which commits its certificate and run rows in a          *)
(* transaction of its own, and then writes the artifact in another one.    *)
(*                                                                         *)
(* A worker is one call of one line with its own database session. Between *)
(* two awaits anything may happen to the tables, and a call may be lost.   *)
(***************************************************************************)
EXTENDS GateChain, FiniteSetsExt

CONSTANTS
  Workers,        \* the calls
  Jobs,           \* what a call may be asked for (records, see Job below)
  Policy,         \* <<pack, type>> -> chain of steps
  Corpus,         \* the words of the subject packs
  Sources,        \* the registry file of sources: license id -> [decision, expires]
  Fresh,          \* the id worker w draws for its passage and its license
  Blueprints,     \* blueprint id -> [writing, grades] of the D line
  MaxTime         \* bound of the clock

(* A job is [line, id, context, ...]: the line, the id of the artifact it   *)
(* makes or issues and the context its gate is given; for a C line specs,  *)
(* its testlet, a sequence of [spec, version, kps, overlap]; for a D line  *)
(* blueprint, grade and given, the parameters; for both lines of words and *)
(* tasks the template they instantiate.                                    *)
Lines == {"D", "C", "word", "issue"}
ASSUME JobsAssumption ==
  \A j \in Jobs :
    /\ {"line", "id", "context"} \subseteq DOMAIN j /\ {"type", "pack", "payload"} \subseteq DOMAIN j.context
    /\ j.line \in Lines /\ j.context.type \in ArtifactTypes
    /\ j.line = "C" => j.context.payload # NONE /\ {"license", "math"} \subseteq DOMAIN j.context.payload
    /\ j.line = "word" => j.context.chain \in Seq(Steps)
    /\ j.context.payload # NONE => j.context.payload.math \in Verdicts
(* The policy was loaded: every chain consists of registered validators.   *)
ASSUME PolicyAssumption ==
  /\ PolicyLoads(Policy, DOMAIN ValidatorInfo)
  /\ \A k \in DOMAIN Policy : Policy[k] \in Seq(Steps)

(* No value is none of the texts that are kept.                            *)
ASSUME NoneAssumption == NONE \notin {"fail", "review", "published"}

VARIABLES
  now,         \* the clock
  licenses,    \* material_license rows
  placeholder, \* is there a gate_certificate row 'cert:none'?
  certs,       \* gate_certificate rows: a sequence of [artifact, chain]
  trail,       \* gate_run rows: a set of [cert, artifact, validator, verdict, blocking]
  versions,    \* item_version rows: id -> [status, cert, item]
  current,     \* item.current_version_id
  pubs,        \* publication rows, in commit order: [version, cert]
  passages,    \* passage rows: id -> certificate
  templates,   \* item_template_version rows
  groups,      \* item_group rows: passage -> sequence of version ids
  pc,          \* where a worker is
  job,         \* what it was asked for
  seen,        \* what it read first: its version row, or the templates
  asked,       \* the chain of its gate
  results,     \* verdicts so far, with their steps
  cert,        \* the certificate it got, 0 for none
  reply        \* what its caller was told

content  == <<versions, current, pubs, templates>>
testlets == <<passages, groups>>
tables == <<licenses, placeholder, certs, trail, content, testlets>>
vars == <<now, tables, pc, job, seen, asked, results, cert, reply>>

(* A row is added, or replaced, under its key; rows are added for new keys. *)
With(table, key, row) == [k \in DOMAIN table \cup {key} |-> IF k = key THEN row ELSE table[k]]
WithAll(table, keys, row) == [k \in DOMAIN table \cup keys |-> IF k \in keys THEN row[k] ELSE table[k]]

NoJob == [line |-> NONE]
Published == {v \in DOMAIN versions : versions[v].status = "published"}
Tables == [licenses |-> licenses, now |-> now, published |-> Published, corpus |-> Corpus]

(* What the gate of the worker still has to ask, in order. *)
ChainFor(j) == IF j.line = "word" THEN j.context.chain
               ELSE Ordered(ChainOf(Policy, j.context.pack, j.context.type))
Halted(w) == job[w].line # "word" /\ \E i \in DOMAIN results[w] : Stops(results[w][i])

(* The tables before any call: drafts wait to be issued, some licenses are *)
(* known. The placeholder row is not created by any migration.             *)
CONSTANTS Drafts, KnownLicenses
Init ==
  /\ now = 0
  /\ licenses = KnownLicenses
  /\ placeholder \in BOOLEAN
  /\ certs = <<>> /\ trail = {} /\ pubs = <<>>
  /\ versions = [v \in Drafts |-> [status |-> "draft", cert |-> 0, item |-> v]]
  /\ current = [i \in {} |-> NONE] /\ passages = [p \in {} |-> 0] /\ templates = {} /\ groups = [g \in {} |-> <<>>]
  /\ pc = [w \in Workers |-> "idle"]
  /\ job = [w \in Workers |-> NoJob]
  /\ seen = [w \in Workers |-> NONE]
  /\ asked = [w \in Workers |-> <<>>]
  /\ results = [w \in Workers |-> <<>>]
  /\ cert = [w \in Workers |-> 0]
  /\ reply = [w \in Workers |-> NONE]

Answer(w, r) == pc' = [pc EXCEPT ![w] = "done"] /\ reply' = [reply EXCEPT ![w] = r]
Goto(w, l) == pc' = [pc EXCEPT ![w] = l] /\ UNCHANGED reply

(* assemble_testlet: two to six subtasks under different ids, each with    *)
(* knowledge points, which two subtasks share only if both allow it.       *)
TestletFits(specs) ==
  /\ Len(specs) \in 2..6
  /\ \A i, j \in DOMAIN specs : i # j =>
       /\ specs[i].spec # specs[j].spec
       /\ specs[i].kps \cap specs[j].kps # {} => specs[i].overlap /\ specs[j].overlap
  /\ \A i \in DOMAIN specs : specs[i].kps # {}

(* A writing task needs a registered blueprint with a spec for the grade   *)
(* and the parameters of its kind.                                         *)
Needs == [composition |-> {"topic"}, picture_writing |-> {"picture_ref", "prompt"}]
TaskFits(j) ==
  /\ j.blueprint \in DOMAIN Blueprints
  /\ j.grade \in Blueprints[j.blueprint].grades
  /\ Needs[Blueprints[j.blueprint].writing] \subseteq j.given

(* The head of every line; the issue page refuses versions that are not    *)
(* waiting to be issued, the word lines corpora whose license the registry *)
(* file does not hold as approved. There a license is good at the moment   *)
(* it expires; for the gate's validator it is not.                         *)
IsApproved(lid) ==
  /\ lid \in DOMAIN Sources
  /\ Sources[lid].decision = "approved"
  /\ Sources[lid].expires = NONE \/ Sources[lid].expires >= now

Waiting(v) == v \in DOMAIN versions /\ versions[v].status \in {"draft", "quarantined"}
Fits(j) ==
  CASE j.line = "C" -> TestletFits(j.specs)
    [] j.line = "issue" -> Waiting(j.id)
    [] j.line = "D" -> TaskFits(j)
    [] j.line = "word" -> IsApproved(j.source)

(* The English line sees to its templates first; the Chinese one does not. *)
Ensures(j) == j.line = "word" /\ j.context.pack = "subject-english"

(* A C line draws the id of its passage, and that of its license.          *)
Drawn(j, w) ==
  IF j.line = "C" THEN [j EXCEPT !.id = Fresh[w], !.context.payload.license = Fresh[w]] ELSE j

Start(w) ==
  /\ pc[w] = "idle"
  /\ \E j \in Jobs :
       /\ job' = [job EXCEPT ![w] = Drawn(j, w)]
       /\ seen' = [seen EXCEPT ![w] = IF j.line = "issue" /\ j.id \in DOMAIN versions
                                      THEN versions[j.id] ELSE NONE]
       /\ asked' = [asked EXCEPT ![w] = ChainFor(j)]
       /\ IF ~Fits(j) THEN Answer(w, "refused")
          ELSE IF ChainFor(j) = <<>> THEN Answer(w, "error")
          ELSE Goto(w, "check")
       /\ templates' = IF Fits(j) /\ Ensures(j) THEN templates \cup {j.template} ELSE templates
  /\ UNCHANGED <<now, licenses, placeholder, certs, trail, versions, current, pubs, passages, groups, results, cert>>

(* The tables as the worker's own transaction sees them: with the license  *)
(* it has flushed.                                                         *)
SeenBy(w) == [Tables EXCEPT !.licenses =
  IF job[w].line = "C"
  THEN With(licenses, Fresh[w], [decision |-> "approved", expires |-> NONE]) ELSE licenses]

(* One validator of the chain. After a blocking failure the gate asks no   *)
(* other one; the word lines ask all of theirs.                            *)
Check(w) ==
  /\ pc[w] = "check"
  /\ LET step == asked[w][Len(results[w]) + 1]
     IN /\ Len(results[w]) < Len(asked[w]) /\ ~Halted(w)
        /\ results' = [results EXCEPT ![w] = Append(@,
             [validator |-> step.id, blocking |-> Blocking(step),
              verdict |-> VerdictOf(step.id, job[w].context, SeenBy(w))])]
  /\ UNCHANGED <<now, tables, pc, job, seen, asked, cert, reply>>

\* Mutation: a blocking failure ends the questions, but not the call.
CheckedAll(w) == pc[w] = "check" /\ Len(results[w]) = Len(asked[w])

Checked(w) == pc[w] = "check" /\ (Halted(w) \/ Len(results[w]) = Len(asked[w]))

Signs(w) == IF job[w].line = "word" THEN MayCertify(results[w]) ELSE FinalVerdict(results[w]) = "pass"

RunRows(w, c) == {[cert |-> c, artifact |-> job[w].id, validator |-> r.validator,
                   verdict |-> r.verdict, blocking |-> r.blocking] : r \in ToSet(results[w])}

(* The license of a C line is committed with the first commit of its session. *)
Flushed(w) == licenses' = SeenBy(w).licenses

(* run_gate and issue_certificate: the certificate and the run rows of all *)
(* validators that were asked, committed together.                         *)
Certify(w) ==
  /\ Checked(w) /\ Signs(w)
  /\ certs' = Append(certs, [artifact |-> job[w].id, chain |-> asked[w], runs |-> results[w]])
  /\ trail' = trail \cup RunRows(w, Len(certs) + 1)
  /\ cert' = [cert EXCEPT ![w] = Len(certs) + 1]
  /\ Flushed(w)
  /\ Goto(w, IF job[w].line = "D" THEN "template" ELSE "write")
  /\ UNCHANGED <<now, placeholder, content, testlets, job, seen, asked, results>>

\* Mutation: the caller is answered although the rows cannot be filed.
RefuseUnfiled(w) ==
  /\ Checked(w) /\ ~Signs(w) /\ job[w].line # "word"
  /\ Answer(w, FinalVerdict(results[w]))
  /\ UNCHANGED <<now, tables, job, seen, asked, results, cert>>

(* A gate that does not sign files its runs under 'cert:none', which needs *)
(* that row; without it the insert breaks the foreign key, the session is  *)
(* rolled back and the call ends with the error.                           *)
Refuse(w) ==
  /\ Checked(w) /\ ~Signs(w) /\ job[w].line # "word"
  /\ IF placeholder
     THEN /\ trail' = trail \cup RunRows(w, 0)
          /\ Flushed(w)
          /\ Answer(w, FinalVerdict(results[w]))
     ELSE Answer(w, "error") /\ UNCHANGED <<trail, licenses>>
  /\ UNCHANGED <<now, placeholder, certs, content, testlets, job, seen, asked, results, cert>>

(* A word line that gets no certificate reports its verdicts, writes no row. *)
Report(w) ==
  /\ Checked(w) /\ ~Signs(w) /\ job[w].line = "word"
  /\ Answer(w, "uncertified")
  /\ UNCHANGED <<now, tables, job, seen, asked, results, cert>>

(* publish_item_version of a new item: a row under the address of its      *)
(* content; publishing it moves the item's pointer by a trigger.           *)
\* Mutation: the newest certificate is written, not the call's own.
RowNewest(status, c, id) == [status |-> status, cert |-> IF c = 0 THEN 0 ELSE Len(certs), item |-> id]

Row(status, c, id) == [status |-> status, cert |-> c, item |-> id]

(* The D line looks whether its template is there before it adds it.       *)
LookUpTemplate(w) ==
  /\ pc[w] = "template"
  /\ seen' = [seen EXCEPT ![w] = templates]
  /\ Goto(w, "write")
  /\ UNCHANGED <<now, tables, job, asked, results, cert>>

(* The D line and the word lines insert the certified version. A key that  *)
(* is taken, by a template added since it was looked for or by a version   *)
(* of the same content, ends the transaction, and so does a template that  *)
(* is missing; the English line looks for the version first.               *)
TemplateStands(w) ==
  IF job[w].line = "D" THEN job[w].template \in seen[w] \/ job[w].template \notin templates
  ELSE job[w].template \in templates
Insert(w) ==
  /\ pc[w] = "write" /\ job[w].line \in {"D", "word"}
  /\ LET v == job[w].id IN
     IF v \in DOMAIN versions \/ ~TemplateStands(w)
     THEN /\ Answer(w, IF v \in DOMAIN versions /\ Ensures(job[w]) THEN "skipped" ELSE "error")
          /\ UNCHANGED <<versions, current, templates>>
     ELSE /\ versions' = With(versions, v, Row("published", cert[w], v))
          /\ current' = With(current, v, v)
          /\ templates' = templates \cup {job[w].template}
          /\ Answer(w, "published")
  /\ UNCHANGED <<now, licenses, placeholder, certs, trail, pubs, passages, groups, job, seen, asked, results, cert>>

\* Mutation: a subtask whose key is taken is left out, the rest is written.
WriteBackSome(w) ==
  /\ pc[w] = "write" /\ job[w].line = "C"
  /\ LET ids == [i \in DOMAIN job[w].specs |-> job[w].specs[i].version] IN
     /\ passages' = With(passages, Fresh[w], cert[w])
     /\ versions' = WithAll(versions, ToSet(ids) \ DOMAIN versions, [v \in ToSet(ids) |-> Row("draft", 0, v)])
     /\ groups' = With(groups, Fresh[w], ids)
     /\ Answer(w, "published")
  /\ UNCHANGED <<now, licenses, placeholder, certs, trail, current, pubs, templates, job, seen, asked, results, cert>>

(* The C line: passage, draft versions of its subtasks and their group in  *)
(* one transaction; any key that is taken rolls all of them back.          *)
WriteBack(w) ==
  /\ pc[w] = "write" /\ job[w].line = "C"
  /\ LET specs == job[w].specs
         ids == [i \in DOMAIN specs |-> specs[i].version]
         p == Fresh[w]
     IN IF ToSet(ids) \cap DOMAIN versions = {} /\ IsInjective(ids)
        THEN /\ passages' = With(passages, p, cert[w])
             /\ versions' = WithAll(versions, ToSet(ids), [v \in ToSet(ids) |-> Row("draft", 0, v)])
             /\ groups' = With(groups, p, ids)
             /\ Answer(w, "published")
        ELSE Answer(w, "writeback_error") /\ UNCHANGED <<passages, versions, groups>>
  /\ UNCHANGED <<now, licenses, placeholder, certs, trail, current, pubs, templates, job, seen, asked, results, cert>>

\* Mutation: a version that was published meanwhile gets no further row.
IssueOnce(w) ==
  /\ pc[w] = "write" /\ job[w].line = "issue"
  /\ LET v == job[w].id IN
     /\ versions' = [versions EXCEPT ![v] = Row("published", cert[w], seen[w].item)]
     /\ pubs' = IF v \in Published THEN pubs ELSE Append(pubs, [version |-> v, cert |-> cert[w]])
     /\ current' = With(current, seen[w].item, v)
     /\ Answer(w, "published")
  /\ UNCHANGED <<now, licenses, placeholder, certs, trail, passages, templates, groups, job, seen, asked, results, cert>>

(* issue_item_version: judged on the row that the session read first,      *)
(* because the session keeps it over the commit of the gate. The update is *)
(* by key, so whatever the row has become meanwhile is overwritten.        *)
Issue(w) ==
  /\ pc[w] = "write" /\ job[w].line = "issue"
  /\ LET v == job[w].id IN
     /\ seen[w].status \in {"draft", "quarantined"}
     /\ versions' = [versions EXCEPT ![v] = Row("published", cert[w], seen[w].item)]
     /\ pubs' = Append(pubs, [version |-> v, cert |-> cert[w]])
     /\ current' = With(current, seen[w].item, v)
     /\ Answer(w, "published")
  /\ UNCHANGED <<now, licenses, placeholder, certs, trail, passages, templates, groups, job, seen, asked, results, cert>>

(* A call is lost: its session rolls back what it has not committed. *)
Lose(w) ==
  /\ pc[w] \in {"check", "template", "write"}
  /\ Answer(w, "lost")
  /\ UNCHANGED <<now, tables, job, seen, asked, results, cert>>

Tick == now < MaxTime /\ now' = now + 1 /\ UNCHANGED <<tables, pc, job, seen, asked, results, cert, reply>>

Step(w) == Start(w) \/ Check(w) \/ Certify(w) \/ Refuse(w) \/ Report(w)
           \/ LookUpTemplate(w) \/ Insert(w) \/ WriteBack(w) \/ Issue(w)
Next == Tick \/ \E w \in Workers : Step(w) \/ Lose(w)
Spec == Init /\ [][Next]_vars /\ \A w \in Workers : WF_vars(Step(w))

-----------------------------------------------------------------------------
(* A certificate stands for a chain that was asked to its end, in order,   *)
(* and whose run rows are on file: no blocking validator failed or asked   *)
(* for a person (run_gate, issue_certificate).                             *)
CertifiedIsClean ==
  \A c \in DOMAIN certs :
    LET rs == certs[c].runs IN
    /\ [i \in DOMAIN rs |-> rs[i].validator] = [i \in DOMAIN certs[c].chain |-> certs[c].chain[i].id]
    /\ rs # <<>>
    /\ \A i \in DOMAIN rs : rs[i].blocking => rs[i].verdict = "pass"
    /\ \A r \in ToSet(rs) : \E t \in trail : t.cert = c /\ t.validator = r.validator /\ t.verdict = r.verdict

(* What students can be given rests on a certificate for exactly that      *)
(* artifact, and items point at published versions only, whichever lines   *)
(* and issuers overtake each other (fk_iv_gate_certificate says only that  *)
(* the certificate exists).                                                *)
PublishedBacked ==
  /\ \A v \in Published : versions[v].cert \in DOMAIN certs /\ certs[versions[v].cert].artifact = v
  /\ \A p \in DOMAIN passages : certs[passages[p]].artifact = p
  /\ \A i \in DOMAIN current : current[i] \in Published /\ versions[current[i]].item = i
  /\ \A n \in DOMAIN pubs : certs[pubs[n].cert].artifact = pubs[n].version

(* A testlet is all there or not at all: a published passage has its       *)
(* group, the group its passage and all its versions, and no version is in *)
(* two groups.                                                             *)
GroupsWhole ==
  /\ DOMAIN groups = DOMAIN passages
  /\ \A g \in DOMAIN groups : ToSet(groups[g]) \subseteq DOMAIN versions
  /\ \A g, h \in DOMAIN groups : g # h => ToSet(groups[g]) \cap ToSet(groups[h]) = {}

(* Who is told that the gate refused an artifact can find its runs on      *)
(* file, with the verdict he was told (_insert_run_and_verdict); who is    *)
(* told of a publication finds the artifact.                               *)
ToldIsOnFile ==
  \A w \in Workers :
    /\ reply[w] \in {"fail", "review"} =>
         /\ placeholder
         /\ \E t \in trail : t.cert = 0 /\ t.artifact = job[w].id /\ t.verdict = reply[w]
    /\ reply[w] = "published" =>
         IF job[w].line = "C" THEN job[w].id \in DOMAIN passages ELSE job[w].id \in Published

(* A version never loses its publication, and its certificate changes only *)
(* with a further row in the publication history (issue_item_version).     *)
PublicationsKept ==
  [][\A v \in Published :
       /\ v \in Published'
       /\ versions'[v].cert # versions[v].cert => pubs' = Append(pubs, [version |-> v, cert |-> versions'[v].cert])]_vars

(* Every call that was accepted is answered. *)
EveryCallEnds == \A w \in Workers : pc[w] = "check" ~> pc[w] = "done"
=============================================================================
