--------------------------- MODULE StudentLedgers ---------------------------
(***************************************************************************)
(* Three ledgers of the Python service that check and write without a lock *)
(* and rely on unique keys alone: guardian consent (compliance/            *)
(* parental_consent.py), the active estimator of a purpose (data/          *)
(* active_model_pointer.py) and the exposure of items (assembly/           *)
(* exposure.py). A transaction reads, inserts, and commits or rolls back;  *)
(* an insert waits for an uncommitted row with its key.                    *)
(***************************************************************************)
EXTENDS Integers, FiniteSets, FiniteSetsExt

CONSTANTS NONE, Txs, Models, Candidates, Weeks, Params, LastDay, MaxRows
(* Params: model -> the parameters it estimated, NONE if it has none.      *)

VARIABLES
  calendar,
  consents,   \* parental_consent rows of one student and purpose
  runs,       \* estimator_run rows of one purpose
  exposures,  \* paper_exposure rows of one channel and subject
  tx          \* transaction -> what it has read and inserted
ledgers == <<calendar, consents, runs, exposures, tx>>

Free == [kind |-> NONE, at |-> "idle", day |-> 0, seen |-> NONE, new |-> {}]
Init ==
  /\ calendar = 0 /\ consents = {} /\ runs = {} /\ exposures = {}
  /\ tx = [t \in Txs |-> Free]

Rows == Cardinality(consents) + Cardinality(runs) + Cardinality(exposures)

(* The time at which a call begins is kept where something reads it: a     *)
(* revocation judges by it, a run is active from it.                       *)
Day(kind) == IF kind \in {"revoke", "switch"} THEN calendar ELSE 0
Begin(t, kind, seen) ==
  /\ tx[t].at = "idle" /\ Rows < MaxRows
  /\ tx' = [tx EXCEPT ![t] = [kind |-> kind, at |-> "begun", day |-> Day(kind), seen |-> seen, new |-> {}]]
  /\ UNCHANGED <<calendar, consents, runs, exposures>>

(* The unique indexes: version of a consent chain; one active run, and one *)
(* run of a model and an activation; item in a queue.                      *)
Committed == consents \cup runs \cup exposures
Keys(row) ==
  CASE row.table = "consent" -> {<<"version", row.version>>}
    [] row.table = "run" -> {<<row.model, row.from>>} \cup (IF row.until = NONE THEN {<<"active">>} ELSE {})
    [] row.table = "exposure" -> {<<"week", row.week, row.item>>}
AllKeys(S) == UNION {Keys(r) : r \in S}

\* Mutation: the index of migration 0027 on the versions of a consent is not there.
ClashUnversioned(rows, committed) == AllKeys({r \in rows : r.table # "consent"}) \cap AllKeys(committed) # {}

Clash(rows, committed) == AllKeys(rows) \cap AllKeys(committed) # {}
Waits(t, rows) == \E u \in Txs \ {t} : AllKeys(tx[u].new) \cap AllKeys(rows) # {}
Insert(t, rows, committed) ==
  /\ ~Waits(t, rows)
  /\ tx' = IF Clash(rows, committed) THEN [tx EXCEPT ![t] = Free]
           ELSE [tx EXCEPT ![t].at = "done", ![t].new = rows]
  /\ UNCHANGED <<calendar, consents, runs, exposures>>

(* check_consent, on the latest version; valid_from is not looked at.      *)
Latest(C) == CHOOSE c \in C : \A d \in C : d.version <= c.version
ConsentState(C, day) ==
  IF C = {} THEN "missing"
  ELSE IF Latest(C).event = "revoke" THEN "revoked"
  ELSE IF day >= Latest(C).until THEN "expired" ELSE "granted"

(* record_consent compares the two ends of the consent, which its caller   *)
(* may both give, before it reads anything. What is seen: the version that *)
(* a call will insert, and the end of its consent.                         *)
Unread(until) == [version |-> NONE, until |-> until]
BeginGrant(t) ==
  \E from \in 0..LastDay, until \in 1..(LastDay + 1) : until > from /\ Begin(t, "grant", Unread(until))

(* revoke_consent takes the time, then asks for a consent in force and     *)
(* raises if there is none; its caller rolls back.                         *)
Revocable(day) == ConsentState(consents, day) = "granted"
BeginRevoke(t) == Begin(t, "revoke", Unread(NONE))
CheckConsent(t) ==
  /\ tx[t].kind = "revoke" /\ tx[t].at = "begun"
  /\ tx' = IF Revocable(tx[t].day) THEN [tx EXCEPT ![t].at = "checked"] ELSE [tx EXCEPT ![t] = Free]
  /\ UNCHANGED <<calendar, consents, runs, exposures>>

(* _next_version reads in a statement of its own; the insert comes after.  *)
NextVersion == Max({c.version : c \in consents} \cup {0}) + 1
ReadVersion(t) ==
  /\ <<tx[t].kind, tx[t].at>> \in {<<"grant", "begun">>, <<"revoke", "checked">>}
  /\ tx' = [tx EXCEPT ![t].at = "numbered", ![t].seen.version = NextVersion]
  /\ UNCHANGED <<calendar, consents, runs, exposures>>
ConsentRow(event, seen, day) ==
  [table |-> "consent", version |-> seen.version, event |-> event, until |-> seen.until, on |-> day]
RecordEvent(t) ==
  /\ tx[t].kind \in {"grant", "revoke"} /\ tx[t].at = "numbered"
  /\ Insert(t, {ConsentRow(tx[t].kind, tx[t].seen, tx[t].day)}, consents)

(* ActiveModelPointer.set_active: the active run of the purpose is retired *)
(* and a new one inserted, in one commit. The update waits for a switch    *)
(* that has retired the same run, and then does not see its new one.       *)
Active == {r \in runs : r.until = NONE}
Held(r) == \E u \in Txs : tx[u].kind = "switch" /\ tx[u].at \in {"retired", "done"} /\ tx[u].seen = r
BeginSwitch(t) == Begin(t, "switch", NONE)

\* Mutation: runs that were retired before are retired again.
RetiredAll(r, seen, day) == [r EXCEPT !.until = day]

Retired(r, seen, day) == IF r = seen THEN [r EXCEPT !.until = day] ELSE r

Retire(t) ==
  /\ tx[t].kind = "switch"
  /\ \/ tx[t].at = "begun"
        /\ tx' = [tx EXCEPT ![t].seen = IF Active = {} THEN NONE ELSE CHOOSE r \in Active : TRUE,
                            ![t].at = IF \E r \in Active : Held(r) THEN "waiting" ELSE "retired"]
     \/ tx[t].at = "waiting" /\ ~Held(tx[t].seen)
        /\ tx' = [tx EXCEPT ![t].seen = IF @ \in Active THEN @ ELSE NONE, ![t].at = "retired"]
  /\ UNCHANGED <<calendar, consents, runs, exposures>>
Register(t) ==
  \E m \in Models :
    /\ tx[t].kind = "switch" /\ tx[t].at = "retired"
    /\ Insert(t, {[table |-> "run", model |-> m, from |-> tx[t].day, until |-> NONE]},
              {Retired(r, tx[t].seen, tx[t].day) : r \in runs})

(* An assembly reads the items its week has shown, chooses others, and     *)
(* records them; the rows are flushed together.                            *)
Exposed(week) == {e.item : e \in {x \in exposures : x.week = week}}
BeginAssembly(t) == \E w \in Weeks : Begin(t, "assembly", [week |-> w, items |-> Exposed(w)])
RecordExposures(t) ==
  /\ tx[t].kind = "assembly" /\ tx[t].at = "begun"
  /\ \E S \in SUBSET (Candidates \ tx[t].seen.items) :
       S # {} /\ Insert(t, {[table |-> "exposure", week |-> tx[t].seen.week, item |-> i, paper |-> <<t, Rows>>]
                            : i \in S}, exposures)

Commit(t) ==
  LET New(table) == {r \in tx[t].new : r.table = table} IN
  /\ tx[t].at = "done"
  /\ consents' = consents \cup New("consent")
  /\ runs' = (IF tx[t].kind # "switch" THEN runs
              ELSE {Retired(r, tx[t].seen, tx[t].day) : r \in runs}) \cup New("run")
  /\ exposures' = exposures \cup New("exposure")
  /\ tx' = [tx EXCEPT ![t] = Free] /\ UNCHANGED calendar
Rollback(t) ==
  /\ tx[t].at # "idle" /\ tx' = [tx EXCEPT ![t] = Free]
  /\ UNCHANGED <<calendar, consents, runs, exposures>>
NextDay == calendar < LastDay /\ calendar' = calendar + 1 /\ UNCHANGED <<consents, runs, exposures, tx>>

Next ==
  \/ NextDay
  \/ \E t \in Txs : BeginGrant(t) \/ BeginRevoke(t) \/ BeginSwitch(t) \/ BeginAssembly(t)
                    \/ CheckConsent(t) \/ ReadVersion(t) \/ RecordEvent(t)
                    \/ Retire(t) \/ Register(t) \/ RecordExposures(t) \/ Commit(t) \/ Rollback(t)

(* What get_active may return for a moment of the past, one of the latest  *)
(* runs that were there, and the parameters that may lead to.              *)
There(R, day) == {r \in R : r.from <= day /\ (r.until = NONE \/ r.until > day)}
ActiveAt(R, day) == {r \in There(R, day) : \A q \in There(R, day) : q.from <= r.from}
ParamsAt(R, day) == IF ActiveAt(R, day) = {} THEN {NONE} ELSE {Params[r.model] : r \in ActiveAt(R, day)}

-----------------------------------------------------------------------------
(* However writers read one version before either inserts it, the versions *)
(* of a consent chain have no gap and no double, and a revocation is never *)
(* on file without a consent before it that was in force on its day. That  *)
(* it directly follows one is not so: two that overlap may both be filed.  *)
ConsentChain ==
  /\ {c.version : c \in consents} = 1..Cardinality(consents)
  /\ \A c \in consents : c.event = "revoke" =>
       \E g \in consents : g.event = "grant" /\ g.version < c.version /\ c.on < g.until

(* A switch of the estimator, however late it commits, leaves what every   *)
(* day before its own activation reads as it was; one run is active.       *)
PastKept ==
  /\ Cardinality({r \in runs' : r.until = NONE}) <= 1
  /\ \A t \in Txs : tx[t].at = "done" /\ tx[t].kind = "switch" /\ tx'[t].at = "idle" =>
       \A day \in 0..(tx[t].day - 1) : ParamsAt(runs', day) = ParamsAt(runs, day)

(* Papers of one week share no item, although assemblies overlap. *)
PapersDisjoint == \A d, e \in exposures : d.week = e.week /\ d.item = e.item => d.paper = e.paper
=============================================================================
