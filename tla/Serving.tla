------------------------------ MODULE Serving -------------------------------
(***************************************************************************)
(* The services around a child's practice, each over its own tables: the   *)
(* practice session, the review queue, the ledgers of a student, the audio *)
(* of the listening items, the room they are played in, the life cycle of  *)
(* the items, the nightly export of the answers and the migrations of the  *)
(* database, all of the Python service, and the AI bus, the active         *)
(* estimator and the order of a session of the Go application. They share  *)
(* no variable, so interleaving them shows nothing: a behaviour is one of  *)
(* one service, chosen at the start, with every interleaving of its own    *)
(* callers.                                                                *)
(***************************************************************************)
EXTENDS Integers, Sequences, FiniteSets

CONSTANTS
  NONE,
  Calls, Items, Papers, Pool, PublishedItems, Limits, MaxTime, MaxEvents,
  Reviewed, Syncs, Intervals, MaxAnswers, MaxDays,
  Txs, Models, Candidates, Weeks, Params, LastDay, MaxRows,
  Bands, Voices, Texts, Unspeakable, MaxJobs,
  Listeners, MaxPlays, Total, TwoStars, ThreeStars, MaxMoves,
  Movers, MaxTransitions, Issued,
  Exporters, Answers, Scores, MaxExports,
  Speakers, Sayings, Unclean, SpokenTokens, MaxOut, Limit, Capacity, MaxCalls,
  Switchers, Versions, MaxMoment, MaxSwitches,
  Starters, Orders

(* Ids and placements are texts; no text stands for a value that is absent.*)
ASSUME TextAssumption ==
  /\ NONE \notin STRING
  /\ NONE \notin {"active", "completed", "abandoned", "fixed", "conflict", "audio", "content", "right", "wrong", "pending", "done"}
  /\ \A p \in DOMAIN Papers : Papers[p].items \in Seq([item : STRING, token : STRING])
  /\ \A given \in Pool : given \in Seq(STRING)

(* The CHECK and the seed of the review policy: days, and at least one.    *)
ASSUME IntervalsAssumption == Intervals \in Seq(Nat \ {0}) /\ Intervals # <<>>

(* No entry of the review queue is absent; the items can be listed.        *)
ASSUME ReviewAssumption ==
  /\ IsFiniteSet(Reviewed) /\ MaxAnswers \in Nat
  /\ NONE \notin [stage : Nat, status : {"pending", "done"}, enqueued : Nat, due : Nat, source : {NONE, "slip"}, last : Nat]

(* The voice configuration: a pace for every grade band, a known voice.    *)
ASSUME BandsAssumption == \A b \in DOMAIN Bands : Bands[b].wpm \in Nat \ {0} /\ Bands[b].voice \in DOMAIN Voices

(* A file that is not there holds no rows.                                 *)
ASSUME FilesAssumption == \A S \in SUBSET Answers : NONE \notin [S -> Scores \cup {NONE}]

(* Moments and versions of an estimator, and orders: none is the absent    *)
(* value, and an order is its items and its tokens.                        *)
ASSUME VersionsAssumption == NONE \notin Nat /\ NONE \notin Versions
ASSUME OrdersAssumption == NONE \notin Orders /\ \A o \in Orders : o = [items |-> o.items, tokens |-> o.tokens]

(* The last day that is looked at; no run of an estimator is absent.       *)
ASSUME DaysAssumption == LastDay \in Nat
ASSUME RunsAssumption == NONE \notin [table : {"run"}, model : Models, from : Nat, until : Nat \cup {NONE}]

(* The star thresholds are rates, the higher one for three stars.          *)
ASSUME StarsAssumption == Total > 0 /\ 0 <= TwoStars /\ TwoStars <= ThreeStars /\ ThreeStars <= 10

(* What may be heard is heard once at least (max_plays of PlayResult).     *)
ASSUME PlaysAssumption == MaxPlays \in Nat \ {0}

(* Tokens are counted, a limit may be none, and a cache holds an entry     *)
(* (NewSynthesizer replaces a capacity that is not positive).              *)
ASSUME TokensAssumption ==
  /\ IsFiniteSet(Speakers) /\ SpokenTokens \in Nat /\ MaxOut \in Nat /\ Limit \in Int /\ Capacity \in Nat \ {0}

VARIABLES
  scene,
  clock, row, events, pc, req, old, mine, reply,
  today, answers, queue, sync,
  calendar, consents, runs, exposures, tx,
  jobs, cache, work, stored, result,
  count, granted, game, moves,
  history, move, tock,
  recorded, disk, export, begun, alone,
  version, schema, rows, failed,
  used, paid, ledger, lru, call, drawn,
  moment, estimators, switch,
  store, sequence, create

P == INSTANCE PracticeService
R == INSTANCE ReviewQueue
L == INSTANCE StudentLedgers
A == INSTANCE AudioBatch
G == INSTANCE PlayRoom
I == INSTANCE ItemLifecycle
Export == INSTANCE Archive
M == INSTANCE Migrations
Bus == INSTANCE AIBus
Pointer == INSTANCE ActivePointer
Fixation == INSTANCE TopicOrder

practice   == <<clock, row, events, pc, req, old, mine, reply>>
review     == <<today, answers, queue, sync>>
ledgers    == <<calendar, consents, runs, exposures, tx>>
audio      == <<jobs, cache, work, stored, result>>
room       == <<count, granted, game, moves>>
lifecycle  == <<history, move, tock>>
archive    == <<recorded, disk, export, begun, alone>>
migrations == <<version, schema, rows, failed>>
bus        == <<used, paid, ledger, lru, call, drawn>>
pointer    == <<moment, estimators, switch>>
fixation   == <<store, sequence, create>>
python      == <<practice, review, ledgers, audio, room, lifecycle, archive, migrations>>
application == <<bus, pointer, fixation>>
vars == <<scene, python, application>>

Scenes == {"practice", "review", "ledgers", "audio", "room", "lifecycle", "archive", "migrations", "bus", "pointer", "order"}
Init ==
  /\ scene \in Scenes
  /\ P!Init /\ R!Init /\ L!Init /\ A!Init /\ G!Init /\ I!Init /\ Export!Init /\ M!Init
  /\ Bus!Init /\ Pointer!Init /\ Fixation!Init
  /\ scene = "order" \/ store = "pg"  \* no scene twice for the sake of a store it does not use

Next ==
  \/ scene = "practice" /\ P!Next /\ UNCHANGED <<scene, review, ledgers, audio, room, lifecycle, archive, migrations, application>>
  \/ scene = "review" /\ R!Next /\ UNCHANGED <<scene, practice, ledgers, audio, room, lifecycle, archive, migrations, application>>
  \/ scene = "ledgers" /\ L!Next /\ UNCHANGED <<scene, practice, review, audio, room, lifecycle, archive, migrations, application>>
  \/ scene = "audio" /\ A!Next /\ UNCHANGED <<scene, practice, review, ledgers, room, lifecycle, archive, migrations, application>>
  \/ scene = "room" /\ G!Next /\ UNCHANGED <<scene, practice, review, ledgers, audio, lifecycle, archive, migrations, application>>
  \/ scene = "lifecycle" /\ I!Next /\ UNCHANGED <<scene, practice, review, ledgers, audio, room, archive, migrations, application>>
  \/ scene = "archive" /\ Export!Next /\ UNCHANGED <<scene, practice, review, ledgers, audio, room, lifecycle, migrations, application>>
  \/ scene = "migrations" /\ M!Next /\ UNCHANGED <<scene, practice, review, ledgers, audio, room, lifecycle, archive, application>>
  \/ scene = "bus" /\ Bus!Next /\ UNCHANGED <<scene, pointer, fixation, python>>
  \/ scene = "pointer" /\ Pointer!Next /\ UNCHANGED <<scene, bus, fixation, python>>
  \/ scene = "order" /\ Fixation!Next /\ UNCHANGED <<scene, bus, pointer, python>>

Spec == Init /\ [][Next]_vars

-----------------------------------------------------------------------------
(* The practice session (session/service.py): however requests overlap,    *)
(* are repeated or lost, a session that counts as completed has a recorded *)
(* answer to every item of its sequence, and every count and wrong mark is *)
(* backed by recorded answers.                                             *)
AnswersBacked == P!AnswersBacked

(* A session that has ended, and an item that is retired, do not come back *)
(* (submit, resume and abandon of session/service.py on stale copies;      *)
(* transition_lifecycle of data/health.py, apart from an overlap).         *)
EndedStays == [][P!NeverReopened /\ I!RetiredStays]_vars

(* Whatever order the answers were committed in, the fold of               *)
(* review/scheduler.py counts what their history says; and wherever runs of*)
(* data/parquet_export.py were killed, the file of the day holds every     *)
(* answer that a run read which ended well, unless two runs overlapped.    *)
RebuildCounts == R!RebuildCounts /\ Export!ArchiveHolds

(* Overlapping syncs of review/service.py may leave an entry with columns  *)
(* of two states; the next one that is alone repairs all that is ever due. *)
SyncRestores == [][R!SyncRestores]_vars

(* Overlapping writers of the consent chain leave no gap and no revocation *)
(* of what was never in force; overlapping assemblies leave no item in two *)
(* papers of a week (compliance/parental_consent.py, assembly/exposure.py).*)
LedgersSound == L!ConsentChain /\ L!PapersDisjoint

(* A switch of the estimator, however late it commits, leaves one active   *)
(* run and the past as it was (data/active_model_pointer.py).              *)
PastKept == [][L!PastKept]_vars

(* The audio of an item is its own although the threads share a cache      *)
(* (ai/tts/router.py, audio/producer.py); a batch accounts for every job;  *)
(* no listener hears an audio more often than allowed and the stars of a   *)
(* game are those of its answers (audio/player_service.py, game_session).  *)
ListeningHonest == A!AudioIsTheJobs /\ A!BatchAccounted /\ G!PlayedFair

(* However transitions of an item overlap, it leaves the pool only on a    *)
(* certificate that is on file, and from a state it really had             *)
(* (data/health.py).                                                       *)
LeftOnCertificate == I!LeftOnCertificate

(* Whatever migrations were run, forth and back: a version has the         *)
(* catalogue of a fresh database, a command fails only on stored rows, and *)
(* no ledger loses its triggers (alembic/versions, migrate_check.py).      *)
MigrationsReversible == scene = "migrations" => M!MigrationsReversible

(* Concurrent calls may pass the budget together (Allow and Observe of     *)
(* budget.go); what is spent beyond the limit is at most a call of each.   *)
SpentBounded == Bus!SpentBounded

(* Nothing is delivered or kept in the cache without a row of the ledger   *)
(* (bus.go, synthesizer.go), whatever misses of one text meet.             *)
AudioAccounted == Bus!AudioAccounted

(* The scope lock of estimator/pg.go leaves one active run and nothing to  *)
(* refuse; the answers of Create (session/topicorder*.go) are true.        *)
AnswersTrue == Pointer!PointerExact /\ Fixation!OrderTold
=============================================================================
