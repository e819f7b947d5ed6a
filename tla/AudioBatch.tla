----------------------------- MODULE AudioBatch -----------------------------
(***************************************************************************)
(* A batch of listening audio (core/audio/producer.py over the speech bus  *)
(* core/ai/tts/router.py). Every job runs in a thread of its own; the      *)
(* threads share the cache of the bus, which no lock protects, and the     *)
(* storage that is written under the content id.                           *)
(***************************************************************************)
EXTENDS Integers, Sequences, FiniteSets, SequencesExt

CONSTANTS NONE, Bands, Voices, Texts, Unspeakable, MaxJobs
(* Bands: grade band -> [wpm, voice]; Voices: voice -> its engine; the     *)
(* engine raises on the texts in Unspeakable.                              *)

VARIABLES
  jobs,     \* the jobs of the batch, in order
  cache,    \* content id -> what the bus returned for it
  work,     \* job -> the state of its thread
  stored,   \* content id -> the audio last written to storage
  result    \* the BatchResult, NONE until all threads have ended
audio == <<jobs, cache, work, stored, result>>

Asked(j) ==
  [text |-> j.text, wpm |-> Bands[j.band].wpm, voice |-> IF j.voice = NONE THEN Bands[j.band].voice ELSE j.voice]

\* Mutation: the pace is not part of the content id.
ContentIdSlow(a) == <<a.text, a.voice, Voices[a.voice]>>

(* compute_content_id; the engine is the one named by the configuration of *)
(* the voice, not the one that is called.                                  *)
ContentId(a) == <<a.text, a.voice, a.wpm, Voices[a.voice]>>

Jobs == [text : Texts, band : DOMAIN Bands, voice : {NONE, "unknown"} \cup DOMAIN Voices]
Init ==
  /\ jobs = <<>> /\ work = <<>>
  /\ cache = <<>> /\ stored = <<>> /\ result = NONE

(* The batch that a caller asks for; its threads are all started. *)
Submit ==
  /\ jobs = <<>>
  /\ \E n \in 1..MaxJobs : jobs' \in [1..n -> Jobs]
  /\ work' = [j \in DOMAIN jobs' |-> [at |-> "start", id |-> NONE, got |-> NONE]]
  /\ UNCHANGED <<cache, stored, result>>

Put(f, id, v) == [x \in DOMAIN f \cup {id} |-> IF x = id THEN v ELSE f[x]]
To(j, w) == work' = [work EXCEPT ![j] = w] /\ UNCHANGED <<jobs, result>>

(* tts_synthesize up to the lookup; a voice that is not configured raises. *)
Lookup(j) ==
  LET a == Asked(jobs[j])  id == ContentId(a) IN
  /\ work[j].at = "start"
  /\ IF a.voice \notin DOMAIN Voices THEN To(j, [at |-> "failed", id |-> NONE, got |-> NONE])
     ELSE IF id \in DOMAIN cache THEN To(j, [at |-> "got", id |-> id, got |-> cache[id]])
     ELSE To(j, [at |-> "missed", id |-> id, got |-> NONE])
  /\ UNCHANGED <<cache, stored>>

(* After a miss the engine speaks, and its answer replaces what another    *)
(* thread may have cached meanwhile.                                       *)
Spoken(j) ==
  [of |-> Asked(jobs[j]), band |-> jobs[j].band, length |-> jobs[j].text, take |-> j]
Synthesize(j) ==
  /\ work[j].at = "missed"
  /\ IF jobs[j].text \in Unspeakable
     THEN To(j, [work[j] EXCEPT !.at = "failed"]) /\ UNCHANGED cache
     ELSE To(j, [work[j] EXCEPT !.at = "got", !.got = Spoken(j)]) /\ cache' = Put(cache, work[j].id, Spoken(j))
  /\ UNCHANGED stored

(* produce_audio: storage is written, and the content id is computed again *)
(* from what the bus says it used.                                         *)
Produce(j) ==
  /\ work[j].at = "got"
  /\ stored' = Put(stored, work[j].id, work[j].got)
  /\ To(j, [work[j] EXCEPT !.at = IF ContentId(work[j].got.of) = work[j].id THEN "produced" ELSE "failed"])
  /\ UNCHANGED cache

(* The numbers of S in the order of the jobs. *)
InOrder(S) ==
  CHOOSE s \in [1..Cardinality(S) -> S] : Range(s) = S /\ \A m, n \in DOMAIN s : m < n => s[m] < s[n]

\* Mutation: a job that failed stops the threads behind it from being counted.
OutcomesUntilFailure(done) ==
  [results |-> InOrder({j \in done : \A k \in 1..j : work[k].at = "produced"}),
   failures |-> InOrder({j \in done : work[j].at = "failed"})]

(* produce_audio_batch gathers the outcomes in the order of the jobs. *)
Outcomes(done) ==
  [results |-> InOrder({j \in done : work[j].at = "produced"}),
   failures |-> InOrder({j \in done : work[j].at = "failed"})]
Gather ==
  LET o == Outcomes(DOMAIN jobs) IN
  /\ jobs # <<>> /\ result = NONE /\ \A j \in DOMAIN jobs : work[j].at \in {"produced", "failed"}
  /\ result' = [status |-> IF o.failures = <<>> THEN "completed" ELSE "partial",
                results |-> o.results, failures |-> o.failures, total |-> Len(jobs)]
  /\ UNCHANGED <<jobs, cache, work, stored>>

Next == Submit \/ Gather \/ \E j \in DOMAIN jobs : Lookup(j) \/ Synthesize(j) \/ Produce(j)

(* The gates of the listening pipeline: the pace within a tenth of the     *)
(* pace of the grade band, and a length that is that of the text.          *)
AgeCheck(j) ==
  LET target == Bands[jobs[j].band].wpm  wpm == work[j].got.of.wpm
  IN 10 * wpm >= 9 * target /\ 10 * wpm <= 11 * target
QualityCheck(j) == work[j].got.length = jobs[j].text

-----------------------------------------------------------------------------
(* However the threads interleave on the shared cache: what a job produces *)
(* speaks its own text in its own voice and at its own pace, so that both  *)
(* gates let it pass, and what storage holds under its id does so too.     *)
AudioIsTheJobs ==
  \A j \in DOMAIN jobs : work[j].at = "produced" =>
    /\ work[j].got.of = Asked(jobs[j]) /\ AgeCheck(j) /\ QualityCheck(j)
    /\ stored[work[j].id].of = Asked(jobs[j])

(* Every job of a batch is reported once, in order, as produced or failed, *)
(* and a job fails for reasons of its own only.                            *)
BatchAccounted ==
  result # NONE =>
    /\ result.total = Len(result.results) + Len(result.failures)
    /\ \A s \in {result.results, result.failures} : \A m, n \in DOMAIN s : m < n => s[m] < s[n]
    /\ \A j \in DOMAIN jobs : j \in Range(result.failures)
         <=> (Asked(jobs[j]).voice \notin DOMAIN Voices \/ jobs[j].text \in Unspeakable)
    /\ result.status = "completed" <=> result.failures = <<>>
=============================================================================
