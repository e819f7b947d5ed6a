------------------------------- MODULE AIBus --------------------------------
(***************************************************************************)
(* The way of every model call (core/ai/bus.go) with its budget (budget.go)*)
(* and its ledger, and the speech service before it with its cache         *)
(* (core/ai/tts/synthesizer.go). Calls run at once: redaction is a pure    *)
(* function, and budget, ledger and cache each have a lock of their own.   *)
(***************************************************************************)
EXTENDS Integers, Sequences, FiniteSets, SequencesExt

CONSTANTS NONE, Speakers, Sayings, Unclean, SpokenTokens, MaxOut, Limit, Capacity, MaxCalls
(* Unclean: the texts that the redactor fails on; SpokenTokens: the tokens *)
(* of speech, the bytes of its audio. A text is one token. A target for    *)
(* text has MaxOut as its limit, the one for speech is registered with none*)

VARIABLES
  used,     \* CumulativeBudget.used
  paid,     \* the tokens of all answers that came back
  ledger,   \* ai_call_ledger rows: [id, status, text]
  lru,      \* the cache, the last used first: [text, id]
  call,     \* caller -> its call
  drawn     \* call ids drawn so far
bus == <<used, paid, ledger, lru, call, drawn>>

Silent == [at |-> "idle", kind |-> NONE, text |-> NONE, id |-> 0, cost |-> 0, reply |-> NONE]
Init ==
  /\ used = 0 /\ paid = 0 /\ ledger = {} /\ lru = <<>> /\ drawn = 0
  /\ call = [c \in Speakers |-> Silent]

Step(c, at) == call' = [call EXCEPT ![c].at = at]
Tell(c, reply) == call' = [call EXCEPT ![c].at = "told", ![c].reply = reply]

(* lruCache: get moves an entry to the front; put replaces it there, or    *)
(* adds one and drops the last one of too many.                            *)
Hit(text) == {i \in DOMAIN lru : lru[i].text = text}
Fronted(entry, i) == <<entry>> \o RemoveAt(lru, i)
Put(entry) ==
  \/ \E i \in Hit(entry.text) : lru' = Fronted(entry, i)
  \/ /\ Hit(entry.text) = {}
     /\ lru' = <<entry>> \o (IF Len(lru) < Capacity THEN lru ELSE Front(lru))

(* Synthesize derives the key from the redacted text and looks it up. What *)
(* cannot be redacted goes to the bus, which cannot redact it either.      *)
Ask(c, kind, text) ==
  /\ call[c].at \in {"idle", "told"} /\ drawn < MaxCalls
  /\ \/ /\ kind = "speech" /\ text \notin Unclean /\ Hit(text) # {}
        /\ \E i \in Hit(text) :
             /\ lru' = Fronted(lru[i], i)
             /\ call' = [call EXCEPT ![c] = [Silent EXCEPT !.at = "told", !.kind = kind, !.text = text,
                                                           !.id = lru[i].id, !.reply = "audio"]]
        /\ UNCHANGED drawn
     \/ /\ kind = "text" \/ text \in Unclean \/ Hit(text) = {}
        /\ drawn' = drawn + 1
        /\ call' = [call EXCEPT ![c] = [Silent EXCEPT !.at = "gate", !.kind = kind, !.text = text, !.id = drawn + 1]]
        /\ UNCHANGED lru
  /\ UNCHANGED <<used, paid, ledger>>

(* The input, and the limit of the target on the output. *)
Estimate(kind) == 1 + (IF kind = "text" THEN MaxOut ELSE 0)

\* Mutation: the budget looks at the call alone.
AllowsAlone(kind) == Limit <= 0 \/ Estimate(kind) <= Limit

(* Allow; a limit that is not positive is none. *)
Allows(kind) == Limit <= 0 \/ used + Estimate(kind) <= Limit

Gate(c) ==
  /\ call[c].at = "gate"
  /\ Step(c, IF call[c].text \notin Unclean /\ Allows(call[c].kind) THEN "outbound" ELSE "rejected")
  /\ UNCHANGED <<used, paid, ledger, lru, drawn>>

(* The target answers, or fails, or its time is over. *)
Outbound(c) ==
  /\ call[c].at = "outbound"
  /\ \/ Step(c, "failed") /\ UNCHANGED paid
     \/ \E out \in IF call[c].kind = "speech" THEN {SpokenTokens} ELSE 1..MaxOut :
          /\ paid' = paid + 1 + out
          /\ call' = [call EXCEPT ![c].at = "observe", ![c].cost = 1 + out]
  /\ UNCHANGED <<used, ledger, lru, drawn>>

(* A refused or failed call leaves a row, or the writing of the row fails; *)
(* the caller is told of an error either way.                              *)
Row(c, status) == [id |-> call[c].id, status |-> status, text |-> call[c].text]
Refuse(c) ==
  /\ call[c].at \in {"rejected", "failed"}
  /\ ledger' \in {ledger, ledger \cup {Row(c, call[c].at)}}
  /\ Tell(c, "error")
  /\ UNCHANGED <<used, paid, lru, drawn>>

(* Observe, whether the row can be written or not. *)
Observe(c) ==
  /\ call[c].at = "observe"
  /\ used' = used + call[c].cost
  /\ Step(c, "record")
  /\ UNCHANGED <<paid, ledger, lru, drawn>>

\* Mutation: speech is put into the cache although its row could not be written.
RecordCarelessly(c) ==
  /\ call[c].at = "record"
  /\ \/ /\ ledger' = ledger \cup {Row(c, "ok")}
        /\ IF call[c].kind = "speech" THEN Step(c, "put") ELSE Tell(c, "content")
     \/ /\ UNCHANGED ledger
        /\ IF call[c].kind = "speech" THEN Step(c, "put") ELSE Tell(c, "error")
  /\ UNCHANGED <<used, paid, lru, drawn>>

(* The row is written before anything is delivered; if it cannot be, the   *)
(* content is dropped.                                                     *)
Record(c) ==
  /\ call[c].at = "record"
  /\ \/ /\ ledger' = ledger \cup {Row(c, "ok")}
        /\ IF call[c].kind = "speech" THEN Step(c, "put") ELSE Tell(c, "content")
     \/ UNCHANGED ledger /\ Tell(c, "error")
  /\ UNCHANGED <<used, paid, lru, drawn>>

Keep(c) ==
  /\ call[c].at = "put"
  /\ Put([text |-> call[c].text, id |-> call[c].id])
  /\ Tell(c, "audio")
  /\ UNCHANGED <<used, paid, ledger, drawn>>

Next ==
  \E c \in Speakers :
    \/ \E kind \in {"speech", "text"}, text \in Sayings : Ask(c, kind, text)
    \/ Gate(c) \/ Outbound(c) \/ Refuse(c) \/ Observe(c) \/ Record(c) \/ Keep(c)

-----------------------------------------------------------------------------
(* The budget is asked before a call and charged after it, under its own   *)
(* lock each time: all callers may pass it together, and none passes after *)
(* that. What is spent beyond the limit is no more than a call of each.    *)
Dearest == 1 + (IF SpokenTokens > MaxOut THEN SpokenTokens ELSE MaxOut)
SpentBounded == Limit > 0 => paid < Limit + Cardinality(Speakers) * Dearest

(* What was delivered, now or from the cache, was paid for under an ok row *)
(* of the ledger for the same text; a text that cannot be redacted never   *)
(* was; the cache has no text twice and no more entries than it may.       *)
Billed(text, id) == [id |-> id, status |-> "ok", text |-> text] \in ledger /\ text \notin Unclean
AudioAccounted ==
  /\ \A c \in Speakers : call[c].reply \in {"audio", "content"} => Billed(call[c].text, call[c].id)
  /\ \A i \in DOMAIN lru : Billed(lru[i].text, lru[i].id)
  /\ \A i, j \in DOMAIN lru : lru[i].text = lru[j].text => i = j
  /\ Len(lru) <= Capacity
=============================================================================
