---------------------------- MODULE MCProduction ----------------------------
(* Two calls at a time, over one job of every way a line can go. *)
EXTENDS Production, TLC

Open == <<"license", "open">>
Short == <<"license", "short">>
Payload == [keys |-> {"stem"}, license |-> NONE, body |-> "plain", genre |-> "narrative", band |-> "M",
            sentence |-> 20, baseline |-> TRUE, oov |-> 3, goal |-> [min |-> 2, max |-> 5],
            rubric |-> "complete", word |-> NONE, math |-> "pass"]
Context == [type |-> "item", pack |-> "platform", payload |-> Payload, db |-> TRUE, license |-> NONE,
            required |-> {"stem"}, schema |-> NONE, target |-> NONE, chain |-> <<>>]

On(v) == [id |-> v, blocking |-> "unset"]
MCPolicy ==
  <<"platform", "item">> :> <<On("schema"), On("license"), On("duplicate_placeholder"), On("rubric_completeness")>> @@
  <<"subject-math", "item">> :> <<On("solvability"), On("schema")>> @@
  <<"platform", "passage">> :> <<On("license"), On("passage_age_appropriate"), On("passage_difficulty_gate")>>

Task(id, given, payload) ==
  [line |-> "D", id |-> <<"canonical", id>>, template |-> <<"template", "D">>, blueprint |-> "bp", grade |-> 3,
   given |-> given, context |-> [Context EXCEPT !.payload = payload]]
Passage(specs, payload) ==
  [line |-> "C", id |-> NONE, specs |-> specs, context |-> [Context EXCEPT !.type = "passage", !.payload = payload]]
Word(pack, word, source) ==
  [line |-> "word", id |-> <<"instance", word>>, template |-> <<"template", pack>>, source |-> source,
   context |-> [Context EXCEPT !.pack = pack, !.target = word,
                !.license = IF pack = "subject-english" THEN NONE ELSE source,
                !.chain = <<On("schema"), On("license"), On("word"), On("duplicate_placeholder")>>]]
Page(pack, id, required, math) ==
  [line |-> "issue", id |-> <<"draft", id>>,
   context |-> [Context EXCEPT !.pack = pack, !.required = required, !.payload.math = math]]

Spec1 == [spec |-> 1, version |-> <<"canonical", "s1">>, kps |-> {"k"}, overlap |-> TRUE]
Spec2 == [spec |-> 2, version |-> <<"canonical", "s2">>, kps |-> {"k"}, overlap |-> TRUE]

MCJobs ==
  {Task("d1", {"topic"}, Payload), Task("d2", {"topic"}, [Payload EXCEPT !.rubric = "gap"]), Task("d3", {}, Payload),
   Passage(<<Spec1, Spec2>>, Payload), Passage(<<Spec1, Spec2>>, [Payload EXCEPT !.sentence = 30]),
   Passage(<<Spec1>>, Payload),
   Word("subject-english", "cat", Open), Word("subject-english", "zzz", Open), Word("subject-chinese", "cat", Short),
   Page("platform", "v1", {"stem"}, "pass"), Page("subject-math", "v1", {"stem"}, "review"),
   Page("subject-math", "v1", {"answer"}, "fail")}
MCDrafts == {<<"draft", "v1">>}
MCLicenses == Open :> [decision |-> "approved", expires |-> NONE] @@ Short :> [decision |-> "approved", expires |-> 1]
MCBlueprints == [bp |-> [writing |-> "composition", grades |-> {3}]]
MCFresh == [w \in Workers |-> <<"fresh", w>>]
=============================================================================
