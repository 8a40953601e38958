----------------------------- MODULE MCSyncRun -----------------------------
(* Model-checking instances of SyncRun.                                    *)
EXTENDS SyncRun, TLC

CONSTANTS c1, c2, c3, c4, venv, module, quantum, d1, d2

FourCases == {c1, c2, c3, c4}
FirstThree == <<c2, c1, c3>>

Tokens == {venv, module, quantum}
\* The third token contains the second one as a substring.
Substrings == (venv :> {venv}) @@ (module :> {module, quantum}) @@ (quantum :> {quantum})
TwoDocs == {d1, d2}

\* The model scores the right answer high, raises on a repetitive one.
NliOf(answer) == IF answer = <<venv, module>> THEN 90
                 ELSE IF answer = <<venv, venv>> THEN None ELSE 40
Answers == {<<venv, module>>, <<module, venv>>, <<venv, venv>>, <<quantum>>, <<>>}
NliScores == [a \in Answers |-> NliOf(a)]

\* A product of normalised vectors, off by its rounding: 101, and one below 0.
DotOf(a, b) == IF a = b THEN 101 ELSE IF a = <<quantum>> THEN -5 ELSE 70
\* The model cannot embed a repetitive text, be it an answer or expected.
EmbeddableTexts == Answers \ {<<venv, venv>>, <<>>}
DotProducts == [p \in Answers \X Answers |-> DotOf(p[1], p[2])]

Case(expected, facts, forbidden, doc) ==
  [expected |-> expected, facts |-> facts, forbidden |-> forbidden, doc |-> doc]
CasePayloads ==
  (c1 :> Case(<<venv, module>>, <<venv, module>>, {quantum}, d1))
  @@ (c2 :> Case(<<venv, venv>>, <<>>, {}, None))
  @@ (c3 :> Case(None, <<>>, {}, None)) @@ (c4 :> Case(None, <<>>, {}, None))

Out(answer, docs, latency, cost) ==
  [answer |-> answer, docs |-> docs, latency |-> latency, cost |-> cost]
SomeOutputs ==
  {Out(<<venv, module>>, {d1}, 20, 0), Out(<<module, venv>>, {d2}, 21, 1),
   Out(<<venv, venv>>, {d1, d2}, 40, 2), Out(<<quantum>>, {d1}, 41, 1), Out(<<>>, {}, 1, 0)}

E(name, threshold) == [name |-> name, padded |-> FALSE, threshold |-> threshold]
SomeConfigs ==
  {<<E("exact_match", 100), E("token_f1_overlap", 100), E("forbidden_claim", 0)>>,
   <<E("contains_keywords", 50), E("latency_threshold", 20), E("cost_threshold", 0)>>,
   <<E("faithfulness", 50), E("unknown", 0), E("retrieval_hit_rate", 0)>>,
   <<E("embedding_similarity", 70), E("semantic_similarity", 70)>>,
   <<E("latency_threshold", -1), [E("exact_match", 100) EXCEPT !.padded = TRUE]>>}

\* The optional models are not installed where configurations are made.
WithoutModels == Registry \ {"faithfulness", "embedding_similarity"}
=============================================================================
