----------------------------- MODULE Evaluators -----------------------------
(***************************************************************************)
(* evaluators/: scoring one answer.  A text is the sequence of its tokens  *)
(* (text.py keeps lower-case letters and digits only); a score is a        *)
(* fraction, and thresholds on scores are in percent.                      *)
(***************************************************************************)
EXTENDS Integers, Sequences, FiniteSets, Functions

CONSTANTS Words,      \* tokens
          Within,     \* Within[w]: the tokens w is a substring of
          Docs,       \* retrievable documents
          Nli,        \* the entailment model: a score of each answer, in percent
          Embeddable, \* the texts the embedding model can embed, none if it is missing
          Dot,        \* the embedding model: product of two texts' vectors, in percent
          Available,  \* the evaluators whose dependencies are installed
          None

Registry == {"exact_match", "contains_keywords", "semantic_similarity", "token_f1_overlap",
             "embedding_similarity", "retrieval_hit_rate", "forbidden_claim",
             "latency_threshold", "cost_threshold", "faithfulness"}

\* An entry of an evaluator configuration; padded: its name has blanks around.
Specs == [name : Registry \cup {"unknown"}, padded : BOOLEAN, threshold : Int]

Payloads == [expected : Seq(Words) \cup {None}, facts : Seq(Words), forbidden : SUBSET Words,
             doc : Docs \cup {None}]

Outputs == [answer : Seq(Words), docs : SUBSET Docs, latency : Nat, cost : Nat]

ASSUME EvaluatorsAssumption ==
  /\ Within \in [Words -> SUBSET Words] /\ \A w \in Words : w \in Within[w]
  /\ Available \subseteq Registry
-----------------------------------------------------------------------------
Result(outcome, num, den) == [outcome |-> outcome, num |-> num, den |-> den]
Skipped == Result("skipped", 0, 1)
Raised == Result("errored", 0, 1)

Judged(passed, num, den) == Result(IF passed THEN "passed" ELSE "failed", num, den)
Graded(num, den, threshold) == Judged(num * 100 >= threshold * den, num, den)

Mentions(answer, phrase) == Range(answer) \cap Within[phrase] # {}

ExactMatch(payload, output) ==
  IF payload.expected = None THEN Skipped
  ELSE Judged(output.answer = payload.expected,
              IF output.answer = payload.expected THEN 1 ELSE 0, 1)

ContainsKeywords(payload, output, threshold) ==
  IF payload.facts = <<>> THEN Skipped
  ELSE Graded(Cardinality({k \in DOMAIN payload.facts : Mentions(output.answer, payload.facts[k])}),
              Len(payload.facts), threshold)

\* Variant: precision and recall over all tokens, repeated ones included.
TokenF1OfLengths(payload, output, threshold) ==
  IF payload.expected = None THEN Skipped
  ELSE LET left == Range(output.answer)
           right == Range(payload.expected)
       IN IF left = {} \/ right = {} THEN Graded(0, 1, threshold)
          ELSE Graded(2 * Cardinality(left \cap right), Len(output.answer) + Len(payload.expected),
                      threshold)

\* The harmonic mean of overlap / |left| and overlap / |right|.
TokenF1(payload, output, threshold) ==
  IF payload.expected = None THEN Skipped
  ELSE LET left == Range(output.answer)
           right == Range(payload.expected)
       IN IF left = {} \/ right = {} THEN Graded(0, 1, threshold)
          ELSE Graded(2 * Cardinality(left \cap right), Cardinality(left) + Cardinality(right),
                      threshold)

\* Both texts are embedded before they are compared.  The vector of an empty
\* text is zero and needs no model; a text that cannot be embedded raises.
\* Products are cut to [0, 1].
EmbeddingSimilarity(payload, output, threshold) ==
  LET texts == {payload.expected, output.answer}
      dot == Dot[<<output.answer, payload.expected>>]
  IN IF payload.expected = None THEN Skipped
     ELSE IF ~ texts \ {<<>>} \subseteq Embeddable THEN Raised
     ELSE IF <<>> \in texts THEN Graded(0, 1, threshold)
     ELSE Graded(IF dot < 0 THEN 0 ELSE IF dot > 100 THEN 100 ELSE dot, 100, threshold)

RetrievalHitRate(payload, output) ==
  IF payload.doc = None THEN Skipped
  ELSE Judged(payload.doc \in output.docs, IF payload.doc \in output.docs THEN 1 ELSE 0, 1)

ForbiddenClaim(payload, output) ==
  IF payload.forbidden = {} THEN Skipped
  ELSE LET passed == \A claim \in payload.forbidden : ~ Mentions(output.answer, claim)
       IN Judged(passed, IF passed THEN 1 ELSE 0, 1)

\* Variant: the score is not cut off at 0.
WithinThresholdUncut(value, threshold) ==
  CASE value <= threshold -> Judged(TRUE, 1, 1)
    [] value > threshold /\ threshold = 0 -> Raised
    [] OTHER -> Judged(FALSE, 2 * threshold - value, threshold)

\* latency_threshold and cost_threshold: 1 within the threshold, then 1 less
\* the relative excess, never below 0.  Division by a zero threshold raises.
WithinThreshold(value, threshold) ==
  CASE value <= threshold -> Judged(TRUE, 1, 1)
    [] value > threshold /\ threshold = 0 -> Raised
    [] value > threshold /\ threshold > 0 ->
         Judged(FALSE, IF value < 2 * threshold THEN 2 * threshold - value ELSE 0, threshold)
    [] OTHER -> Judged(FALSE, value - 2 * threshold, -threshold)

\* A model that cannot score the answer raises.
Faithfulness(output, threshold) ==
  CASE output.docs = {} -> Skipped
    [] output.docs # {} /\ output.answer = <<>> -> Graded(1, 1, threshold)
    [] output.docs # {} /\ output.answer # <<>> /\ Nli[output.answer] = None -> Raised
    [] OTHER -> Graded(Nli[output.answer], 100, threshold)

Evaluate(spec, payload, output) ==
  CASE spec.name = "exact_match" -> ExactMatch(payload, output)
    [] spec.name = "contains_keywords" -> ContainsKeywords(payload, output, spec.threshold)
    [] spec.name = "embedding_similarity" -> EmbeddingSimilarity(payload, output, spec.threshold)
    [] spec.name \in {"semantic_similarity", "token_f1_overlap"} ->
         TokenF1(payload, output, spec.threshold)
    [] spec.name = "retrieval_hit_rate" -> RetrievalHitRate(payload, output)
    [] spec.name = "forbidden_claim" -> ForbiddenClaim(payload, output)
    [] spec.name = "latency_threshold" -> WithinThreshold(output.latency, spec.threshold)
    [] spec.name = "cost_threshold" -> WithinThreshold(output.cost, spec.threshold)
    [] spec.name = "faithfulness" -> Faithfulness(output, spec.threshold)

-----------------------------------------------------------------------------
\* The engine looks a name up as it is written.
Known(spec) == spec.name \in Registry /\ ~ spec.padded

\* Variant: the first evaluator to raise ends the loop.
EvaluateCaseUntilError(payload, output, config) ==
  LET known(k) == Known(config[k])
      last == CHOOSE n \in 1 .. Len(config) :
                /\ \A k \in 1 .. n - 1 : known(k)
                /\ ~ known(n) \/ n = Len(config)
  IN [k \in 1 .. last |-> IF known(k) THEN Evaluate(config[k], payload, output) ELSE Raised]

\* evaluate_case: one result per entry, an exception of one evaluator is its
\* own result only.
EvaluateCase(payload, output, config) ==
  [k \in DOMAIN config |->
     IF Known(config[k]) THEN Evaluate(config[k], payload, output) ELSE Raised]

\* validate_evaluator_config; it strips the names it checks.
ValidConfig(config) ==
  /\ config # <<>>
  /\ \A k \in DOMAIN config : config[k].name \in Registry \cap Available
  /\ \A j, k \in DOMAIN config : config[j].name = config[k].name => j = k
=============================================================================
