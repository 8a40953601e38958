----------------------------- MODULE MCRegistry -----------------------------
(* A model-checking instance of Registry.                                  *)
EXTENDS Registry, TLC

CONSTANTS o1, o2, app1, app2, suite1

\* The organisations' first apps, of one name, and a suite.
FirstTables ==
  {[id |-> app1, kind |-> "app", parent |-> o1, name |-> "first", created |-> 0],
   [id |-> app2, kind |-> "app", parent |-> o2, name |-> "first", created |-> 0],
   [id |-> suite1, kind |-> "suite", parent |-> app1, name |-> "first", created |-> 0]}

Asks(kind, org, name) ==
  [kind |-> kind, org |-> org, role |-> "evaluator", name |-> name, valid |-> TRUE,
   adapter |-> "rag", config |-> {<<"model">>}, cases |-> <<>>]

\* The middle case has no input; the others have different tags.
ThreeCases == <<[input |-> TRUE, tags |-> {"t"}], [input |-> FALSE, tags |-> {}],
                [input |-> TRUE, tags |-> {}]>>

SomeWork ==
  {Asks(kind, o1, "new") : kind \in {"app", "version", "suite", "rule"}}
    \cup {Asks("app", o2, "new")}
    \cup {[Asks("config", o1, "new") EXCEPT !.valid = FALSE],
          [Asks("app", o1, "new") EXCEPT !.role = "viewer"],
          [Asks("version", o1, "new") EXCEPT !.adapter = "shell"],
          [Asks("version", o1, "new") EXCEPT !.config = {<<"model">>, <<"client", "token">>}]}
    \cup {[Asks("import", org, "new") EXCEPT !.cases = ThreeCases] : org \in {o1, o2}}

Symmetry == Permutations(Requests)
=============================================================================
