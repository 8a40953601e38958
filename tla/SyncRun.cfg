SPECIFICATION Spec
CONSTANTS
  c1 = c1
  c2 = c2
  c3 = c3
  c4 = c4
  venv = venv
  module = module
  quantum = quantum
  d1 = d1
  d2 = d2
  None = None
  Words <- Tokens
  Within <- Substrings
  Docs <- TwoDocs
  Nli <- NliScores
  Embeddable <- EmbeddableTexts
  Dot <- DotProducts
  Available <- WithoutModels
  Suite <- FourCases
  Request <- FirstThree
  Payload <- CasePayloads
  AdapterOutputs <- SomeOutputs
  Configs <- SomeConfigs
CHECK_DEADLOCK FALSE
INVARIANTS StoredRunIsExact ExactMeansFullOverlap ScoresInUnit
PROPERTIES LifecycleSpec
