SPECIFICATION Spec
CONSTANTS
  c1 = c1
  c2 = c2
  c3 = c3
  Cases <- ThreeCases
  Evaluators <- ThreeEvaluators
  Origins <- TwoOrigins
  Runs <- AllRuns
  RuleBooks <- SomeRuleBooks
  NoValue = NoValue
  CaseOrder <- ByExternalId
  TagOf <- FirstTags
CHECK_DEADLOCK FALSE
INVARIANTS VerdictIsWorst CiReportAgrees FaultsNeverImprovePassRate SameSamplesPass FailMeansRegressed RunRowsExplainDeltas TagsAccountForFailures
