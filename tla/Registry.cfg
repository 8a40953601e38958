SPECIFICATION Spec
CONSTANTS
  o1 = o1
  o2 = o2
  app1 = app1
  app2 = app2
  suite1 = suite1
  Orgs = {o1, o2}
  Names = {"first", "new"}
  Tags = {"t"}
  Requests = {r1, r2, r3}
  Work <- SomeWork
  FirstRows <- FirstTables
  Adapters = {"rag", "shell"}
  AllowedAdapters = {"rag"}
  Keys = {"model", "client", "token"}
  SecretKeys = {"token"}
  Reads = {"case", "version"}
  PageSize = 1
  None = None
SYMMETRY Symmetry
INVARIANTS NamesAreUnique TenantIsolation AnswersAreTrue ImportsAreWhole ReadersMissNothing
