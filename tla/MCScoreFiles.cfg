SPECIFICATION Spec
CONSTANTS
  ViewList <- MCViews
  TemplateList <- MCTemplates
  AmbiguousViews = {"trace_only"}
  CellSize <- MCCellSize
  Failures = {"timed_out", "invalid_claim"}
  Installed = "scorer"
  MethodCount = 2
  CaseCount = 4
  Calls <- Files
  Truths <- MCTruths
  Changes = {"unsealed", "row", "tables", "table", "macro", "order", "truth", "ceiling", "roots", "rewrite"}
INVARIANTS
  EditsCaught
  LoadedIsRebuilt
