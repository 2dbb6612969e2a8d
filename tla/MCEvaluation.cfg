SPECIFICATION Spec
CONSTANTS
  MethodList <- MCMethods
  Cases = {1, 2}
  program <- MCProgram
  request <- MCRequest
  roots <- MCRoots
  Backends = {"pinned", "other"}
  expectedBackend = "pinned"
  Limits = {"default", "raised"}
  callerLimits = "default"
  Answers = {"claim", "other_claim", "failed"}
  answer <- MCAnswer
  Steady = {"second"}
  Scenarios <- MCScenarios
  MaxSwaps = 2
INVARIANTS
  TypeOK
  ReturnedIsBound
  ScheduleInvisible
  RanAsPinned
  RefusalIsEarned
