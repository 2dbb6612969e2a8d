CONSTANTS
  RequestSize = 2
  ClaimSize = 2
  Limit <- MCLimit
  Capacity = 1
  Chunk = 2
  Scripts <- MCScripts
SPECIFICATION PatientSpec
PROPERTY ClaimComesThrough
