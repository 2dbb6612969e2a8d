SPECIFICATION Spec
CONSTANTS
  TemplateIds <- MCTemplateIds
  PerTemplate = 1
  Catalogs <- MCCatalogs
  Seeds <- MCSeeds
  Commit <- MCCommit
  Opaque <- MCOpaque
  MaxUpgrades = 1
INVARIANTS
  TypeOK
  EvidenceEntitles
  TruthIsTrue
  
  
  ReferenceMethodsHonest
