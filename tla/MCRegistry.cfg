CONSTANTS
  World <- MCWorld
  Commitments <- MCCommitments
  Commitment <- MCCommitment
  Atoms <- MCAtoms
  Targets <- MCTargets
  target <- MCTarget
  Probes <- MCProbes
  ProbeValues = {0, 1}
  Traces <- MCTraces
  Completions <- MCCompletions
  Families <- MCFamilies
SPECIFICATION Spec
INVARIANTS TypeOK TruthStaysCompatible IdentifiedIsTrue IdentifiedTargetsNecessary AmbiguityIsReal FullReplayDecides
PROPERTY EvidenceOnlyNarrows
