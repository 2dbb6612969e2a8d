CONSTANTS
  Commitments <- MCCommitments
  AtomList <- MCAtomList
  Targets <- MCTargets
  target <- MCTarget
  Probes <- MCProbes
  ProbeValues = {0, 1}
  Traces <- MCTraces
  Behaviours <- MCBehaviours
  Scenarios <- MCScenarios
  MaxAtoms = 2
  MaxGlitches = 2
SPECIFICATION Spec
INVARIANTS TypeOK CertificatesAreTrue AgreesWithRegistry NothingWithheld
