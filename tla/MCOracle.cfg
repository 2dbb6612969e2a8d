CONSTANTS
  Names <- MCNames
  Targets <- MCTargets
  Targetings <- MCTargetings
  Declarations <- MCDeclarations
  MaxAtoms = 3
  MaxGlitches = 2
SPECIFICATION Spec
INVARIANTS TypeOK PanelIsExact FamilyExplains NoSingleGlitchRecorded
PROPERTY SearchEnds
