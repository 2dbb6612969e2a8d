---------------------------- MODULE OracleProofs ----------------------------
(* What the repair search promises, for every algebra, world and number of  *)
(* misbehaving replays.                                                     *)
EXTENDS Oracle, RepairAlgebraProofs

\* The loop's own facts: a replay pair is open only on a subset not yet
\* recorded; receipts and the open pair are wrong only after misbehaving
\* replays; a panel is computed from a complete set of receipts.
LoopInv ==
  /\ status = "second" => Remaining # {}
  /\ glitches < 2 => Wrong = {}
  /\ status = "second" /\ glitches = 0 => first = Nominal(NextSubset)
  /\ status = "published" =>
       /\ Remaining = {}
       /\ receipts[{}].outcome = "FAILURE"
       /\ panel = [witnesses |-> Minimal(Successes),
                   family |-> TargetFamily(Successes, world.target)]

\* The inductive invariant.
IInv == TypeOK /\ LoopInv

LEMMA AlgebraFacts ==
  ASSUME world \in Worlds
  PROVE  /\ AtomNames \subseteq Names /\ IsFiniteSet(AtomNames)
         /\ Subsets \subseteq SUBSET Names
         /\ world.target \in [Names -> Targets]
         /\ \A w \in Subsets : Nominal(w) \in Results
<1>1. world.names \in Seq(Names) /\ world.target \in [Names -> Targets]
  BY OracleAssumption DEF Worlds
<1>2. AtomNames \subseteq Names
  BY <1>1 DEF AtomNames
<1>3. IsFiniteSet(AtomNames)
  BY <1>2, OracleAssumption, FS_Subset
<1>4. world.outcome \in [SUBSET Names -> Outcome]
  BY DEF Worlds
<1>5. Subsets \subseteq SUBSET Names
  BY <1>2 DEF Subsets
<1>6. QED
  BY <1>1, <1>2, <1>3, <1>4, <1>5 DEF Nominal, Results, Outcome

\* While a subset remains there is a smallest one: NextSubset is well defined.
LEMMA NextSubsetRemains ==
  ASSUME world \in Worlds, Remaining # {}
  PROVE  NextSubset \in Remaining
<1> DEFINE Sizes == {Cardinality(w) : w \in Remaining}
<1>1. \A w \in Remaining : Cardinality(w) \in Nat
  BY AlgebraFacts, FS_Subset, FS_CardinalityType DEF Remaining, Subsets
<1>2. Sizes \subseteq Nat /\ Sizes # {}
  BY <1>1
<1>3. PICK n \in Sizes : \A k \in Sizes : n <= k
  <2> HIDE DEF Sizes
  <2>1. QED BY <1>2, LeastNatural
<1>5. PICK w \in Remaining : n = Cardinality(w)
  BY <1>3
<1>6. \A v \in Remaining : Cardinality(w) <= Cardinality(v)
  BY <1>3, <1>5
<1>7. QED
  BY <1>5, <1>6 DEF NextSubset
-----------------------------------------------------------------------------

LEMMA InitIInv == Init => IInv
<1> SUFFICES ASSUME Init PROVE IInv
  OBVIOUS
<1>1. DOMAIN receipts = {}
  BY DEF Init
<1>2. TypeOK
  BY <1>1, OracleAssumption DEF Init, TypeOK, NoResult, NoPanel, Results, Outcome
<1>3. LoopInv
  BY <1>1, OracleAssumption DEF Init, LoopInv, Wrong
<1>4. QED
  BY <1>2, <1>3 DEF IInv

\* What a replay leaves behind, whatever is done with its result.
LEMMA ReplayStep ==
  ASSUME IInv, NEW w, NEW r \in Results, NEW after \in {"declared", "changed"},
         Replays(w, r, after)
  PROVE  /\ advertised' \in {"declared", "changed"}
         /\ glitches' \in 0 .. MaxGlitches
         /\ glitches <= glitches'
         /\ r # Nominal(w) => glitches' = glitches + 1
BY OracleAssumption DEF Replays, IInv, TypeOK

\* No step changes the world or the subsets, and a step that keeps the receipts keeps
\* everything computed from them.
LEMMA Derived ==
  ASSUME UNCHANGED world
  PROVE  /\ AtomNames' = AtomNames /\ Subsets' = Subsets
         /\ \A w : Nominal(w)' = Nominal(w)
         /\ UNCHANGED receipts =>
              /\ Remaining' = Remaining /\ NextSubset' = NextSubset
              /\ Wrong' = Wrong /\ Successes' = Successes
<1>1. AtomNames' = AtomNames /\ Subsets' = Subsets
  BY DEF AtomNames, Subsets
<1>2. \A w : Nominal(w)' = Nominal(w)
  BY DEF Nominal
<1>3. ASSUME UNCHANGED receipts
      PROVE  /\ Remaining' = Remaining /\ NextSubset' = NextSubset
             /\ Wrong' = Wrong /\ Successes' = Successes
  <2>1. Remaining' = Remaining
    BY <1>1, <1>3 DEF Remaining
  <2>2. NextSubset' = NextSubset
    BY <2>1, Zenon DEF NextSubset
  <2>3. Wrong' = Wrong
    BY <1>2, <1>3 DEF Wrong
  <2>4. Successes' = Successes
    BY <1>3 DEF Successes
  <2>5. QED BY <2>1, <2>2, <2>3, <2>4
<1>4. QED BY <1>1, <1>2, <1>3

\* A first replay opens the pair of NextSubset.
LEMMA FirstReplayIInv ==
  ASSUME IInv, NEW r \in Results, NEW after \in {"declared", "changed"},
         FirstReplay(r, after)
  PROVE  IInv'
<1>1. UNCHANGED <<world, receipts, panel>> /\ status' = "second" /\ first' = r
  BY DEF FirstReplay
<1>2. Remaining' = Remaining /\ NextSubset' = NextSubset /\ Wrong' = Wrong
  BY <1>1, Derived
<1>3. /\ advertised' \in {"declared", "changed"} /\ glitches' \in 0 .. MaxGlitches
      /\ glitches <= glitches'
      /\ r # Nominal(NextSubset) => glitches' = glitches + 1
  BY ReplayStep DEF FirstReplay
<1>4. TypeOK'
  BY <1>1, <1>3, Derived DEF IInv, TypeOK
<1>5. Nominal(NextSubset)' = Nominal(NextSubset)
  BY <1>1, <1>2 DEF Nominal
<1>6. glitches \in Nat /\ glitches' \in Nat
  BY <1>3, OracleAssumption DEF IInv, TypeOK
<1>7. glitches' = 0 => first' = Nominal(NextSubset)'
  BY <1>1, <1>3, <1>5, <1>6
<1>8. glitches' < 2 => Wrong' = {}
  BY <1>2, <1>3, <1>6 DEF IInv, LoopInv
<1>9. Remaining' # {}
  BY <1>2 DEF FirstReplay
<1>10. LoopInv'
  BY <1>1, <1>7, <1>8, <1>9 DEF LoopInv
<1>11. QED
  BY <1>4, <1>10 DEF IInv

\* A second replay that agrees records the subset.  It records a wrong result only
\* if both replays of the pair misbehaved.
LEMMA ReplayAgreesIInv ==
  ASSUME IInv, NEW r \in Results, NEW after \in {"declared", "changed"},
         ReplayAgrees(r, after)
  PROVE  IInv'
<1> DEFINE s == NextSubset
<1>1. /\ UNCHANGED <<world, first, panel>> /\ status = "second" /\ status' = "first"
      /\ r = first
      /\ receipts' = [w \in DOMAIN receipts \cup {s} |->
                        IF w = s THEN r ELSE receipts[w]]
  BY DEF ReplayAgrees
<1>2. s \in Subsets
  BY <1>1, NextSubsetRemains DEF IInv, LoopInv, TypeOK, Remaining
<1>3. /\ advertised' \in {"declared", "changed"} /\ glitches' \in 0 .. MaxGlitches
      /\ glitches <= glitches'
      /\ r # Nominal(s) => glitches' = glitches + 1
  BY ReplayStep DEF ReplayAgrees
<1>4. glitches \in Nat /\ glitches' \in Nat
  BY <1>3, OracleAssumption DEF IInv, TypeOK
<1>5. DOMAIN receipts' = DOMAIN receipts \cup {s}
  BY <1>1
<1>6. \A w \in DOMAIN receipts' : receipts'[w] = IF w = s THEN r ELSE receipts[w]
  BY <1>1
<1>7. TypeOK'
  <2>1. DOMAIN receipts' \subseteq Subsets' /\ \A w \in DOMAIN receipts' : receipts'[w] \in Results
    BY <1>1, <1>2, <1>5, <1>6, Derived DEF IInv, TypeOK
  <2>2. panel' \in [witnesses : SUBSET Subsets', family : SUBSET SUBSET Targets]
    BY <1>1, Derived DEF IInv, TypeOK
  <2>3. QED
    BY <1>1, <1>3, <2>1, <2>2 DEF IInv, TypeOK
<1>8. ASSUME glitches' < 2 PROVE Wrong' = {}
  <2>1. Wrong = {}
    BY <1>3, <1>4, <1>8 DEF IInv, LoopInv
  <2>2. r = Nominal(s)
    BY <1>1, <1>3, <1>4, <1>8 DEF IInv, LoopInv
  <2>3. \A w : Nominal(w)' = Nominal(w)
    BY <1>1, Derived
  <2>4. \A w \in DOMAIN receipts' : receipts'[w] = Nominal(w)
    BY <1>5, <1>6, <2>1, <2>2 DEF Wrong
  <2>5. QED
    BY <2>3, <2>4 DEF Wrong
<1>9. LoopInv'
  BY <1>1, <1>8 DEF LoopInv
<1>10. QED
  BY <1>7, <1>9 DEF IInv

\* Publishing computes the panel from the complete receipts, which it leaves alone.
LEMMA PublishIInv ==
  ASSUME IInv, Publish
  PROVE  IInv'
<1>1. /\ UNCHANGED <<world, first, receipts, advertised, glitches>>
      /\ status' = "published" /\ Remaining = {} /\ receipts[{}].outcome = "FAILURE"
      /\ panel' = [witnesses |-> Minimal(Successes),
                   family |-> TargetFamily(Successes, world.target)]
  BY DEF Publish
<1>2. /\ Remaining' = Remaining /\ Wrong' = Wrong /\ Successes' = Successes
      /\ Subsets' = Subsets
  BY <1>1, Derived
<1>3. Successes \subseteq Subsets
  BY DEF IInv, TypeOK, Successes
<1>4. Minimal(Successes) \subseteq Subsets
  BY <1>3, MinimalIsAntichain
<1>5. \A w \in Subsets : TargetsOf(w, world.target) \in SUBSET Targets
  BY AlgebraFacts, TargetsInRange DEF IInv, TypeOK
<1>6. TargetFamily(Successes, world.target) \subseteq SUBSET Targets
  BY <1>4, <1>5, FamilyRealised
<1>7. TypeOK'
  BY <1>1, <1>2, <1>4, <1>6 DEF IInv, TypeOK, Ended
<1>8. LoopInv'
  BY <1>1, <1>2 DEF IInv, LoopInv
<1>9. QED
  BY <1>7, <1>8 DEF IInv

\* The remaining steps only end the search, or start it.
LEMMA OtherStepsIInv ==
  ASSUME IInv,
         \/ RejectAlgebra \/ AcceptAlgebra \/ RejectBaseline \/ RejectChangedWorld
         \/ UNCHANGED vars
         \/ \E r \in Results, after \in {"declared", "changed"} : ReplayDiverges(r, after)
  PROVE  IInv'
<1>1. CASE UNCHANGED vars
  <2>1. /\ UNCHANGED <<world, status, first, receipts, advertised, glitches, panel>>
    BY <1>1 DEF vars
  <2>2. /\ Remaining' = Remaining /\ Wrong' = Wrong /\ Successes' = Successes
        /\ Subsets' = Subsets /\ NextSubset' = NextSubset
        /\ \A w : Nominal(w)' = Nominal(w)
    BY <2>1, Derived
  <2>3. TypeOK'
    BY <2>1, <2>2 DEF IInv, TypeOK
  <2>4. Nominal(NextSubset)' = Nominal(NextSubset)
    BY <2>1, <2>2 DEF Nominal
  <2>5. LoopInv'
    BY <2>1, <2>2, <2>4 DEF IInv, LoopInv
  <2>6. QED BY <2>3, <2>5 DEF IInv
<1>2. CASE RejectAlgebra \/ AcceptAlgebra \/ RejectBaseline \/ RejectChangedWorld
  <2>1. /\ UNCHANGED <<world, first, receipts, advertised, glitches, panel>>
        /\ status' \in {"first", "InvalidWorldError", "NonDeterministicWorldError"}
    BY <1>2 DEF RejectAlgebra, AcceptAlgebra, RejectBaseline, RejectChangedWorld
  <2>2. Wrong' = Wrong /\ Subsets' = Subsets
    BY <2>1, Derived
  <2>3. QED
    BY <2>1, <2>2 DEF IInv, TypeOK, LoopInv, Ended
<1>3. CASE \E r \in Results, after \in {"declared", "changed"} : ReplayDiverges(r, after)
  <2>1. PICK r \in Results, after \in {"declared", "changed"} : ReplayDiverges(r, after)
    BY <1>3
  <2>2. /\ UNCHANGED <<world, first, receipts, panel>>
        /\ status' = "NonDeterministicWorldError"
    BY <2>1 DEF ReplayDiverges
  <2>3. /\ advertised' \in {"declared", "changed"} /\ glitches' \in 0 .. MaxGlitches
        /\ glitches <= glitches'
    BY <2>1, ReplayStep DEF ReplayDiverges
  <2>4. Wrong' = Wrong /\ Subsets' = Subsets
    BY <2>2, Derived
  <2>5. glitches \in Nat /\ glitches' \in Nat
    BY <2>3, OracleAssumption DEF IInv, TypeOK
  <2>6. TypeOK'
    BY <2>2, <2>3, <2>4 DEF IInv, TypeOK, Ended
  <2>7. LoopInv'
    BY <2>2, <2>3, <2>4, <2>5 DEF IInv, LoopInv
  <2>8. QED BY <2>6, <2>7 DEF IInv
<1>4. QED BY <1>1, <1>2, <1>3

LEMMA NextIInv == IInv /\ [Next]_vars => IInv'
<1> SUFFICES ASSUME IInv, [Next]_vars PROVE IInv'
  OBVIOUS
<1>1. CASE Replay
  BY <1>1, FirstReplayIInv, ReplayAgreesIInv, OtherStepsIInv DEF Replay
<1>2. CASE Publish
  BY <1>2, PublishIInv
<1>3. CASE ~ Replay /\ ~ Publish
  BY <1>3, OtherStepsIInv DEF Next, Done
<1>4. QED BY <1>1, <1>2, <1>3

-----------------------------------------------------------------------------

\* The inductive invariant holds in every reachable state.
THEOREM OracleInvariant == Spec => []IInv
BY InitIInv, NextIInv, PTL DEF Spec

\* Type correctness of the search.
THEOREM OracleTypeOK == Spec => []TypeOK
<1>1. IInv => TypeOK
  BY DEF IInv
<1>2. QED BY <1>1, OracleInvariant, PTL

\* A wrong receipt takes two misbehaving replays, whatever the algebra.
THEOREM OracleNoSingleGlitch == Spec => []NoSingleGlitchRecorded
<1>1. IInv => NoSingleGlitchRecorded
  BY DEF IInv, LoopInv, NoSingleGlitchRecorded
<1>2. QED BY <1>1, OracleInvariant, PTL

\* Every repair that worked contains a published minimal witness, and its targets
\* include a published target set.
THEOREM OracleExplainsEveryRepair == Spec => []EveryRepairExplained
<1>1. IInv => EveryRepairExplained
  <2>1. SUFFICES ASSUME IInv, status = "published", NEW w \in Successes
                 PROVE  /\ \E m \in panel.witnesses : m \subseteq w
                        /\ \E ts \in panel.family : ts \subseteq TargetsOf(w, world.target)
    BY DEF EveryRepairExplained
  <2>2. panel.witnesses = Minimal(Successes)
        /\ panel.family = TargetFamily(Successes, world.target)
    BY <2>1 DEF IInv, LoopInv
  <2>3. Successes \in SUBSET SUBSET Names /\ world.target \in [Names -> Targets]
    BY <2>1, AlgebraFacts DEF IInv, TypeOK, Successes
  <2>4. \E m \in Minimal(Successes) : m \subseteq w
    BY <2>1, <2>3, MinimalCovers, OracleAssumption
  <2>5. \E ts \in TargetFamily(Successes, world.target) : ts \subseteq TargetsOf(w, world.target)
    BY <2>1, <2>3, FamilyCovers, OracleAssumption
  <2>6. QED
    BY <2>2, <2>4, <2>5
<1>2. QED BY <1>1, OracleInvariant, PTL

\* The published family is an antichain of non-empty target sets, each realised by a
\* minimal witness; doing nothing is never a repair.
THEOREM OracleFamilyIsMinimal == Spec => []FamilyIsMinimal
<1>1. IInv => FamilyIsMinimal
  <2>1. SUFFICES ASSUME IInv, status = "published" PROVE FamilyIsMinimal
    BY DEF FamilyIsMinimal
  <2>2. panel.witnesses = Minimal(Successes)
        /\ panel.family = TargetFamily(Successes, world.target)
        /\ receipts[{}].outcome = "FAILURE"
    BY <2>1 DEF IInv, LoopInv
  <2>3. {} \notin Successes
    BY <2>2 DEF Successes
  <2>4. /\ {} \notin Minimal(Successes)
        /\ {} \notin TargetFamily(Successes, world.target)
    BY <2>3, FamilyNonEmptySets
  <2>5. \A w \in Minimal(Successes), v \in Successes : v \subseteq w => v = w
    BY MinimalIsAntichain
  <2>6. /\ \A ts \in TargetFamily(Successes, world.target) :
             \E w \in Minimal(Successes) : ts = TargetsOf(w, world.target)
        /\ \A s, t \in TargetFamily(Successes, world.target) : s \subseteq t => s = t
    BY FamilyRealised
  <2>7. /\ {} \notin panel.witnesses
        /\ \A w \in panel.witnesses, v \in Successes : v \subseteq w => v = w
    BY <2>2, <2>4, <2>5, Zenon
  <2>8. /\ \A s, t \in panel.family : s \subseteq t => s = t
        /\ \A ts \in panel.family : \E w \in panel.witnesses : ts = TargetsOf(w, world.target)
    BY <2>2, <2>6, Zenon
  <2>9. \A ts \in panel.family : ts # {}
    BY <2>2, <2>4, Zenon
  <2>10. QED
    BY <2>7, <2>8, <2>9 DEF FamilyIsMinimal
<1>2. QED BY <1>1, OracleInvariant, PTL

\* The published family explains every repair that worked, without redundancy.
THEOREM OracleFamilyExplains == Spec => []FamilyExplains
<1>1. EveryRepairExplained /\ FamilyIsMinimal => FamilyExplains
  BY DEF FamilyExplains
<1>2. QED BY <1>1, OracleExplainsEveryRepair, OracleFamilyIsMinimal, PTL

\* A world none of whose replays misbehaves gets exactly its own profile.
THEOREM OraclePanelIsExact == Spec => []PanelIsExact
<1>1. IInv => PanelIsExact
  <2> DEFINE truth == {w \in Subsets : world.outcome[w] = "SUCCESS"}
  <2>1. SUFFICES ASSUME IInv, status = "published", glitches = 0
                 PROVE  /\ panel.witnesses = Minimal(truth)
                        /\ panel.family = TargetFamily(truth, world.target)
                        /\ \A w \in Subsets : w \in DOMAIN receipts /\ receipts[w] = Nominal(w)
    BY DEF PanelIsExact
  <2>2. panel.witnesses = Minimal(Successes)
        /\ panel.family = TargetFamily(Successes, world.target)
        /\ Remaining = {} /\ Wrong = {}
    BY <2>1 DEF IInv, LoopInv
  <2>3. DOMAIN receipts = Subsets
    BY <2>1, <2>2 DEF Remaining, IInv, TypeOK
  <2>4. \A w \in Subsets : receipts[w] = Nominal(w)
    BY <2>2, <2>3 DEF Wrong
  <2>5. \A w : Nominal(w).outcome = world.outcome[w]
    BY DEF Nominal
  <2>6. Successes = truth
    BY <2>3, <2>4, <2>5 DEF Successes
  <2>7. QED
    BY <2>2, <2>3, <2>4, <2>6
<1>2. QED BY <1>1, OracleInvariant, PTL

=============================================================================
