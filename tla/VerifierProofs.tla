---------------------------- MODULE VerifierProofs ----------------------------
(* What a verification establishes, for every family of sealed sources,      *)
(* every algebra, every batch and any number of misbehaving executions.      *)
EXTENDS Verifier, RepairAlgebraProofs

-----------------------------------------------------------------------------
(* The choices of the next source, mask and read are among what is left.     *)

LEMMA LeastIsMember ==
  ASSUME NEW set, set \subseteq Nat, set # {}
  PROVE  Least(set) \in set
BY LeastNatural DEF Least

LEMMA GivenFacts ==
  ASSUME given \in Scenarios
  PROVE  /\ behaviour \in [Commitments -> Behaviours]
         /\ anchor \subseteq Commitments /\ anchor \subseteq Nat
BY ScenarioAssumption, VerifierAssumption DEF behaviour, anchor

LEMMA SourceIsLeft ==
  ASSUME given \in Scenarios, Opened = anchor, DOMAIN panels \subseteq anchor, Opened # DOMAIN panels
  PROVE  Source \in anchor \ DOMAIN panels
<1> DEFINE left == Opened \ DOMAIN panels
<1>1. left \subseteq Nat /\ left # {}
  BY GivenFacts
<1>2. Least(left) \in left
  BY <1>1, LeastIsMember
<1>3. QED BY <1>2 DEF Source

\* Every witness has a size, so some mask that is left has the fewest bits.
LEMMA NextMaskIsLeft ==
  ASSUME DOMAIN receipts[Source] \subseteq Masks, DOMAIN receipts[Source] # Masks
  PROVE  NextMask \in Masks \ DOMAIN receipts[Source]
<1> DEFINE left == Masks \ DOMAIN receipts[Source]
           sizes == {Cardinality(Witness(m)) : m \in left}
<1>1. \A m \in left : Cardinality(Witness(m)) \in Nat
  <2>1. \A m : Witness(m) \subseteq Atoms
    BY DEF Witness, Atoms
  <2>2. \A m : IsFiniteSet(Witness(m))
    BY <2>1, VerifierAssumption, FS_Subset
  <2>3. QED BY <2>2, FS_CardinalityType
<1>2. sizes \subseteq Nat /\ sizes # {}
  BY <1>1
<1>3. PICK n \in sizes : \A k \in sizes : n <= k
  BY <1>2, LeastNatural
<1>4. PICK m \in left : n = Cardinality(Witness(m))
  BY <1>3
<1>5. \A k \in left : Cardinality(Witness(m)) <= Cardinality(Witness(k))
  BY <1>3, <1>4
<1>6. QED BY <1>4, <1>5 DEF NextMask

-----------------------------------------------------------------------------
(* The inductive invariant. *)

\* Past the entry, the openings are the committed family and panels are of its sources; the
\* probes are read, and certificates issued, when every source has its panel.
Request ==
  /\ DOMAIN receipts = anchor
  /\ status \in {"replay", "probe", "certified"} => Opened = anchor
  /\ status \in {"probe", "certified"} => DOMAIN panels = anchor

\* What the loop has established of each source so far.
Established ==
  /\ \A c \in anchor : \A m \in DOMAIN receipts[c] : receipts[c][m].fulfils /\ receipts[c][m].declared
  /\ \A c \in DOMAIN panels : DOMAIN receipts[c] = Masks /\ behaviour[c].decodes

\* While fewer than two executions or reads misbehaved, every receipt and every probe
\* value is what the sealed source really does: whatever the double execution lets through.
ReceiptsAreNominal ==
  glitches < 2 =>
    /\ \A c \in anchor : \A m \in DOMAIN receipts[c] :
         receipts[c][m] = behaviour[c].artifact[Witness(m)]
    /\ \A x \in DOMAIN values : values[x] = behaviour[x[1]].probe[x[2]]

IInv == TypeOK /\ Request /\ Established /\ ReceiptsAreNominal

LEMMA InitIInv == Init => IInv
<1> SUFFICES ASSUME Init PROVE IInv
  OBVIOUS
<1>1. /\ given \in Scenarios /\ status = "new" /\ glitches = 0 /\ 0 \in 0 .. MaxGlitches
      /\ DOMAIN receipts = anchor /\ \A c \in anchor : DOMAIN receipts[c] = {}
      /\ DOMAIN panels = {} /\ DOMAIN values = {} /\ certificates = <<>>
  BY VerifierAssumption DEF Init
<1>2. DOMAIN certificates = {}
  BY <1>1
<1>3. TypeOK
  BY <1>1, <1>2 DEF TypeOK
<1>4. Request /\ Established /\ ReceiptsAreNominal
  BY <1>1 DEF Request, Established, ReceiptsAreNominal
<1>5. QED BY <1>3, <1>4 DEF IInv

\* A refusal of any kind keeps what was established; it may count misbehaviour.
Refusal ==
  /\ status' = "VerificationError"
  /\ glitches' \in 0 .. MaxGlitches /\ glitches <= glitches'
  /\ UNCHANGED <<given, receipts, panels, values, certificates>>

LEMMA GlitchesCount ==
  ASSUME TypeOK, NEW first, NEW second, NEW nominal, Twice(first, second, nominal)
  PROVE  /\ glitches' \in 0 .. MaxGlitches /\ glitches <= glitches'
         /\ first = second /\ glitches' < 2 => first = nominal
BY VerifierAssumption DEF TypeOK, Twice, Misbehaves

LEMMA RefusalsRefuse ==
  ASSUME TypeOK,
         \/ RefuseRequest \/ RejectSource \/ ExecutionFails \/ RejectBaseline \/ RejectBatch
         \/ \E r, s \in Artifacts : ExecutionDiverges(r, s)
         \/ \E v, w \in ProbeValues : ProbeDiverges(v, w)
  PROVE  Refusal
<1>1. glitches \in 0 .. MaxGlitches /\ MaxGlitches \in Nat
  BY VerifierAssumption DEF TypeOK
<1>2. CASE RefuseRequest
  BY <1>1, <1>2 DEF RefuseRequest, Refusal
<1>3. CASE RejectSource
  BY <1>1, <1>3 DEF RejectSource, Refusal
<1>4. CASE ExecutionFails
  BY <1>1, <1>4 DEF ExecutionFails, Refusal
<1>5. CASE RejectBaseline
  BY <1>1, <1>5 DEF RejectBaseline, Refusal
<1>6. CASE RejectBatch
  BY <1>1, <1>6 DEF RejectBatch, Refusal
<1>7. ASSUME NEW r \in Artifacts, NEW s \in Artifacts, ExecutionDiverges(r, s) PROVE Refusal
  BY <1>7, GlitchesCount DEF ExecutionDiverges, Refusal
<1>8. ASSUME NEW v \in ProbeValues, NEW w \in ProbeValues, ProbeDiverges(v, w) PROVE Refusal
  BY <1>8, GlitchesCount DEF ProbeDiverges, Refusal
<1>9. QED BY <1>2, <1>3, <1>4, <1>5, <1>6, <1>7, <1>8

LEMMA RefusalIInv ==
  ASSUME IInv, Refusal
  PROVE  IInv'
<1>1. given' = given /\ batch' = batch /\ anchor' = anchor /\ behaviour' = behaviour /\ Opened' = Opened
  BY DEF Refusal, batch, anchor, behaviour, Opened
<1>2. glitches' < 2 => glitches < 2
  BY VerifierAssumption DEF Refusal, IInv, TypeOK
<1>3. TypeOK'
  BY <1>1 DEF IInv, TypeOK, Refusal, Reads, Requested
<1>4. Request' /\ Established'
  BY <1>1 DEF IInv, Request, Established, Refusal
<1>5. ReceiptsAreNominal'
  BY <1>1, <1>2 DEF IInv, ReceiptsAreNominal, Refusal
<1>6. QED BY <1>3, <1>4, <1>5 DEF IInv

LEMMA ExecuteIInv ==
  ASSUME IInv, NEW r \in Artifacts, NEW s \in Artifacts, Execute(r, s)
  PROVE  IInv'
<1>1. /\ UNCHANGED <<given, status, panels, values, certificates>>
      /\ anchor' = anchor /\ behaviour' = behaviour /\ Opened' = Opened /\ batch' = batch
      /\ status = "replay" /\ behaviour[Source].decodes
      /\ r = s /\ r.fulfils /\ r.declared
  BY DEF Execute, Accepted, Executing, Decoded, Verifiable, Replaying, anchor, behaviour, Opened, batch
<1>2. given \in Scenarios /\ DOMAIN panels \subseteq anchor
  BY DEF IInv, TypeOK
<1>3. Source \in anchor \ DOMAIN panels
  BY <1>1, <1>2, SourceIsLeft DEF IInv, Request, Execute, Executing, Decoded, Replaying
<1>4. NextMask \in Masks \ DOMAIN receipts[Source]
  <2>1. DOMAIN receipts[Source] \subseteq Masks
    BY <1>3 DEF IInv, TypeOK, Request
  <2>2. QED BY <2>1, NextMaskIsLeft DEF Execute, Executing
<1>5. /\ glitches' \in 0 .. MaxGlitches /\ glitches <= glitches'
      /\ glitches' < 2 => r = behaviour[Source].artifact[Witness(NextMask)]
  BY <1>1, GlitchesCount DEF Execute, IInv
<1>6. /\ DOMAIN receipts' = anchor
      /\ \A c \in anchor : c # Source => receipts'[c] = receipts[c]
      /\ DOMAIN receipts'[Source] = DOMAIN receipts[Source] \cup {NextMask}
      /\ receipts'[Source][NextMask] = r
      /\ \A m \in DOMAIN receipts[Source] : receipts'[Source][m] = receipts[Source][m]
  BY <1>3, <1>4 DEF Execute, IInv, Request
<1>7. \A c \in anchor : \A m \in DOMAIN receipts'[c] :
        \/ m \in DOMAIN receipts[c] /\ receipts'[c][m] = receipts[c][m]
        \/ c = Source /\ m = NextMask /\ receipts'[c][m] = r
  BY <1>6
<1>8. TypeOK'
  <2>1. \A c \in DOMAIN receipts' : \A m \in DOMAIN receipts'[c] :
          c \in Commitments /\ m \in Masks /\ receipts'[c][m] \in Artifacts
    BY <1>2, <1>4, <1>6, <1>7, GivenFacts DEF IInv, TypeOK, Request
  <2>2. QED BY <1>1, <1>5, <2>1 DEF IInv, TypeOK, Reads, Requested
<1>9. Request'
  BY <1>1, <1>6 DEF IInv, Request
<1>10. Established'
  <2>1. \A c \in DOMAIN panels : c \in anchor /\ c # Source
    BY <1>2, <1>3
  <2>2. QED BY <1>1, <1>6, <1>7, <2>1 DEF IInv, Established
<1>11. ReceiptsAreNominal'
  <2>1. SUFFICES ASSUME glitches' < 2 PROVE ReceiptsAreNominal'
    BY DEF ReceiptsAreNominal
  <2>2. glitches < 2
    BY <1>5, <2>1, VerifierAssumption DEF IInv, TypeOK
  <2>3. QED BY <1>1, <1>5, <1>7, <2>1, <2>2 DEF IInv, ReceiptsAreNominal
<1>12. QED BY <1>8, <1>9, <1>10, <1>11 DEF IInv

LEMMA VerifyPanelIInv ==
  ASSUME IInv, VerifyPanel
  PROVE  IInv'
<1>1. /\ UNCHANGED <<given, status, receipts, values, certificates, glitches>>
      /\ anchor' = anchor /\ behaviour' = behaviour /\ Opened' = Opened /\ batch' = batch
      /\ status = "replay" /\ behaviour[Source].decodes /\ DOMAIN receipts[Source] = Masks
  BY DEF VerifyPanel, Replayed, Decoded, Verifiable, Replaying, anchor, behaviour, Opened, batch
<1>2. Source \in anchor
  BY <1>1, SourceIsLeft DEF IInv, TypeOK, Request, VerifyPanel, Replayed, Decoded, Replaying
<1>3. /\ DOMAIN panels' = DOMAIN panels \cup {Source}
      /\ panels'[Source] = PanelFamily(Source)
      /\ \A c \in DOMAIN panels : c # Source => panels'[c] = panels[c]
  BY DEF VerifyPanel
<1>4. PanelFamily(Source) \subseteq SUBSET Targets
  <2>1. \A m : Witness(m) \subseteq Atoms
    BY DEF Witness, Atoms
  <2>2. \A m : {target[a] : a \in Witness(m)} \subseteq Targets
    BY <2>1, VerifierAssumption
  <2>3. QED BY <2>2 DEF PanelFamily
<1>5. TypeOK'
  <2>1. DOMAIN panels' \subseteq anchor /\ \A c \in DOMAIN panels' : panels'[c] \subseteq SUBSET Targets
    BY <1>2, <1>3, <1>4 DEF IInv, TypeOK
  <2>2. QED BY <1>1, <2>1 DEF IInv, TypeOK, Reads, Requested
<1>6. Request' /\ Established' /\ ReceiptsAreNominal'
  BY <1>1, <1>3 DEF IInv, Request, Established, ReceiptsAreNominal
<1>7. QED BY <1>5, <1>6 DEF IInv

LEMMA ProbeIInv ==
  ASSUME IInv, NEW v \in ProbeValues, NEW w \in ProbeValues, Probe(v, w)
  PROVE  IInv'
<1>1. /\ UNCHANGED <<given, status, receipts, panels, certificates>>
      /\ anchor' = anchor /\ behaviour' = behaviour /\ Opened' = Opened /\ batch' = batch
      /\ v = w /\ Opened = anchor
  BY DEF Probe, Probing, anchor, behaviour, Opened, batch, IInv, Request
<1>2. NextRead \in Reads
  <2>1. DOMAIN values \subseteq Reads /\ Opened \X Requested = Reads /\ Reads # DOMAIN values
    BY <1>1 DEF IInv, TypeOK, Reads, Probe, Probing
  <2>2. \E x : x \in Reads \ DOMAIN values
    BY <2>1
  <2>3. QED BY <2>1, <2>2 DEF NextRead
<1>3. /\ glitches' \in 0 .. MaxGlitches /\ glitches <= glitches'
      /\ glitches' < 2 => v = behaviour[NextRead[1]].probe[NextRead[2]]
  BY <1>1, GlitchesCount DEF Probe, IInv
<1>4. /\ DOMAIN values' = DOMAIN values \cup {NextRead}
      /\ \A x \in DOMAIN values' :
           \/ x \in DOMAIN values /\ values'[x] = values[x]
           \/ x = NextRead /\ values'[x] = v
  BY DEF Probe
<1>5. TypeOK'
  <2>1. Reads' = Reads
    BY <1>1 DEF Reads, Requested
  <2>2. DOMAIN values' \subseteq Reads /\ \A x \in DOMAIN values' : values'[x] \in ProbeValues
    BY <1>2, <1>4 DEF IInv, TypeOK
  <2>3. QED BY <1>1, <1>3, <2>1, <2>2 DEF IInv, TypeOK
<1>6. Request' /\ Established'
  BY <1>1 DEF IInv, Request, Established
<1>7. ReceiptsAreNominal'
  <2>1. SUFFICES ASSUME glitches' < 2 PROVE ReceiptsAreNominal'
    BY DEF ReceiptsAreNominal
  <2>2. glitches < 2
    BY <1>3, <2>1, VerifierAssumption DEF IInv, TypeOK
  <2>3. QED BY <1>1, <1>3, <1>4, <2>1, <2>2 DEF IInv, ReceiptsAreNominal
<1>8. QED BY <1>5, <1>6, <1>7 DEF IInv

\* Entering, going over to the probes and certifying change none of the tables.
LEMMA OtherIInv ==
  ASSUME IInv, AcceptRequest \/ StartProbes \/ Certify \/ Done \/ UNCHANGED vars
  PROVE  IInv'
<1>1. /\ UNCHANGED <<given, receipts, panels, values, glitches>>
      /\ anchor' = anchor /\ behaviour' = behaviour /\ Opened' = Opened /\ batch' = batch
  BY DEF AcceptRequest, StartProbes, Certify, Done, vars, anchor, behaviour, Opened, batch
<1>2. Established' /\ ReceiptsAreNominal'
  BY <1>1 DEF IInv, Established, ReceiptsAreNominal
<1>3. Reads' = Reads
  BY <1>1 DEF Reads, Requested
<1>4. ASSUME status' \in {"new", "replay", "probe", "certified", "VerificationError"},
             DOMAIN certificates' \in {{}, DOMAIN batch}
      PROVE  TypeOK'
  BY <1>1, <1>3, <1>4 DEF IInv, TypeOK
<1>5. CASE AcceptRequest
  <2>1. status' = "replay" /\ certificates' = certificates /\ Opened = anchor
    BY <1>5 DEF AcceptRequest, Acceptable
  <2>2. QED BY <1>1, <1>2, <1>4, <2>1 DEF IInv, TypeOK, Request
<1>6. CASE StartProbes
  <2>1. status = "replay" /\ status' = "probe" /\ certificates' = certificates /\ Opened = DOMAIN panels
    BY <1>6 DEF StartProbes
  <2>2. QED BY <1>1, <1>2, <1>4, <2>1 DEF IInv, TypeOK, Request
<1>7. CASE Certify
  <2>1. DOMAIN certificates' = DOMAIN batch /\ status = "probe" /\ status' = "certified"
    BY <1>7 DEF Certify, Derivable
  <2>2. QED BY <1>1, <1>2, <1>4, <2>1 DEF IInv, Request
<1>8. CASE Done \/ UNCHANGED vars
  <2>1. UNCHANGED <<status, certificates>>
    BY <1>8 DEF Done, vars
  <2>2. TypeOK'
    BY <1>1, <1>4, <2>1 DEF IInv, TypeOK
  <2>3. QED BY <1>1, <1>2, <2>1, <2>2 DEF IInv, Request
<1>9. QED BY <1>5, <1>6, <1>7, <1>8

LEMMA NextIInv == IInv /\ [Next]_vars => IInv'
<1>1. SUFFICES ASSUME IInv, [Next]_vars PROVE IInv'
  OBVIOUS
<1>2. CASE Executions
  <2>1. PICK r \in Artifacts, s \in Artifacts : Execute(r, s) \/ ExecutionDiverges(r, s)
    BY <1>2 DEF Executions
  <2>2. CASE Execute(r, s)
    BY <1>1, <2>2, ExecuteIInv
  <2>3. CASE ExecutionDiverges(r, s)
    BY <1>1, <2>3, RefusalsRefuse, RefusalIInv DEF IInv
  <2>4. QED BY <2>1, <2>2, <2>3
<1>3. CASE ProbeReads
  <2>1. PICK v \in ProbeValues, w \in ProbeValues : Probe(v, w) \/ ProbeDiverges(v, w)
    BY <1>3 DEF ProbeReads
  <2>2. CASE Probe(v, w)
    BY <1>1, <2>2, ProbeIInv
  <2>3. CASE ProbeDiverges(v, w)
    BY <1>1, <2>3, RefusalsRefuse, RefusalIInv DEF IInv
  <2>4. QED BY <2>1, <2>2, <2>3
<1>4. CASE VerifyPanel
  BY <1>1, <1>4, VerifyPanelIInv
<1>5. CASE RefuseRequest \/ RejectSource \/ ExecutionFails \/ RejectBaseline \/ RejectBatch
  BY <1>1, <1>5, RefusalsRefuse, RefusalIInv DEF IInv
<1>6. CASE AcceptRequest \/ StartProbes \/ Certify \/ Done \/ UNCHANGED vars
  BY <1>1, <1>6, OtherIInv
<1>7. QED BY <1>1, <1>2, <1>3, <1>4, <1>5, <1>6 DEF Next

THEOREM VerifierInvariant == Spec => []IInv
<1>1. QED BY InitIInv, NextIInv, PTL DEF Spec

\* Whatever is submitted and however executions misbehave, the verifier's tables are of the
\* committed family, and certificates come for the whole batch or not at all.
THEOREM VerifierTypeOK == Spec => []TypeOK
<1>1. IInv => TypeOK
  BY DEF IInv
<1>2. QED BY <1>1, VerifierInvariant, PTL

\* A certificate rests on the whole committed family: every source opened under the pinned
\* declaration, every mask executed, nothing undeclared read.
THEOREM VerifierNothingWithheld == Spec => []NothingWithheld
<1>1. IInv => NothingWithheld
  <2>1. SUFFICES ASSUME IInv, status = "certified", NEW c \in anchor
                 PROVE  /\ c \in Opened /\ behaviour[c].decodes /\ DOMAIN receipts[c] = Masks
                        /\ \A m \in Masks : receipts[c][m].fulfils /\ receipts[c][m].declared
    BY DEF NothingWithheld
  <2>2. c \in Opened /\ c \in DOMAIN panels
    BY <2>1 DEF IInv, Request
  <2>3. behaviour[c].decodes /\ DOMAIN receipts[c] = Masks
    BY <2>1, <2>2 DEF IInv, Established
  <2>4. QED BY <2>1, <2>2, <2>3 DEF IInv, Established
<1>2. QED BY <1>1, VerifierInvariant, PTL

\* It takes two misbehaving executions of one mask, or reads of one probe, to get anything
\* into the tables that the sealed source does not really do.
THEOREM VerifierReceiptsNominal == Spec => []ReceiptsAreNominal
<1>1. IInv => ReceiptsAreNominal
  BY DEF IInv
<1>2. QED BY <1>1, VerifierInvariant, PTL

-----------------------------------------------------------------------------
(* The mask arithmetic: the masks are the subsets of the atoms, and covering *)
(* one another is including one another.                                     *)

LEMMA WitnessIsSubset ==
  ASSUME NEW m
  PROVE  Witness(m) \in SUBSET Atoms
BY DEF Witness, Atoms

LEMMA ZeroIsEmpty == Zero \in Masks /\ Witness(Zero) = {}
BY DEF Zero, Masks, Witness

\* Atom names are distinct, so a bit is set exactly when its atom is in the witness.
LEMMA BitIsMember ==
  ASSUME NEW m, NEW i \in DOMAIN AtomList
  PROVE  m[i] = 1 <=> AtomList[i] \in Witness(m)
BY VerifierAssumption DEF Witness

LEMMA EverySubsetHasItsMask ==
  ASSUME NEW s \in SUBSET Atoms
  PROVE  \E m \in Masks : Witness(m) = s
<1> DEFINE m == [i \in DOMAIN AtomList |-> IF AtomList[i] \in s THEN 1 ELSE 0]
<1>1. m \in Masks
  BY DEF Masks
<1>2. \A i \in DOMAIN AtomList : m[i] = 1 <=> AtomList[i] \in s
  OBVIOUS
<1>3. Witness(m) = s
  BY <1>2 DEF Witness, Atoms
<1>4. QED BY <1>1, <1>3

LEMMA MasksDiffer ==
  ASSUME NEW m \in Masks, NEW o \in Masks, Witness(m) = Witness(o)
  PROVE  m = o
<1>1. \A i \in DOMAIN AtomList : m[i] = 1 <=> o[i] = 1
  BY BitIsMember
<1>2. \A i \in DOMAIN AtomList : m[i] \in {0, 1} /\ o[i] \in {0, 1}
  BY DEF Masks
<1>3. \A i \in DOMAIN AtomList : m[i] = o[i]
  BY <1>1, <1>2
<1>4. QED BY <1>3 DEF Masks

LEMMA CoversIsInclusion ==
  ASSUME NEW m, NEW o
  PROVE  Covers(m, o) <=> Witness(o) \subseteq Witness(m)
<1>1. \A i \in DOMAIN AtomList : /\ m[i] = 1 <=> AtomList[i] \in Witness(m)
                                 /\ o[i] = 1 <=> AtomList[i] \in Witness(o)
  BY BitIsMember
<1>2. \A x \in Witness(o) : \E i \in DOMAIN AtomList : x = AtomList[i]
  BY DEF Witness
<1>3. QED BY <1>1, <1>2 DEF Covers

\* On receipts that are what the sealed source does, the verifier's bit tests compute the
\* target family of the repair algebra.
LEMMA PanelIsTrue ==
  ASSUME NEW c, DOMAIN receipts[c] = Masks,
         \A m \in Masks : receipts[c][m] = behaviour[c].artifact[Witness(m)]
  PROVE  PanelFamily(c) = TrueFamily(c)
<1> DEFINE successes == {s \in SUBSET Atoms : behaviour[c].artifact[s].outcome = "SUCCESS"}
           projected == {{target[a] : a \in Witness(m)} : m \in MinimalMasks(c)}
           reference == {TargetsOf(w, target) : w \in Minimal(successes)}
<1>1. \A m \in Masks : m \in SuccessfulMasks(c) <=> Witness(m) \in successes
  BY WitnessIsSubset DEF SuccessfulMasks
<1>2. SuccessfulMasks(c) \subseteq Masks
  BY DEF SuccessfulMasks
<1>3. \A m \in MinimalMasks(c) : Witness(m) \in Minimal(successes)
  <2>1. SUFFICES ASSUME NEW m \in MinimalMasks(c), NEW s \in successes, s \subseteq Witness(m)
                 PROVE  s = Witness(m)
    BY <1>1, <1>2 DEF MinimalMasks, Minimal
  <2>2. PICK o \in Masks : Witness(o) = s
    BY EverySubsetHasItsMask
  <2>3. o \in SuccessfulMasks(c) /\ Covers(m, o)
    BY <1>1, <2>1, <2>2, CoversIsInclusion
  <2>4. QED BY <2>2, <2>3 DEF MinimalMasks
<1>4. \A w \in Minimal(successes) : \E m \in MinimalMasks(c) : Witness(m) = w
  <2>1. SUFFICES ASSUME NEW w \in Minimal(successes) PROVE \E m \in MinimalMasks(c) : Witness(m) = w
    OBVIOUS
  <2>2. w \in successes /\ \A v \in successes : v \subseteq w => v = w
    BY DEF Minimal
  <2>3. PICK m \in Masks : Witness(m) = w
    BY <2>2, EverySubsetHasItsMask
  <2>4. m \in SuccessfulMasks(c)
    BY <1>1, <2>2, <2>3
  <2>5. ASSUME NEW o \in SuccessfulMasks(c), o # m PROVE ~ Covers(m, o)
    <3>1. o \in Masks /\ Witness(o) \in successes
      BY <1>1, <1>2
    <3>2. Witness(o) # w
      BY <2>3, <2>5, <3>1, MasksDiffer
    <3>3. QED BY <2>2, <2>3, <3>1, <3>2, CoversIsInclusion
  <2>6. QED BY <2>3, <2>4, <2>5 DEF MinimalMasks
<1>5. projected = reference
  <2>1. \A w : TargetsOf(w, target) = {target[a] : a \in w}
    BY DEF TargetsOf
  <2>2. QED BY <1>3, <1>4, <2>1
<1>6. PanelFamily(c) = {ts \in projected : \A other \in projected : other \subseteq ts => other = ts}
  BY DEF PanelFamily
<1>7. TrueFamily(c) = {ts \in reference : \A other \in reference : other \subseteq ts => other = ts}
  BY DEF TrueFamily, TargetFamily, Minimal
<1>8. QED BY <1>5, <1>6, <1>7

-----------------------------------------------------------------------------
(* From the tables to the certificates. *)

\* A request that got past the entry was acceptable, a panel is computed from all receipts
\* of its source, and certificates are derived from complete tables, one for each record.
Concluded ==
  /\ status \in {"replay", "probe", "certified"} => Acceptable
  /\ \A c \in DOMAIN panels : panels[c] = PanelFamily(c) /\ receipts[c][Zero].outcome = "FAILURE"
  /\ status = "certified" =>
       /\ DOMAIN values = Opened \X Requested
       /\ Reproduced
       /\ certificates = [i \in DOMAIN batch |-> Derive(batch[i])]

LEMMA InitConcluded == Init => Concluded
BY DEF Init, Concluded

LEMMA NextConcluded == IInv /\ Concluded /\ [Next]_vars => Concluded'
<1> SUFFICES ASSUME IInv, Concluded, [Next]_vars PROVE Concluded'
  OBVIOUS
<1>1. UNCHANGED given => /\ Acceptable' = Acceptable /\ Opened' = Opened
                         /\ batch' = batch /\ Requested' = Requested /\ anchor' = anchor
                         /\ behaviour' = behaviour
  BY DEF Acceptable, Preflighted, Opened, Requested, batch, anchor, behaviour
<1>2. ASSUME UNCHANGED <<given, panels, receipts>>, status' \in {"replay", "probe"} => status = status' \/ Acceptable,
             status' # "certified"
      PROVE  Concluded'
  <2>1. \A c \in DOMAIN panels : PanelFamily(c)' = PanelFamily(c)
    BY <1>2 DEF PanelFamily, MinimalMasks, SuccessfulMasks
  <2>2. QED BY <1>1, <1>2, <2>1 DEF Concluded
<1>3. CASE Executions
  <2>1. PICK r \in Artifacts, s \in Artifacts : Execute(r, s) \/ ExecutionDiverges(r, s)
    BY <1>3 DEF Executions
  <2>2. CASE Execute(r, s)
    <3>1. /\ UNCHANGED <<given, status, panels, values, certificates>>
          /\ status = "replay" /\ Opened = anchor /\ Opened # DOMAIN panels
      BY <2>2 DEF Execute, Executing, Decoded, Replaying, IInv, Request
    <3>2. Source \in anchor \ DOMAIN panels
      BY <3>1, SourceIsLeft DEF IInv, TypeOK
    <3>3. \A c \in DOMAIN panels : receipts'[c] = receipts[c]
      BY <2>2, <3>2 DEF Execute, IInv, Request, TypeOK
    <3>4. ASSUME NEW c \in DOMAIN panels PROVE PanelFamily(c)' = PanelFamily(c)
      <4>1. SuccessfulMasks(c)' = SuccessfulMasks(c)
        BY <3>3 DEF SuccessfulMasks
      <4>2. MinimalMasks(c)' = MinimalMasks(c)
        BY <4>1 DEF MinimalMasks
      <4>3. QED BY <4>2 DEF PanelFamily
    <3>5. QED BY <1>1, <3>1, <3>3, <3>4 DEF Concluded
  <2>3. CASE ExecutionDiverges(r, s)
    BY <1>2, <2>3 DEF ExecutionDiverges
  <2>4. QED BY <2>1, <2>2, <2>3
<1>4. CASE VerifyPanel
  <2>1. UNCHANGED <<given, status, receipts>> /\ status = "replay"
    BY <1>4 DEF VerifyPanel, Replayed, Decoded, Replaying
  <2>2. \A c : PanelFamily(c)' = PanelFamily(c)
    BY <2>1 DEF PanelFamily, MinimalMasks, SuccessfulMasks
  <2>3. \A c \in DOMAIN panels' : panels'[c] = PanelFamily(c) /\ receipts[c][Zero].outcome = "FAILURE"
    BY <1>4 DEF VerifyPanel, Concluded
  <2>4. QED BY <1>1, <2>1, <2>2, <2>3 DEF Concluded
<1>5. CASE ProbeReads
  <2>1. PICK v \in ProbeValues, w \in ProbeValues : Probe(v, w) \/ ProbeDiverges(v, w)
    BY <1>5 DEF ProbeReads
  <2>2. QED BY <1>2, <2>1 DEF Probe, ProbeDiverges, Probing
<1>6. CASE AcceptRequest
  BY <1>2, <1>6 DEF AcceptRequest
<1>7. CASE StartProbes
  BY <1>2, <1>7 DEF StartProbes, Concluded
<1>8. CASE Certify
  <2>1. /\ UNCHANGED <<given, receipts, panels, values, glitches>>
        /\ status = "probe" /\ Opened \X Requested = DOMAIN values /\ Reproduced
        /\ certificates' = [i \in DOMAIN batch |-> Derive(batch[i])]
    BY <1>8 DEF Certify, Derivable
  <2>2. \A c : PanelFamily(c)' = PanelFamily(c)
    BY <2>1 DEF PanelFamily, MinimalMasks, SuccessfulMasks
  <2>3. \A e : CompatibleWith(e)' = CompatibleWith(e)
    BY <2>1 DEF CompatibleWith, Matches
  <2>4. \A e : Derive(e)' = Derive(e)
    BY <2>1, <2>3 DEF Derive
  <2>5. Reproduced' = Reproduced
    BY <1>1, <2>1, <2>3 DEF Reproduced
  <2>6. QED BY <1>1, <2>1, <2>2, <2>4, <2>5 DEF Concluded
<1>9. CASE RefuseRequest \/ RejectSource \/ ExecutionFails \/ RejectBaseline \/ RejectBatch
  BY <1>2, <1>9, RefusalsRefuse DEF IInv, Refusal
<1>10. CASE Done \/ UNCHANGED vars
  <2>1. UNCHANGED vars
    BY <1>10 DEF Done
  <2>2. UNCHANGED <<given, status, receipts, panels, values, certificates>>
    BY <2>1 DEF vars
  <2>3. \A c : PanelFamily(c)' = PanelFamily(c)
    BY <2>2 DEF PanelFamily, MinimalMasks, SuccessfulMasks
  <2>4. \A e : CompatibleWith(e)' = CompatibleWith(e)
    BY <2>2 DEF CompatibleWith, Matches
  <2>5. \A e : Derive(e)' = Derive(e)
    BY <2>2, <2>4 DEF Derive
  <2>6. Reproduced' = Reproduced
    BY <1>1, <2>2, <2>4 DEF Reproduced
  <2>7. QED BY <1>1, <2>2, <2>3, <2>5, <2>6 DEF Concluded
<1>11. QED BY <1>3, <1>4, <1>5, <1>6, <1>7, <1>8, <1>9, <1>10 DEF Next

LEMMA AlwaysConcluded == Spec => [](IInv /\ Concluded)
<1>1. Init => IInv /\ Concluded
  BY InitIInv, InitConcluded
<1>2. (IInv /\ Concluded) /\ [Next]_vars => (IInv /\ Concluded)'
  BY NextIInv, NextConcluded
<1>3. QED BY <1>1, <1>2, PTL DEF Spec

\* With fewer than two misbehaving executions, the tables a certificate is derived from are
\* what the sealed sources do, for every completion and every part of every record.
LEMMA TablesAreTrue ==
  ASSUME IInv, Concluded, status = "certified", glitches < 2
  PROVE  /\ Opened = anchor /\ DOMAIN panels = anchor /\ anchor \subseteq Nat
         /\ \A c \in anchor : panels[c] = TrueFamily(c)
         /\ \A c \in anchor, m \in Masks : receipts[c][m] = behaviour[c].artifact[Witness(m)]
         /\ \A c \in anchor, p \in Requested : values[<<c, p>>] = behaviour[c].probe[p]
<1>1. Opened = anchor /\ DOMAIN panels = anchor /\ DOMAIN receipts = anchor
  BY DEF IInv, Request
<1>2. anchor \subseteq Nat
  BY GivenFacts DEF IInv, TypeOK
<1>3. \A c \in anchor : DOMAIN receipts[c] = Masks
  BY <1>1 DEF IInv, Established
<1>4. \A c \in anchor : \A m \in Masks : receipts[c][m] = behaviour[c].artifact[Witness(m)]
  BY <1>3 DEF IInv, ReceiptsAreNominal
<1>5. \A c \in anchor : panels[c] = TrueFamily(c)
  BY <1>1, <1>3, <1>4, PanelIsTrue DEF Concluded
<1>6. \A c \in anchor, p \in Requested : values[<<c, p>>] = behaviour[c].probe[p]
  <2>1. \A c \in anchor, p \in Requested : <<c, p>> \in DOMAIN values
    BY <1>1 DEF Concluded
  <2>2. QED BY <2>1 DEF IInv, ReceiptsAreNominal
<1>7. QED BY <1>1, <1>2, <1>4, <1>5, <1>6

\* What a completion shows and what the verifier compares are then the same thing.
LEMMA MatchesMeaning ==
  ASSUME IInv, Concluded, status = "certified", glitches < 2, NEW i \in DOMAIN batch,
         NEW c \in anchor
  PROVE  LET e == batch[i]
         IN  Matches(c, e) <=>
               /\ Shown(behaviour[c].artifact[{}]) = e.baseline
               /\ \A p \in DOMAIN e.probes : behaviour[c].probe[p] = e.probes[p]
               /\ \A s \in DOMAIN e.replies : Shown(behaviour[c].artifact[s]) = e.replies[s]
<1> DEFINE e == batch[i]
<1>1. Preflighted(e)
  BY DEF Concluded, Acceptable
<1>2. \A p \in DOMAIN e.probes : p \in Requested
  BY <1>1 DEF Preflighted, Requested
<1>3. \A p \in DOMAIN e.probes : values[<<c, p>>] = behaviour[c].probe[p]
  BY <1>2, TablesAreTrue
<1>4. \A m \in Masks : receipts[c][m] = behaviour[c].artifact[Witness(m)]
  BY TablesAreTrue
<1>5. receipts[c][Zero] = behaviour[c].artifact[{}]
  BY <1>4, ZeroIsEmpty
<1>6. (\A m \in Masks : Witness(m) \in DOMAIN e.replies =>
                          Shown(receipts[c][m]) = e.replies[Witness(m)])
      <=> \A s \in DOMAIN e.replies : Shown(behaviour[c].artifact[s]) = e.replies[s]
  <2>1. \A s \in DOMAIN e.replies : \E m \in Masks : Witness(m) = s
    BY <1>1, EverySubsetHasItsMask DEF Preflighted
  <2>2. QED BY <1>4, <2>1
<1>7. QED BY <1>3, <1>5, <1>6 DEF Matches

\* An episode that fails unmodified is not repaired by nothing, and where it is not, the verifier
\* and the registry name the same kind.
LEMMA NothingRepairsNothing ==
  ASSUME NEW c, behaviour[c].artifact[{}].outcome # "SUCCESS"
  PROVE  {} \notin TrueFamily(c)
<1> DEFINE successes == {s \in SUBSET Atoms : behaviour[c].artifact[s].outcome = "SUCCESS"}
<1>1. \A w \in Minimal(successes) : w # {} /\ TargetsOf(w, target) # {}
  BY DEF Minimal, TargetsOf
<1>2. \A ts \in TrueFamily(c) : \E w \in Minimal(successes) : ts = TargetsOf(w, target)
  BY DEF TrueFamily, TargetFamily, Minimal
<1>3. QED BY <1>1, <1>2

LEMMA KindsAgree ==
  ASSUME NEW family, {} \notin family
  PROVE  CertifiedKind(family) = VerdictKind(family)
BY DEF CertifiedKind, VerdictKind

\* What a certificate says, in terms of what the completions do.
LEMMA CertificateMeaning ==
  ASSUME IInv, Concluded, status = "certified", glitches < 2, NEW i \in DOMAIN batch
  PROVE  LET set == CompatibleWith(batch[i])
             left == Least(set)
             others == {c \in set : TrueFamily(c) # TrueFamily(left)}
         IN  /\ set \subseteq anchor /\ left \in set
             /\ certificates[i] =
                  IF others # {}
                  THEN [kind |-> "ambiguous_worlds", family |-> {}, compatible |-> set,
                        pair |-> <<left, Least(others)>>]
                  ELSE [kind |-> VerdictKind(TrueFamily(left)), family |-> TrueFamily(left),
                        compatible |-> set, pair |-> <<>>]
<1> DEFINE set == CompatibleWith(batch[i])
           left == Least(set)
<1>1. set \subseteq anchor /\ set # {} /\ anchor \subseteq Nat
  BY TablesAreTrue DEF CompatibleWith, Concluded, Reproduced
<1>2. left \in set
  BY <1>1, LeastIsMember
<1>3. \A c \in set : panels[c] = TrueFamily(c)
  BY <1>1, TablesAreTrue
<1>4. {c \in set : panels[c] # panels[left]} = {c \in set : TrueFamily(c) # TrueFamily(left)}
  BY <1>2, <1>3
<1>5. certificates[i] = Derive(batch[i])
  BY DEF Concluded
<1>6. panels[left] = TrueFamily(left)
  BY <1>2, <1>3
<1>7. CertifiedKind(panels[left]) = VerdictKind(TrueFamily(left))
  <2>1. left \in DOMAIN panels /\ left \in anchor
    BY <1>1, <1>2, TablesAreTrue
  <2>2. receipts[left][Zero] = behaviour[left].artifact[{}]
    BY <2>1, TablesAreTrue, ZeroIsEmpty
  <2>3. behaviour[left].artifact[{}].outcome # "SUCCESS"
    BY <2>1, <2>2 DEF Concluded
  <2>4. QED BY <1>6, <2>3, NothingRepairsNothing, KindsAgree
<1> HIDE DEF set
<1>8. Derive(batch[i]) =
        LET others == {c \in set : panels[c] # panels[left]}
        IN  IF others # {}
            THEN [kind |-> "ambiguous_worlds", family |-> {}, compatible |-> set,
                  pair |-> <<left, Least(others)>>]
            ELSE [kind |-> CertifiedKind(panels[left]), family |-> panels[left],
                  compatible |-> set, pair |-> <<>>]
  BY DEF Derive, set
<1>9. QED BY <1>1, <1>2, <1>4, <1>5, <1>6, <1>7, <1>8 DEF set

\* It takes two misbehaving executions to make a certificate wrong: otherwise the completion
\* an evidence record came from is called compatible, and an identified family is its own.
THEOREM VerifierCertificatesAreTrue == Spec => []CertificatesAreTrue
<1>1. IInv /\ Concluded => CertificatesAreTrue
  <2>1. SUFFICES ASSUME IInv, Concluded, status = "certified", glitches < 2,
                        NEW i \in DOMAIN batch, batch[i].origin # 0
                 PROVE  /\ batch[i].origin \in certificates[i].compatible
                        /\ certificates[i].kind # "ambiguous_worlds" =>
                             certificates[i].family = TrueFamily(batch[i].origin)
    BY DEF CertificatesAreTrue
  <2> DEFINE e == batch[i]
             set == CompatibleWith(e)
             left == Least(set)
             others == {c \in set : TrueFamily(c) # TrueFamily(left)}
  <2>2. Honest(e, behaviour)
    BY <2>1, ScenarioAssumption DEF IInv, TypeOK, batch, behaviour
  <2>3. e.manifest = anchor
    BY <2>1 DEF Concluded, Acceptable
  <2>4. e.origin \in anchor
    BY <2>2, <2>3 DEF Honest
  <2>5. Matches(e.origin, e)
    BY <2>1, <2>2, <2>4, MatchesMeaning DEF Honest
  <2>6. e.origin \in set
    BY <2>1, <2>4, <2>5, TablesAreTrue DEF CompatibleWith
  <2>7. /\ certificates[i].compatible = set
        /\ others # {} => certificates[i].kind = "ambiguous_worlds"
        /\ others = {} => certificates[i].family = TrueFamily(left)
    <3> HIDE DEF set
    <3>1. certificates[i] =
                  IF others # {}
                  THEN [kind |-> "ambiguous_worlds", family |-> {}, compatible |-> set,
                        pair |-> <<left, Least(others)>>]
                  ELSE [kind |-> VerdictKind(TrueFamily(left)), family |-> TrueFamily(left),
                        compatible |-> set, pair |-> <<>>]
      BY <2>1, CertificateMeaning DEF set
    <3>2. QED BY <3>1
  <2>8. QED BY <2>6, <2>7
<1>2. QED BY <1>1, AlwaysConcluded, PTL

\* The registry over the anchored family sees of a completion what it really does.
LEMMA SearchSeesBehaviour ==
  ASSUME given \in Scenarios, NEW e, NEW c \in anchor, DOMAIN e.probes \subseteq Probes,
         DOMAIN e.replies \subseteq SUBSET Atoms
  PROVE  /\ Search(e)!IsCompatible(c, e) <=>
              /\ Shown(behaviour[c].artifact[{}]) = e.baseline
              /\ \A p \in DOMAIN e.probes : behaviour[c].probe[p] = e.probes[p]
              /\ \A s \in DOMAIN e.replies : Shown(behaviour[c].artifact[s]) = e.replies[s]
         /\ Search(e)!Profile(c) = TrueFamily(c)
<1>1. c \in Commitments
  BY GivenFacts
<1>2. [d \in Commitments |-> d][c] = c /\ [d \in Commitments |-> Seen(d)][c] = Seen(c)
  BY <1>1
<1>3. Search(e)!Of(c) = Seen(c)
  BY <1>2 DEF Search!Of
<1>4. \A s \in SUBSET Atoms : Search(e)!Result(c, s) = Shown(behaviour[c].artifact[s])
  BY <1>2 DEF Search!Result, Search!Of, Seen
<1>5. Search(e)!Of(c).probe = behaviour[c].probe
  BY <1>3 DEF Seen
<1>6. {} \in SUBSET Atoms
  OBVIOUS
<1>7. \A s \in SUBSET Atoms : Search(e)!Result(c, s).outcome = behaviour[c].artifact[s].outcome
  BY <1>4 DEF Shown
<1>8. Search(e)!Successes(c) = {s \in SUBSET Atoms : behaviour[c].artifact[s].outcome = "SUCCESS"}
  BY <1>7 DEF Search!Successes
<1>9. Search(e)!Profile(c) = TrueFamily(c)
  BY <1>8 DEF Search!Profile, TrueFamily, Search!TargetFamily, TargetFamily,
     Search!Minimal, Minimal, Search!TargetsOf, TargetsOf
<1>10. QED BY <1>4, <1>5, <1>6, <1>9 DEF Search!IsCompatible

\* The verifier's bit masks and double executions reach the verdict of the registry's set
\* search on every record of every batch, for every committed family, down to the pair of
\* an ambiguous verdict, unless two executions misbehave.
THEOREM VerifierAgreesWithRegistry == Spec => []AgreesWithRegistry
<1>1. IInv /\ Concluded => AgreesWithRegistry
  <2>1. SUFFICES ASSUME IInv, Concluded, status = "certified", glitches < 2, NEW i \in DOMAIN batch
                 PROVE  LET e == batch[i]
                            verdict == Search(e)!Judge(Search(e)!Compatible(e))
                        IN  /\ certificates[i].kind = verdict.kind
                            /\ certificates[i].family = verdict.family
                            /\ certificates[i].compatible = verdict.compatible
                            /\ certificates[i].pair = IF verdict.kind = "ambiguous_worlds"
                                                      THEN <<verdict.left, verdict.right>> ELSE <<>>
    BY DEF AgreesWithRegistry
  <2> DEFINE e == batch[i]
             set == CompatibleWith(e)
             left == Least(set)
             others == {c \in set : TrueFamily(c) # TrueFamily(left)}
             verdict == Search(e)!Judge(set)
  <2>2. Preflighted(e) /\ given \in Scenarios
    BY <2>1 DEF Concluded, Acceptable, IInv, TypeOK
  <2>3. \A c \in anchor : Search(e)!IsCompatible(c, e) <=> Matches(c, e)
    BY <2>1, <2>2, SearchSeesBehaviour, MatchesMeaning DEF Preflighted
  <2>4. Search(e)!Compatible(e) = set
    BY <2>1, <2>3, TablesAreTrue DEF Search!Compatible, CompatibleWith
  <2>5. set \subseteq anchor /\ left \in set
    BY <2>1, CertificateMeaning
  <2>6. \A c \in set : Search(e)!Profile(c) = TrueFamily(c)
    BY <2>2, <2>5, SearchSeesBehaviour DEF Preflighted
  <2>7. certificates[i] =
          IF others # {}
          THEN [kind |-> "ambiguous_worlds", family |-> {}, compatible |-> set,
                pair |-> <<left, Least(others)>>]
          ELSE [kind |-> VerdictKind(TrueFamily(left)), family |-> TrueFamily(left),
                compatible |-> set, pair |-> <<>>]
    BY <2>1, CertificateMeaning
  <2> HIDE DEF set
  <2>8. Search(e)!Least(set) = left
    BY DEF Search!Least, Least
  <2>9. {w \in set : Search(e)!Profile(w) # Search(e)!Profile(left)} = others
    BY <2>5, <2>6
  <2>10. \A f : Search(e)!VerdictKind(f) = VerdictKind(f)
    BY DEF Search!VerdictKind, VerdictKind
  <2>11. Search(e)!Least(others) = Least(others)
    BY DEF Search!Least, Least
  <2>12. verdict =
           IF others # {}
           THEN [kind |-> "ambiguous_worlds", family |-> {}, compatible |-> set,
                 left |-> left, right |-> Least(others)]
           ELSE [kind |-> VerdictKind(TrueFamily(left)), family |-> TrueFamily(left),
                 compatible |-> set, left |-> 0, right |-> 0]
    BY <2>5, <2>6, <2>8, <2>9, <2>10, <2>11 DEF Search!Judge
  <2>13. VerdictKind(TrueFamily(left)) # "ambiguous_worlds"
    BY DEF VerdictKind
  <2>14. QED BY <2>4, <2>7, <2>12, <2>13
<1>2. QED BY <1>1, AlwaysConcluded, PTL
=============================================================================
