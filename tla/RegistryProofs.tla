--------------------------- MODULE RegistryProofs ---------------------------
(* What the registry's verdicts mean, for every family, contract and history *)
(* of rebuilds.                                                              *)
EXTENDS Registry, RepairAlgebraProofs

\* Genuine evidence shows the sealed world, and is bound to a family it is in.
ShowsSealed ==
  genuine =>
    /\ sealed \in World
    /\ Commitment[sealed] \in evidence.manifest
    /\ evidence.baseline = Result(sealed, {})
    /\ \A p \in DOMAIN evidence.probes : evidence.probes[p] = Of(sealed).probe[p]
    /\ \A s \in DOMAIN evidence.replies : evidence.replies[s] = Result(sealed, s)

\* A verdict that is one was derived from the record and the registry at hand.
Derived ==
  verdict.kind \notin {"none", "mismatch"} =>
    /\ Bound(evidence) /\ Compatible(evidence) # {}
    /\ verdict = Judge(Compatible(evidence))

\* The inductive invariant.
IInv == TypeOK /\ ShowsSealed /\ Derived

LEMMA LeastIsMember ==
  ASSUME NEW ws \in SUBSET Nat, ws # {}
  PROVE  Least(ws) \in ws
BY LeastNatural DEF Least

\* Worlds with one commitment are the same completion.
LEMMA SameCommitment ==
  ASSUME NEW v, NEW w, Commitment[v] = Commitment[w]
  PROVE  /\ \A s : Result(v, s) = Result(w, s)
         /\ Of(v) = Of(w) /\ Profile(v) = Profile(w)
         /\ Successes(v) = Successes(w)
BY DEF Of, Result, Profile, Successes

LEMMA ProfileType ==
  ASSUME NEW w
  PROVE  Profile(w) \subseteq SUBSET Targets
<1>1. Successes(w) \in SUBSET SUBSET Atoms
  BY DEF Successes
<1>2. \A s \in SUBSET Atoms : TargetsOf(s, target) \in SUBSET Targets
  BY RegistryAssumption, TargetsInRange
<1>3. \A ts \in Profile(w) : \E s \in Minimal(Successes(w)) : ts = TargetsOf(s, target)
  BY FamilyRealised DEF Profile
<1>4. QED
  BY <1>1, <1>2, <1>3, MinimalIsAntichain

\* The shape of every verdict.
LEMMA JudgeShape ==
  ASSUME NEW ws \in SUBSET World, ws # {}
  PROVE  /\ Judge(ws).compatible = ws
         /\ Judge(ws).kind \in Kinds \ {"none", "mismatch"}
         /\ Judge(ws).family \subseteq SUBSET Targets
         /\ Judge(ws).kind = "ambiguous_worlds" =>
              /\ {Judge(ws).left, Judge(ws).right} \subseteq ws
              /\ Profile(Judge(ws).left) # Profile(Judge(ws).right)
         /\ Judge(ws).kind # "ambiguous_worlds" =>
              /\ \A w \in ws : Profile(w) = Judge(ws).family
              /\ Judge(ws).kind = VerdictKind(Judge(ws).family)
<1> DEFINE left == Least(ws)
           others == {w \in ws : Profile(w) # Profile(left)}
<1>1. left \in ws
  BY LeastIsMember, RegistryAssumption
<1>2. CASE others # {}
  <2>1. Least(others) \in others
    BY <1>2, LeastIsMember, RegistryAssumption
  <2>2. Judge(ws) = [kind |-> "ambiguous_worlds", family |-> {}, compatible |-> ws,
                     left |-> left, right |-> Least(others)]
    BY <1>2 DEF Judge
  <2>3. QED
    BY <1>1, <2>1, <2>2 DEF Kinds
<1>3. CASE others = {}
  <2>1. Judge(ws) = [kind |-> VerdictKind(Profile(left)), family |-> Profile(left),
                     compatible |-> ws, left |-> 0, right |-> 0]
    BY <1>3 DEF Judge
  <2>2. VerdictKind(Profile(left)) \in
          {"no_repair", "identified_singleton", "identified_compound",
           "alternative_minimal_repairs"}
    BY DEF VerdictKind
  <2>3. Profile(left) \subseteq SUBSET Targets
    BY ProfileType
  <2>4. \A w \in ws : Profile(w) = Profile(left)
    BY <1>3
  <2>5. QED
    BY <2>1, <2>2, <2>3, <2>4 DEF Kinds
<1>4. QED
  BY <1>2, <1>3
-----------------------------------------------------------------------------

\* A registered completion has the declared shape.
LEMMA CompletionType ==
  ASSUME TypeOK, NEW w \in World
  PROVE  /\ Commitment[w] \in Commitments
         /\ \A s \in SUBSET Atoms : Result(w, s) \in Results
         /\ \A p \in Probes : Of(w).probe[p] \in ProbeValues
<1>1. Commitment[w] \in Commitments
  BY RegistryAssumption
<1>2. Of(w) \in Completions
  BY <1>1, RegistryAssumption DEF Of, TypeOK
<1>3. Of(w).result \in [SUBSET Atoms -> Results] /\ Of(w).probe \in [Probes -> ProbeValues]
  BY <1>2, RegistryAssumption
<1>4. QED
  BY <1>1, <1>3 DEF Result

\* What every step that keeps the completions keeps.
LEMMA SameCompletions ==
  ASSUME UNCHANGED completion
  PROVE  /\ \A w : Of(w)' = Of(w)
         /\ \A w, s : Result(w, s)' = Result(w, s)
         /\ \A w : Profile(w)' = Profile(w)
         /\ \A ws : Judge(ws)' = Judge(ws)
<1>1. \A w : Of(w)' = Of(w)
  BY DEF Of
<1>2. \A w, s : Result(w, s)' = Result(w, s)
  BY DEF Result, Of
<1>3. \A w : Profile(w)' = Profile(w)
  BY DEF Profile, Successes, Result, Of
<1>4. \A ws : Judge(ws)' = Judge(ws)
  BY Zenon DEF Judge, Profile, Successes, Result, Of
<1>5. QED BY <1>1, <1>2, <1>3, <1>4

LEMMA InitIInv == Init => IInv
<1> SUFFICES ASSUME Init PROVE IInv
  OBVIOUS
<1>1. /\ completion \in Families /\ registry = {} /\ sealed = 0
      /\ evidence = NoEvidence /\ verdict = NoVerdict /\ genuine = FALSE
  BY DEF Init
<1>2. verdict.kind = "none" /\ verdict.family = {} /\ verdict.compatible = {}
  BY <1>1 DEF NoVerdict
<1>3. TypeOK
  BY <1>1, <1>2 DEF TypeOK, Kinds
<1>4. ShowsSealed
  BY <1>1 DEF ShowsSealed
<1>5. Derived
  BY <1>2 DEF Derived
<1>6. QED
  BY <1>3, <1>4, <1>5 DEF IInv

LEMMA BuildIInv ==
  ASSUME IInv, NEW ws \in SUBSET World, Build(ws)
  PROVE  IInv'
<1>1. /\ registry' = ws /\ verdict' = NoVerdict
      /\ UNCHANGED <<completion, sealed, evidence, genuine>>
  BY DEF Build
<1>2. TypeOK'
  BY <1>1 DEF IInv, TypeOK, NoVerdict, Kinds, IsEvidence
<1>3. ShowsSealed'
  BY <1>1 DEF IInv, ShowsSealed, Result, Of
<1>4. Derived'
  BY <1>1 DEF Derived, NoVerdict
<1>5. QED BY <1>2, <1>3, <1>4 DEF IInv

LEMMA ObserveIInv ==
  ASSUME IInv, NEW w \in World, NEW asked \in SUBSET Probes,
         NEW queries \in SUBSET Queries, Observe(w, asked, queries)
  PROVE  IInv'
<1>1. /\ w \in registry /\ sealed' = w /\ genuine' = TRUE /\ verdict' = NoVerdict
      /\ UNCHANGED <<completion, registry>>
      /\ evidence' = View(registry, w, asked, queries)
  BY DEF Observe
<1>2. /\ evidence'.manifest = Manifest(registry)
      /\ evidence'.baseline = Result(w, {})
      /\ DOMAIN evidence'.probes = asked
      /\ \A p \in asked : evidence'.probes[p] = Of(w).probe[p]
      /\ DOMAIN evidence'.replies = queries
      /\ \A s \in queries : evidence'.replies[s] = Result(w, s)
  BY <1>1 DEF View
<1>3. Manifest(registry) \subseteq Commitments /\ Commitment[w] \in Manifest(registry)
  BY <1>1, CompletionType DEF IInv, TypeOK, Manifest
<1>4. IsEvidence(evidence')
  BY <1>2, <1>3, CompletionType DEF IInv, IsEvidence, Queries
<1>5. IsEvidence(evidence)'
  BY <1>4 DEF IsEvidence
<1>6. TypeOK'
  BY <1>1, <1>5 DEF IInv, TypeOK, NoVerdict, Kinds
<1>7. ShowsSealed'
  BY <1>1, <1>2, <1>3, SameCompletions DEF ShowsSealed
<1>8. Derived'
  BY <1>1 DEF Derived, NoVerdict
<1>9. QED BY <1>6, <1>7, <1>8 DEF IInv

LEMMA AlterIInv ==
  ASSUME IInv, Alter
  PROVE  IInv'
<1>1. /\ genuine /\ genuine' = FALSE /\ verdict' = NoVerdict
      /\ UNCHANGED <<completion, registry, sealed>>
  BY DEF Alter
<1>2. IsEvidence(evidence)
  <2>1. evidence # NoEvidence
    BY <1>1 DEF IInv, ShowsSealed, NoEvidence
  <2>2. QED BY <2>1 DEF IInv, TypeOK
<1>3. IsEvidence(evidence')
  <2>1. CASE \E p \in DOMAIN evidence.probes : \E v \in ProbeValues \ {evidence.probes[p]} :
               evidence' = [evidence EXCEPT !.probes[p] = v]
    BY <1>2, <2>1 DEF IsEvidence
  <2>2. CASE \E s \in DOMAIN evidence.replies : \E r \in Results \ {evidence.replies[s]} :
               evidence' = [evidence EXCEPT !.replies[s] = r]
    BY <1>2, <2>2 DEF IsEvidence
  <2>3. CASE \E r \in Results \ {evidence.baseline} : evidence' = [evidence EXCEPT !.baseline = r]
    BY <1>2, <2>3 DEF IsEvidence
  <2>4. QED BY <2>1, <2>2, <2>3 DEF Alter
<1>4. IsEvidence(evidence)'
  BY <1>3 DEF IsEvidence
<1>5. TypeOK'
  BY <1>1, <1>4 DEF IInv, TypeOK, NoVerdict, Kinds
<1>6. QED BY <1>1, <1>5 DEF IInv, ShowsSealed, Derived, NoVerdict

LEMMA AnswerIInv ==
  ASSUME IInv, Attribute \/ RefuseEvidence
  PROVE  IInv'
<1>1. UNCHANGED <<completion, registry, sealed, evidence, genuine>>
  BY DEF Attribute, RefuseEvidence
<1>2. Compatible(evidence)' = Compatible(evidence) /\ Bound(evidence)' = Bound(evidence)
  BY <1>1 DEF Compatible, IsCompatible, Bound, Manifest, Result, Of
<1>3. ShowsSealed'
  BY <1>1 DEF IInv, ShowsSealed, Result, Of
<1>4. CASE RefuseEvidence
  <2>1. verdict' = [NoVerdict EXCEPT !.kind = "mismatch"]
    BY <1>4 DEF RefuseEvidence
  <2>2. TypeOK'
    BY <1>1, <2>1 DEF IInv, TypeOK, NoVerdict, Kinds, IsEvidence
  <2>3. Derived'
    BY <2>1 DEF Derived, NoVerdict
  <2>4. QED BY <1>3, <2>2, <2>3 DEF IInv
<1>5. CASE Attribute
  <2>1. /\ Bound(evidence) /\ Compatible(evidence) # {}
        /\ verdict' = Judge(Compatible(evidence))
    BY <1>5 DEF Attribute
  <2>2. Compatible(evidence) \subseteq registry /\ registry \subseteq World
    BY DEF Compatible, IInv, TypeOK
  <2>3. /\ verdict'.kind \in Kinds /\ verdict'.family \subseteq SUBSET Targets
        /\ verdict'.compatible = Compatible(evidence)
    BY <2>1, <2>2, JudgeShape
  <2>4. TypeOK'
    BY <1>1, <2>2, <2>3 DEF IInv, TypeOK, IsEvidence
  <2>5. Judge(Compatible(evidence))' = Judge(Compatible(evidence))
    BY <1>1, <1>2, Zenon DEF Judge, Profile, Successes, Result, Of
  <2>6. Derived'
    BY <1>2, <2>1, <2>5 DEF Derived
  <2>7. QED BY <1>3, <2>4, <2>6 DEF IInv
<1>6. QED BY <1>4, <1>5

LEMMA StutterIInv ==
  ASSUME IInv, UNCHANGED vars
  PROVE  IInv'
<1>1. UNCHANGED <<completion, registry, sealed, evidence, verdict, genuine>>
  BY DEF vars
<1>2. TypeOK' /\ ShowsSealed'
  BY <1>1 DEF IInv, TypeOK, IsEvidence, ShowsSealed, Result, Of
<1>3. Compatible(evidence)' = Compatible(evidence) /\ Bound(evidence)' = Bound(evidence)
  BY <1>1 DEF Compatible, IsCompatible, Bound, Manifest, Result, Of
<1>4. Judge(Compatible(evidence))' = Judge(Compatible(evidence))
  BY <1>1, <1>3, Zenon DEF Judge, Profile, Successes, Result, Of
<1>5. QED
  BY <1>1, <1>2, <1>3, <1>4 DEF IInv, Derived

LEMMA NextIInv == IInv /\ [Next]_vars => IInv'
<1> SUFFICES ASSUME IInv, [Next]_vars PROVE IInv'
  OBVIOUS
<1>1. CASE \E ws \in SUBSET World : Build(ws) \/ RefuseBuild(ws)
  BY <1>1, BuildIInv, StutterIInv DEF RefuseBuild
<1>2. CASE \E w \in World, asked \in SUBSET Probes, queries \in SUBSET Queries :
             Observe(w, asked, queries)
  BY <1>2, ObserveIInv
<1>3. CASE Alter
  BY <1>3, AlterIInv
<1>4. CASE Attribute \/ RefuseEvidence
  BY <1>4, AnswerIInv
<1>5. CASE UNCHANGED vars
  BY <1>5, StutterIInv
<1>6. QED BY <1>1, <1>2, <1>3, <1>4, <1>5 DEF Next

-----------------------------------------------------------------------------

\* A registry the genuine record is bound to holds the completion the record came from,
\* possibly under another identifier, and that candidate is compatible.
LEMMA TruthInRegistry ==
  ASSUME IInv, genuine, Bound(evidence)
  PROVE  \E w \in Compatible(evidence) : Commitment[w] = Commitment[sealed]
<1>1. Commitment[sealed] \in Manifest(registry)
  BY DEF IInv, ShowsSealed, Bound
<1>2. PICK w \in registry : Commitment[w] = Commitment[sealed]
  BY <1>1 DEF Manifest
<1>3. (\A s : Result(w, s) = Result(sealed, s)) /\ Of(w) = Of(sealed)
  BY <1>2, SameCommitment
<1>4. IsCompatible(w, evidence)
  BY <1>3 DEF IsCompatible, IInv, ShowsSealed
<1>5. QED
  BY <1>2, <1>4 DEF Compatible

\* Everything a verdict says, in terms of the compatible candidates.
LEMMA VerdictMeaning ==
  ASSUME IInv, verdict.kind \notin {"none", "mismatch"}
  PROVE  /\ Bound(evidence) /\ verdict.compatible = Compatible(evidence)
         /\ verdict.kind = "ambiguous_worlds" =>
              /\ {verdict.left, verdict.right} \subseteq Compatible(evidence)
              /\ Profile(verdict.left) # Profile(verdict.right)
         /\ verdict.kind # "ambiguous_worlds" =>
              /\ \A w \in Compatible(evidence) : Profile(w) = verdict.family
              /\ verdict.kind = VerdictKind(verdict.family)
<1>1. Bound(evidence) /\ Compatible(evidence) # {} /\ verdict = Judge(Compatible(evidence))
  BY DEF IInv, Derived
<1>2. Compatible(evidence) \in SUBSET World
  BY DEF Compatible, IInv, TypeOK
<1> DEFINE ws == Compatible(evidence)
<1>3. /\ Judge(ws).compatible = ws
      /\ Judge(ws).kind = "ambiguous_worlds" =>
           /\ {Judge(ws).left, Judge(ws).right} \subseteq ws
           /\ Profile(Judge(ws).left) # Profile(Judge(ws).right)
      /\ Judge(ws).kind # "ambiguous_worlds" =>
           /\ \A w \in ws : Profile(w) = Judge(ws).family
           /\ Judge(ws).kind = VerdictKind(Judge(ws).family)
  BY <1>1, <1>2, JudgeShape
<1>4. QED
  BY <1>1, <1>3, Zenon

\* The target family of the sealed world is the one an identified verdict names.
LEMMA FamilyIsSealed ==
  ASSUME IInv, genuine, verdict.kind \in Identified \cup {"no_repair"}
  PROVE  verdict.family = Profile(sealed)
<1>1. /\ Bound(evidence)
      /\ \A w \in Compatible(evidence) : Profile(w) = verdict.family
  BY VerdictMeaning DEF Identified
<1>2. PICK w \in Compatible(evidence) : Commitment[w] = Commitment[sealed]
  BY <1>1, TruthInRegistry
<1>3. Profile(w) = Profile(sealed)
  BY <1>2, SameCommitment
<1>4. QED
  BY <1>1, <1>3

-----------------------------------------------------------------------------

\* The inductive invariant holds in every reachable state.
THEOREM RegistryInvariant == Spec => []IInv
BY InitIInv, NextIInv, PTL DEF Spec

\* Type correctness of the registry and of everything it returns.
THEOREM RegistryTypeOK == Spec => []TypeOK
<1>1. IInv => TypeOK
  BY DEF IInv
<1>2. QED BY <1>1, RegistryInvariant, PTL

\* Genuine evidence is never judged against a family without the truth.
THEOREM RegistryTruthStays == Spec => []TruthStaysCompatible
<1>1. IInv => TruthStaysCompatible
  <2>1. SUFFICES ASSUME IInv, genuine, verdict.kind \notin {"none", "mismatch"}
                 PROVE  Commitment[sealed] \in Manifest(verdict.compatible)
    BY DEF TruthStaysCompatible
  <2>2. Bound(evidence) /\ verdict.compatible = Compatible(evidence)
    BY <2>1, VerdictMeaning
  <2>3. PICK w \in Compatible(evidence) : Commitment[w] = Commitment[sealed]
    BY <2>1, <2>2, TruthInRegistry
  <2>4. QED
    BY <2>2, <2>3 DEF Manifest
<1>2. QED BY <1>1, RegistryInvariant, PTL

\* An identified target family, and the absence of repairs, is true of the sealed world.
THEOREM RegistryIdentifiedIsTrue == Spec => []IdentifiedIsTrue
<1>1. IInv => IdentifiedIsTrue
  BY FamilyIsSealed DEF IdentifiedIsTrue
<1>2. QED BY <1>1, RegistryInvariant, PTL

\* The targets of a single identified set are acted on by every repair there is.
THEOREM RegistryTargetsNecessary == Spec => []IdentifiedTargetsNecessary
<1>1. IInv => IdentifiedTargetsNecessary
  <2>1. SUFFICES ASSUME IInv, genuine,
                        verdict.kind \in {"identified_singleton", "identified_compound"},
                        NEW ts \in verdict.family, NEW s \in Successes(sealed)
                 PROVE  ts \subseteq TargetsOf(s, target)
    BY DEF IdentifiedTargetsNecessary
  <2>2. verdict.family = Profile(sealed) /\ verdict.kind = VerdictKind(verdict.family)
    BY <2>1, FamilyIsSealed, VerdictMeaning DEF Identified
  <2>3. PICK only \in verdict.family : verdict.family = {only}
    BY <2>1, <2>2 DEF VerdictKind
  <2>4. Successes(sealed) \in SUBSET SUBSET Atoms
    BY DEF Successes
  <2>5. \E t \in TargetFamily(Successes(sealed), target) : t \subseteq TargetsOf(s, target)
    BY <2>1, <2>4, FamilyCovers, RegistryAssumption
  <2>6. PICK t \in verdict.family : t \subseteq TargetsOf(s, target)
    BY <2>2, <2>5 DEF Profile
  <2>7. QED
    BY <2>1, <2>3, <2>6
<1>2. QED BY <1>1, RegistryInvariant, PTL

\* An ambiguity names two compatible worlds the evidence cannot tell apart and whose
\* target families differ.
THEOREM RegistryAmbiguityIsReal == Spec => []AmbiguityIsReal
<1>1. IInv => AmbiguityIsReal
  BY VerdictMeaning DEF AmbiguityIsReal
<1>2. QED BY <1>1, RegistryInvariant, PTL

\* The full replay panel leaves no ambiguity.
THEOREM RegistryFullReplayDecides == Spec => []FullReplayDecides
<1>1. IInv => FullReplayDecides
  <2>1. SUFFICES ASSUME IInv, verdict.kind = "ambiguous_worlds",
                        DOMAIN evidence.replies = Queries
                 PROVE  FALSE
    BY DEF FullReplayDecides
  <2> DEFINE l == verdict.left
             r == verdict.right
  <2>2. IsCompatible(l, evidence) /\ IsCompatible(r, evidence) /\ Profile(l) # Profile(r)
    BY <2>1, VerdictMeaning DEF Compatible
  <2>3. \A s \in SUBSET Atoms : Result(l, s) = Result(r, s)
    BY <2>1, <2>2 DEF IsCompatible, Queries
  <2>4. Successes(l) = Successes(r)
    BY <2>3 DEF Successes
  <2>5. QED
    BY <2>2, <2>4 DEF Profile
<1>2. QED BY <1>1, RegistryInvariant, PTL

-----------------------------------------------------------------------------

LEMMA KeepsCompletions ==
  ASSUME [Next]_vars
  PROVE  UNCHANGED completion
BY DEF Next, vars, Build, RefuseBuild, Observe, Alter, Attribute, RefuseEvidence

\* Of two genuine records of one world, the larger is compatible with fewer candidates.
LEMMA MoreEvidenceFewerCandidates ==
  ASSUME IInv, IInv', UNCHANGED <<completion, registry, sealed>>, genuine, genuine',
         Extends(evidence, evidence')
  PROVE  Compatible(evidence)' \subseteq Compatible(evidence)
<1>1. SUFFICES ASSUME NEW w \in registry, IsCompatible(w, evidence)'
               PROVE  IsCompatible(w, evidence)
  BY DEF Compatible
<1>2. (\A v : Of(v)' = Of(v)) /\ (\A v, s : Result(v, s)' = Result(v, s))
  BY SameCompletions
<1>3. /\ Result(w, {}) = evidence'.baseline
      /\ \A p \in DOMAIN evidence'.probes : Of(w).probe[p] = evidence'.probes[p]
      /\ \A s \in DOMAIN evidence'.replies : Result(w, s) = evidence'.replies[s]
  BY <1>1, <1>2 DEF IsCompatible
<1>4. /\ evidence'.baseline = Result(sealed, {})
      /\ \A p \in DOMAIN evidence'.probes : evidence'.probes[p] = Of(sealed).probe[p]
      /\ \A s \in DOMAIN evidence'.replies : evidence'.replies[s] = Result(sealed, s)
  BY <1>2 DEF IInv, ShowsSealed
<1>5. /\ evidence.baseline = Result(sealed, {})
      /\ \A p \in DOMAIN evidence.probes : evidence.probes[p] = Of(sealed).probe[p]
      /\ \A s \in DOMAIN evidence.replies : evidence.replies[s] = Result(sealed, s)
  BY DEF IInv, ShowsSealed
<1>6. QED
  BY <1>3, <1>4, <1>5 DEF IsCompatible, Extends

\* More evidence only narrows: nothing excluded comes back, and a family every
\* compatible candidate agrees on is never taken back.
THEOREM RegistryEvidenceOnlyNarrows == Spec => EvidenceOnlyNarrows
<1> DEFINE Narrows ==
      genuine /\ genuine' /\ sealed' = sealed /\ registry' = registry
        /\ Bound(evidence) /\ Extends(evidence, evidence') =>
          /\ Compatible(evidence)' \subseteq Compatible(evidence)
          /\ \A w \in registry :
               Settled(evidence, Profile(w)) => Settled(evidence, Profile(w))'
<1>1. IInv /\ IInv' /\ [Next]_vars => Narrows
  <2>1. SUFFICES ASSUME IInv, IInv', [Next]_vars, genuine, genuine', sealed' = sealed,
                        registry' = registry, Bound(evidence), Extends(evidence, evidence')
                 PROVE  /\ Compatible(evidence)' \subseteq Compatible(evidence)
                        /\ \A w \in registry :
                             Settled(evidence, Profile(w)) => Settled(evidence, Profile(w))'
    OBVIOUS
  <2>2. UNCHANGED completion
    BY <2>1, KeepsCompletions
  <2>3. Compatible(evidence)' \subseteq Compatible(evidence)
    BY <2>1, <2>2, MoreEvidenceFewerCandidates
  <2>4. Bound(evidence)'
    BY <2>1 DEF Bound, Extends, Manifest
  <2>5. Compatible(evidence)' # {}
    <3>1. (\E w \in Compatible(evidence) : Commitment[w] = Commitment[sealed])'
      BY <2>1, <2>4, TruthInRegistry, PTL
    <3>2. QED BY <3>1
  <2>6. \A w : Profile(w)' = Profile(w)
    BY <2>2, SameCompletions
  <2>7. QED
    BY <2>3, <2>5, <2>6 DEF Settled
<1>2. Spec => [][Narrows]_vars
  BY <1>1, RegistryInvariant, PTL DEF Spec
<1>3. QED
  BY <1>2 DEF EvidenceOnlyNarrows

=============================================================================
