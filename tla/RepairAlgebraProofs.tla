------------------------ MODULE RepairAlgebraProofs ------------------------
(* Facts about RepairAlgebra that hold for every family of finite sets.     *)
EXTENDS RepairAlgebra, FiniteSetTheorems, TLAPS

\* Minimal(family) is an antichain inside the family.
LEMMA MinimalIsAntichain ==
  ASSUME NEW family
  PROVE  /\ Minimal(family) \subseteq family
         /\ \A v, w \in Minimal(family) : v \subseteq w => v = w
         /\ \A w \in Minimal(family), v \in family : v \subseteq w => v = w
BY DEF Minimal

\* In a family of subsets of a finite set, every member has a minimal member
\* inside it: strict inclusion is well founded there.
LEMMA MinimalCovers ==
  ASSUME NEW S, IsFiniteSet(S), NEW family \in SUBSET SUBSET S, NEW w \in family
  PROVE  \E m \in Minimal(family) : m \subseteq w
<1> DEFINE Below == {v \in family : v \subseteq w}
           R == StrictSubsetOrdering(S)
<1>1. IsWellFoundedOn(R, SUBSET S)
  BY FS_StrictSubsetOrderingWellFounded, FS_FiniteSubsetsOfFinite
<1>2. Below \subseteq SUBSET S /\ Below # {}
  OBVIOUS
<1>3. PICK m \in Below : \A v \in Below : ~ (<<v, m>> \in R)
  <2> HIDE DEF R, Below
  <2>1. QED BY <1>1, <1>2, WFMin
<1>4. m \in Minimal(family)
  <2>1. SUFFICES ASSUME NEW v \in family, v \subseteq m PROVE v = m
    BY DEF Minimal
  <2>2. v \in Below /\ m \in SUBSET S /\ v \in SUBSET S
    BY <2>1
  <2>3. QED
    BY <1>3, <2>1, <2>2 DEF StrictSubsetOrdering
<1>5. QED
  BY <1>4

\* The targets of a subset of a witness are among those of the witness.
LEMMA TargetsMonotone ==
  ASSUME NEW v, NEW w, NEW target, v \subseteq w
  PROVE  TargetsOf(v, target) \subseteq TargetsOf(w, target)
BY DEF TargetsOf

LEMMA TargetsInRange ==
  ASSUME NEW A, NEW T, NEW target \in [A -> T], NEW w \in SUBSET A
  PROVE  TargetsOf(w, target) \in SUBSET T
BY DEF TargetsOf

\* Minimal target sets are the targets of minimal witnesses, and form an antichain.
LEMMA FamilyRealised ==
  ASSUME NEW successes, NEW target
  PROVE  /\ \A ts \in TargetFamily(successes, target) :
              \E w \in Minimal(successes) : ts = TargetsOf(w, target)
         /\ \A s, t \in TargetFamily(successes, target) : s \subseteq t => s = t
BY DEF TargetFamily, Minimal

\* The targets of every successful subset include a member of the target family.
LEMMA FamilyCovers ==
  ASSUME NEW A, IsFiniteSet(A), NEW T, IsFiniteSet(T), NEW target \in [A -> T],
         NEW successes \in SUBSET SUBSET A, NEW w \in successes
  PROVE  \E ts \in TargetFamily(successes, target) : ts \subseteq TargetsOf(w, target)
<1> DEFINE Projected == {TargetsOf(m, target) : m \in Minimal(successes)}
<1>1. PICK m \in Minimal(successes) : m \subseteq w
  BY MinimalCovers
<1>2. Projected \in SUBSET SUBSET T
  BY MinimalIsAntichain, TargetsInRange
<1>3. PICK ts \in Minimal(Projected) : ts \subseteq TargetsOf(m, target)
  <2>1. TargetsOf(m, target) \in Projected
    OBVIOUS
  <2> HIDE DEF Projected
  <2>2. QED BY <1>2, <2>1, MinimalCovers
<1>4. TargetsOf(m, target) \subseteq TargetsOf(w, target)
  BY <1>1, TargetsMonotone
<1>5. QED
  BY <1>3, <1>4 DEF TargetFamily

\* If the empty set is not a success, no witness is empty and no target set is.
LEMMA FamilyNonEmptySets ==
  ASSUME NEW successes, NEW target, {} \notin successes
  PROVE  /\ {} \notin Minimal(successes)
         /\ {} \notin TargetFamily(successes, target)
<1>1. \A w \in Minimal(successes) : w # {}
  BY DEF Minimal
<1>2. \A w \in Minimal(successes) : TargetsOf(w, target) # {}
  BY <1>1 DEF TargetsOf
<1>3. QED
  BY <1>1, <1>2, FamilyRealised
\* A non-empty set of naturals has a least element.
LEMMA LeastNatural ==
  ASSUME NEW S \in SUBSET Nat, S # {}
  PROVE  \E n \in S : \A k \in S : n <= k
<1> DEFINE R == {p \in Nat \X Nat : p[1] < p[2]}
<1>1. PICK n \in S : \A k \in S : ~ (<<k, n>> \in R)
  <2>1. IsWellFoundedOn(R, Nat)
    BY NatLessThanWellFounded, Zenon DEF OpToRel
  <2> HIDE DEF R
  <2>2. QED BY <2>1, WFMin
<1>2. \A k \in S : n <= k
  <2>1. SUFFICES ASSUME NEW k \in S, k < n PROVE FALSE
    OBVIOUS
  <2>2. <<k, n>> \in R
    BY <2>1
  <2>3. QED BY <1>1, <2>2
<1>3. QED BY <1>2

=============================================================================
