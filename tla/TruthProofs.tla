----------------------------- MODULE TruthProofs -----------------------------
(* The key is right for every catalog, seed, commitment scheme and naming:   *)
(* whatever views and anchors a truth set was authored from, its cases say   *)
(* of their evidence what the sealed completions of the corpus show.  It     *)
(* rests on the construction of a pair, for every task of a valid catalog:   *)
(* the twins run alike, are repaired by different targets, and differ only   *)
(* in the observations meant to tell them apart.  The same construction      *)
(* decides every count the validations make, so that a call is refused only  *)
(* where its arguments deserve it.                                           *)
EXTENDS Truth, RepairAlgebraProofs, FunctionTheorems

-----------------------------------------------------------------------------
(* The twins of a task *)

Task(t, v) == ValidTemplate(t) /\ ValidVariant(v)

Succeeding(r) == {s \in SUBSET Atoms : Success(r, s)}

\* Where the selected resolver points in each of the twins after interventions s.
LEMMA TwinOutcomes ==
  ASSUME NEW t, NEW v, Task(t, v), NEW s \in SUBSET Atoms
  PROVE  /\ Resolved(SelectorAligned(t, v), s) =
              IF "refresh" \in s THEN v.intended ELSE v.observed
         /\ Resolved(ResolverAligned(t, v), s) =
              IF "repair" \in s THEN v.intended ELSE v.observed
         /\ Success(SelectorAligned(t, v), s) <=> "refresh" \in s
         /\ Success(ResolverAligned(t, v), s) <=> "repair" \in s
<1>1. t.goal # t.alternate /\ v.intended # v.observed
  BY DEF Task, ValidTemplate, ValidVariant
<1>2. Resolved(SelectorAligned(t, v), s) = IF "refresh" \in s THEN v.intended ELSE v.observed
  BY DEF Resolved, StateAfter, SelectorAligned, SourceRecord, Outdated, Reference, Selectors
<1>3. Resolved(ResolverAligned(t, v), s) = IF "repair" \in s THEN v.intended ELSE v.observed
  BY <1>1 DEF Resolved, StateAfter, ResolverAligned, SourceRecord, Reference, Selectors
<1>4. SelectorAligned(t, v).variant = v /\ ResolverAligned(t, v).variant = v
  BY DEF SelectorAligned, ResolverAligned, SourceRecord
<1>5. QED BY <1>1, <1>2, <1>3, <1>4 DEF Success

\* With one atom needed, the repairs are the sets with it and the family its target.
LEMMA OneAtomNeeded ==
  ASSUME NEW a \in Atoms
  PROVE  /\ Minimal({s \in SUBSET Atoms : a \in s}) = {{a}}
         /\ TargetFamily({s \in SUBSET Atoms : a \in s}, target) = {{target[a]}}
<1>1. Minimal({s \in SUBSET Atoms : a \in s}) = {{a}}
  BY DEF Minimal
<1>2. TargetsOf({a}, target) = {target[a]}
  BY DEF TargetsOf
<1>3. {TargetsOf(w, target) : w \in {{a}}} = {{target[a]}}
  BY <1>2
<1>4. Minimal({{target[a]}}) = {{target[a]}}
  BY DEF Minimal
<1>5. QED BY <1>1, <1>3, <1>4 DEF TargetFamily

\* A refresh repairs the one twin and nothing less does; the policy repairs the other.
THEOREM TwinFamilies ==
  ASSUME NEW t, NEW v, Task(t, v)
  PROVE  /\ Minimal(Succeeding(SelectorAligned(t, v))) = {{"refresh"}}
         /\ Minimal(Succeeding(ResolverAligned(t, v))) = {{"repair"}}
         /\ TargetFamily(Succeeding(SelectorAligned(t, v)), target) = {{"environment"}}
         /\ TargetFamily(Succeeding(ResolverAligned(t, v)), target) = {{"policy"}}
<1>1. Succeeding(SelectorAligned(t, v)) = {s \in SUBSET Atoms : "refresh" \in s}
  BY TwinOutcomes DEF Succeeding
<1>2. Succeeding(ResolverAligned(t, v)) = {s \in SUBSET Atoms : "repair" \in s}
  BY TwinOutcomes DEF Succeeding
<1>3. /\ "refresh" \in Atoms /\ "repair" \in Atoms
      /\ target["refresh"] = "environment" /\ target["repair"] = "policy"
  BY DEF Atoms, target
<1>4. QED BY <1>1, <1>2, <1>3, OneAtomNeeded

\* The twins generated from a task pass the generator's own check of the construction.
THEOREM TwinsConstructed ==
  ASSUME NEW t, NEW v, Task(t, v)
  PROVE  TwinConstruction(SelectorAligned(t, v), ResolverAligned(t, v))
<1> DEFINE a == SelectorAligned(t, v)
           b == ResolverAligned(t, v)
<1>1. Shared(a) = Shared(b) /\ a.variant = v
  BY DEF Shared, SelectorAligned, ResolverAligned, SourceRecord
<1>2. a.selected # b.selected
  BY DEF SelectorAligned, ResolverAligned, SourceRecord, Task, ValidTemplate
<1>3. {} \in SUBSET Atoms /\ {"refresh"} \in SUBSET Atoms /\ {"repair"} \in SUBSET Atoms
      /\ Atoms \in SUBSET Atoms /\ "refresh" \in Atoms /\ "repair" \in Atoms
  BY DEF Atoms
<1>4. Matrix(a) = <<v.observed, v.intended, v.observed, v.intended>>
  BY <1>3, TwinOutcomes DEF Matrix
<1>5. Matrix(b) = <<v.observed, v.observed, v.intended, v.intended>>
  BY <1>3, TwinOutcomes DEF Matrix
<1>6. QED BY <1>1, <1>2, <1>4, <1>5 DEF TwinConstruction

\* Without an intervention the twins cannot be told apart, nor by the owner; the epoch and
\* the receipt of a refresh each tell them apart.
THEOREM TwinsLookAlike ==
  ASSUME NEW t, NEW v, Task(t, v)
  PROVE  LET a == SelectorAligned(t, v)
             b == ResolverAligned(t, v)
         IN  /\ Replay(a, {}) = Replay(b, {}) /\ ProbeOf(a, "owner") = ProbeOf(b, "owner")
             /\ ProbeOf(a, "epoch") # ProbeOf(b, "epoch")
             /\ Replay(a, {"refresh"}) # Replay(b, {"refresh"})
<1> DEFINE a == SelectorAligned(t, v)
           b == ResolverAligned(t, v)
<1>1. a.variant = v /\ b.variant = v /\ a.epoch = v.alternate /\ b.epoch = v.reference
  BY DEF SelectorAligned, ResolverAligned, SourceRecord
<1>2. {} \in SUBSET Atoms /\ {"refresh"} \in SUBSET Atoms
  BY DEF Atoms
<1>3. /\ Resolved(a, {}) = v.observed /\ Resolved(b, {}) = v.observed
      /\ ~ Success(a, {}) /\ ~ Success(b, {})
  BY <1>2, TwinOutcomes
<1>4. Success(a, {"refresh"}) /\ ~ Success(b, {"refresh"})
  BY <1>2, TwinOutcomes
<1>5. Replay(a, {}) = Replay(b, {})
  BY <1>1, <1>3 DEF Replay, PublicTrace, Success
<1>6. Replay(a, {"refresh"}).outcome # Replay(b, {"refresh"}).outcome
  BY <1>4 DEF Replay
<1>7. v.reference # v.alternate
  BY DEF Task, ValidVariant
<1>8. QED BY <1>1, <1>5, <1>6, <1>7 DEF ProbeOf

-----------------------------------------------------------------------------
(* The corpus, its views and the key *)

\* What a corpus is, from its generation on.
Generated ==
  /\ catalog \in Catalogs
  /\ corpus # {} => /\ ValidCatalog(catalog) /\ ValidCorpus(corpus, catalog)
                    /\ \E s \in Seeds : corpus = Corpus(s, catalog)

-----------------------------------------------------------------------------
(* The completions of a corpus. *)

\* Every pair is the twins of a task of the catalog, sealed under one seed.
LEMMA PairsAreTwins ==
  ASSUME Generated, NEW p \in corpus
  PROVE  \E s \in Seeds, v \in catalog.variants :
           LET t == catalog.templates[v.template]
               a == SelectorAligned(t, v)
               b == ResolverAligned(t, v)
           IN  /\ Task(t, v) /\ a \in Authored /\ b \in Authored
               /\ p.completions = {Seal(s, a), Seal(s, b)}
<1>1. PICK s \in Seeds : corpus = Corpus(s, catalog)
  BY DEF Generated
<1>2. PICK v \in catalog.variants : p = Pair(s, catalog.templates[v.template], v)
  BY <1>1 DEF Corpus
<1> DEFINE t == catalog.templates[v.template]
           a == SelectorAligned(t, v)
           b == ResolverAligned(t, v)
<1>3. Task(t, v)
  BY DEF Generated, ValidCatalog, Task
<1>4. Twins(t, v) = {a, b}
  BY DEF Twins
<1>5. a \in Authored /\ b \in Authored
  BY <1>4 DEF Authored, Generated
<1>6. p.completions = {Seal(s, r) : r \in Twins(t, v)}
  BY <1>2 DEF Pair
<1>7. p.completions = {Seal(s, a), Seal(s, b)}
  BY <1>4, <1>6
<1>8. QED BY <1>3, <1>5, <1>7

\* A commitment names one completion, and is a number the search of a registry knows.
LEMMA CommitmentNamesOne ==
  ASSUME Generated, NEW x \in CompletionsOf(corpus)
  PROVE  /\ x.commitment \in AllCommitments /\ x.commitment \in Nat
         /\ \A y \in CompletionsOf(corpus) : x.commitment = y.commitment => x = y
<1>1. PICK p \in corpus : x \in p.completions
  BY DEF CompletionsOf
<1>2. PICK s \in Seeds, r \in Authored : x = Seal(s, r)
  BY <1>1, PairsAreTwins
<1>3. x.commitment = Commit(s, r)
  BY <1>2 DEF Seal
<1>4. x.commitment \in AllCommitments /\ x.commitment \in Nat
  BY <1>3, CommitAssumption DEF AllCommitments
<1>5. \A y \in CompletionsOf(corpus) : x.commitment = y.commitment => x = y
  BY <1>1 DEF Generated, ValidCorpus
<1>6. QED BY <1>4, <1>5

\* Completions of one pair that need the same targets are the same completion.
LEMMA TwinsDiffer ==
  ASSUME Generated, NEW p \in corpus, NEW x \in p.completions, NEW y \in p.completions,
         FamilyBehind(x) = FamilyBehind(y)
  PROVE  x = y
<1>1. PICK s \in Seeds, v \in catalog.variants :
        LET t == catalog.templates[v.template]
            a == SelectorAligned(t, v)
            b == ResolverAligned(t, v)
        IN  Task(t, v) /\ p.completions = {Seal(s, a), Seal(s, b)}
  BY PairsAreTwins
<1> DEFINE t == catalog.templates[v.template]
           a == SelectorAligned(t, v)
           b == ResolverAligned(t, v)
<1>2. \A r : FamilyBehind(Seal(s, r)) = TargetFamily(Succeeding(r), target)
  BY DEF FamilyBehind, Seal, Succeeding
<1>3. FamilyBehind(Seal(s, a)) = {{"environment"}} /\ FamilyBehind(Seal(s, b)) = {{"policy"}}
  BY <1>1, <1>2, TwinFamilies
<1>4. FamilyBehind(Seal(s, a)) # FamilyBehind(Seal(s, b))
  BY <1>3
<1>5. QED BY <1>1, <1>4

-----------------------------------------------------------------------------
(* The registry's search over a pair of the corpus. *)

\* The candidate behind a commitment is the completion that has it.
LEMMA CandidateIs ==
  ASSUME Generated, NEW p \in corpus, NEW x \in p.completions
  PROVE  /\ x.commitment \in CommitmentsOf(p.completions)
         /\ Candidates(p)[x.commitment].result = Panel(x.record)
         /\ Candidates(p)[x.commitment].probe = [q \in Probes |-> ProbeOf(x.record, q)]
<1>1. x \in CompletionsOf(corpus) /\ \A y \in p.completions : y \in CompletionsOf(corpus)
  BY DEF CompletionsOf
<1>2. x.commitment \in CommitmentsOf(p.completions)
  BY DEF CommitmentsOf
<1>3. (CHOOSE y \in p.completions : y.commitment = x.commitment) = x
  BY <1>1, CommitmentNamesOne
<1>4. QED BY <1>2, <1>3 DEF Candidates

\* It is compatible with a record exactly if its sealed source shows the record, and its
\* profile is what repairs it.
LEMMA SearchSees ==
  ASSUME Generated, NEW p \in corpus, NEW x \in p.completions, NEW e,
         DOMAIN e.probes \subseteq Probes, DOMAIN e.replies \subseteq SUBSET Atoms
  PROVE  /\ Search(p, e)!IsCompatible(x.commitment, e) <=> Shows(x.record, e)
         /\ Search(p, e)!Profile(x.commitment) = FamilyBehind(x)
<1> DEFINE w == x.commitment
<1>1. w \in AllCommitments
  BY CommitmentNamesOne DEF CompletionsOf
<1>2. [c \in AllCommitments |-> c][w] = w
  BY <1>1
<1>3. /\ Candidates(p)[w].result = Panel(x.record)
      /\ Candidates(p)[w].probe = [q \in Probes |-> ProbeOf(x.record, q)]
  BY CandidateIs
<1>4. /\ \A s : Search(p, e)!Result(w, s) = Panel(x.record)[s]
      /\ Search(p, e)!Of(w).probe = [q \in Probes |-> ProbeOf(x.record, q)]
  BY <1>2, <1>3 DEF Search!Result, Search!Of
<1>5. \A s \in SUBSET Atoms : Search(p, e)!Result(w, s) = Replay(x.record, s)
  BY <1>4 DEF Panel
<1>6. \A q \in Probes : Search(p, e)!Of(w).probe[q] = ProbeOf(x.record, q)
  BY <1>4
<1>7. Search(p, e)!IsCompatible(w, e) <=> Shows(x.record, e)
  <2>1. {} \in SUBSET Atoms
    OBVIOUS
  <2>2. QED BY <1>5, <1>6, <2>1 DEF Search!IsCompatible, Shows
<1>8. \A s \in SUBSET Atoms : Search(p, e)!Result(w, s).outcome = "SUCCESS" <=> Success(x.record, s)
  <2>1. \A s : Replay(x.record, s).outcome = IF Success(x.record, s) THEN "SUCCESS" ELSE "FAILURE"
    BY DEF Replay
  <2>2. QED BY <1>5, <2>1
<1>9. Search(p, e)!Successes(w) = {s \in SUBSET Atoms : Success(x.record, s)}
  BY <1>8 DEF Search!Successes
<1>10. QED
  BY <1>7, <1>9 DEF Search!Profile, Search!TargetFamily, Search!Minimal, Search!TargetsOf,
                   FamilyBehind, TargetFamily, Minimal, TargetsOf

\* So the compatible candidates are the completions behind the record, all of this pair.
LEMMA CompatibleAreBehind ==
  ASSUME Generated, NEW p \in corpus, NEW e,
         DOMAIN e.probes \subseteq Probes, DOMAIN e.replies \subseteq SUBSET Atoms,
         e.manifest.commitments = CommitmentsOf(p.completions)
  PROVE  /\ Behind(e) \subseteq p.completions
         /\ Search(p, e)!Compatible(e) = CommitmentsOf(Behind(e))
<1>1. p.completions \subseteq CompletionsOf(corpus)
  BY DEF CompletionsOf
<1>2. \A x \in CompletionsOf(corpus) : x.commitment \in CommitmentsOf(p.completions) => x \in p.completions
  BY <1>1, CommitmentNamesOne DEF CommitmentsOf
<1>3. Behind(e) = {x \in p.completions : Shows(x.record, e)}
  BY <1>1, <1>2 DEF Behind, CommitmentsOf
<1>4. Search(p, e)!Compatible(e) =
        {w \in CommitmentsOf(p.completions) : Search(p, e)!IsCompatible(w, e)}
  BY DEF Search!Compatible
<1>5. \A x \in p.completions : Search(p, e)!IsCompatible(x.commitment, e) <=> Shows(x.record, e)
  BY SearchSees
<1>6. Search(p, e)!Compatible(e) = CommitmentsOf(Behind(e))
  BY <1>3, <1>4, <1>5 DEF CommitmentsOf
<1>7. QED BY <1>3, <1>6

\* The verdict over the completions behind a record: their one family, or two that differ.
LEMMA JudgeMeaning ==
  ASSUME Generated, NEW p \in corpus, NEW e,
         DOMAIN e.probes \subseteq Probes, DOMAIN e.replies \subseteq SUBSET Atoms,
         e.manifest.commitments = CommitmentsOf(p.completions),
         Behind(e) # {}
  PROVE  LET v == Search(p, e)!Judge(CommitmentsOf(Behind(e)))
         IN  /\ v.compatible = CommitmentsOf(Behind(e))
             /\ v.kind # "ambiguous_worlds" => \A x \in Behind(e) : v.family = FamilyBehind(x)
             /\ v.kind = "ambiguous_worlds" =>
                  \E x, y \in Behind(e) : FamilyBehind(x) # FamilyBehind(y)
<1> DEFINE ws == CommitmentsOf(Behind(e))
           left == Search(p, e)!Least(ws)
           profile(w) == Search(p, e)!Profile(w)
           others == {w \in ws : profile(w) # profile(left)}
           v == Search(p, e)!Judge(ws)
<1>1. Behind(e) \subseteq p.completions /\ Behind(e) \subseteq CompletionsOf(corpus)
  BY CompatibleAreBehind DEF Behind
<1>2. ws \in SUBSET Nat /\ ws # {}
  BY <1>1, CommitmentNamesOne DEF CommitmentsOf
<1>3. left \in ws
  <2>1. \E n \in ws : \A k \in ws : n <= k
    BY <1>2, LeastNatural
  <2>2. QED BY <2>1 DEF Search!Least
<1>4. \A x \in Behind(e) : profile(x.commitment) = FamilyBehind(x)
  BY <1>1, SearchSees
<1>5. PICK first \in Behind(e) : first.commitment = left
  BY <1>3 DEF CommitmentsOf
<1>6. CASE others # {}
  <2>1. v.kind = "ambiguous_worlds" /\ v.compatible = ws
    BY <1>6 DEF Search!Judge
  <2>2. PICK w \in ws : profile(w) # profile(left)
    BY <1>6
  <2>3. PICK x \in Behind(e) : x.commitment = w
    BY <2>2 DEF CommitmentsOf
  <2>4. FamilyBehind(x) # FamilyBehind(first)
    BY <1>4, <1>5, <2>2, <2>3
  <2>5. QED BY <2>1, <2>4
<1>7. CASE others = {}
  <2>1. v.kind = Search(p, e)!VerdictKind(profile(left)) /\ v.compatible = ws /\ v.family = profile(left)
    BY <1>7 DEF Search!Judge
  <2>2. v.kind # "ambiguous_worlds"
    BY <2>1 DEF Search!VerdictKind
  <2>3. \A x \in Behind(e) : x.commitment \in ws
    BY DEF CommitmentsOf
  <2>4. \A x \in Behind(e) : profile(x.commitment) = profile(left)
    BY <1>7, <2>3
  <2>5. QED BY <1>4, <2>1, <2>2, <2>4
<1>8. QED BY <1>6, <1>7
-----------------------------------------------------------------------------
(* What authoring lets through. *)

\* The facts of one authored case: its pair, the record it is about, what validation found.
LEMMA CaseFacts ==
  ASSUME Authorable, NEW r \in views.routes, NEW k \in CasesOf(r)
  PROVE  LET c == TruthCase(r, k)
             p == PairFor(r)
             e == k.evidence
         IN  /\ p \in corpus /\ e.manifest.commitments = CommitmentsOf(p.completions)
             /\ DOMAIN e.probes \subseteq Probes /\ DOMAIN e.replies \subseteq SUBSET Atoms
             /\ Search(p, e)!Compatible(e) # {}
             /\ ValidTruthCase(c) /\ CaseBound(c, TruthRoute(r))
             /\ \A x \in r.completions : \E y \in p.completions :
                  x.episode = y.episode /\ x.commitment = y.commitment
<1> DEFINE c == TruthCase(r, k)
           p == PairFor(r)
           e == k.evidence
<1>1. p \in corpus
  <2>1. \E q \in corpus : q.id = r.id
    BY DEF Authorable
  <2>2. QED BY <2>1 DEF PairFor
<1>2. /\ e.manifest = r.manifest /\ CommitmentsOf(p.completions) = r.manifest.commitments
      /\ Search(p, e)!Compatible(e) # {}
  BY DEF Authorable, Attributable
<1>3. \A x \in r.completions : \E y \in p.completions :
         x.episode = y.episode /\ x.commitment = y.commitment
  <2>1. SUFFICES ASSUME NEW x \in r.completions
                 PROVE  \E y \in p.completions : x.episode = y.episode /\ x.commitment = y.commitment
    OBVIOUS
  <2>2. {<<y.episode, y.commitment, y.record>> : y \in p.completions} =
          {<<y.episode, y.commitment, y.snapshot>> : y \in r.completions}
    BY DEF Authorable, Provenance
  <2>3. <<x.episode, x.commitment, x.snapshot>> \in
          {<<y.episode, y.commitment, y.record>> : y \in p.completions}
    BY <2>1, <2>2
  <2>4. PICK y \in p.completions :
          <<x.episode, x.commitment, x.snapshot>> = <<y.episode, y.commitment, y.record>>
    BY <2>3
  <2>5. QED BY <2>4
<1>4. c \in AuthoredTruth.cases
  BY DEF AuthoredTruth
<1>5. ValidTruthCase(c) /\ \E q \in AuthoredTruth.routes : CaseBound(c, q)
  BY <1>4 DEF Authorable, ValidTruth
<1>6. CaseBound(c, TruthRoute(r))
  <2>1. PICK q \in AuthoredTruth.routes : CaseBound(c, q)
    BY <1>5
  <2>2. q = c.route
    BY <2>1 DEF CaseBound
  <2>3. c.route = TruthRoute(r)
    BY DEF TruthCase
  <2>4. QED BY <2>1, <2>2, <2>3
<1>7. c.public = k /\ c.evidence = e /\ c.view = k.view
  BY DEF TruthCase
<1>8. ValidCase(c.public)
  BY <1>5 DEF ValidTruthCase
<1>9. DOMAIN e.probes \subseteq Probes /\ DOMAIN e.replies \subseteq SUBSET Atoms
  BY <1>7, <1>8 DEF ValidCase, ProbesShown, RepliesShown, Probes, Atoms
<1>10. QED BY <1>1, <1>2, <1>3, <1>5, <1>6, <1>9

\* Whatever the views and the anchors: an authored case is right about its evidence.
LEMMA AuthoredCaseRight ==
  ASSUME Generated, Authorable, NEW c \in AuthoredTruth.cases
  PROVE  Right(c)
<1>a. PICK r \in views.routes : \E k \in CasesOf(r) : c = TruthCase(r, k)
  BY DEF AuthoredTruth
<1>1. PICK k \in CasesOf(r) : c = TruthCase(r, k)
  BY <1>a
<1> DEFINE p == PairFor(r)
           e == k.evidence
           behind == Behind(e)
           expected == {x \in r.completions : x.evidence[k.view] = e}
           v == Search(p, e)!Judge(Search(p, e)!Compatible(e))
<1>2. /\ p \in corpus /\ e.manifest.commitments = CommitmentsOf(p.completions)
      /\ DOMAIN e.probes \subseteq Probes /\ DOMAIN e.replies \subseteq SUBSET Atoms
      /\ Search(p, e)!Compatible(e) # {}
  BY CaseFacts
<1>3. ValidTruthCase(c) /\ CaseBound(c, TruthRoute(r))
  BY <1>1, CaseFacts
<1>4. \A x \in r.completions : \E y \in p.completions :
         x.episode = y.episode /\ x.commitment = y.commitment
  BY CaseFacts
<1>5. behind \subseteq p.completions /\ Search(p, e)!Compatible(e) = CommitmentsOf(behind)
  BY <1>2, CompatibleAreBehind
<1>6. behind # {}
  BY <1>2, <1>5 DEF CommitmentsOf
<1>7. /\ v.compatible = CommitmentsOf(behind)
      /\ v.kind # "ambiguous_worlds" => \A x \in behind : v.family = FamilyBehind(x)
      /\ v.kind = "ambiguous_worlds" => \E x, y \in behind : FamilyBehind(x) # FamilyBehind(y)
  BY <1>2, <1>5, <1>6, JudgeMeaning
<1>8. /\ c.evidence = e /\ c.view = k.view /\ c.certificate = Certificate(r, e)
      /\ TruthRoute(r).sources = r.completions
  BY <1>1 DEF TruthCase, TruthRoute
<1>9. /\ c.certificate.kind = v.kind /\ c.certificate.family = v.family
      /\ c.certificate.compatible = v.compatible
  BY <1>8 DEF Certificate
<1>10. c.episodes = {x.episode : x \in expected} /\ c.certificate.compatible = CommitmentsOf(expected)
  BY <1>3, <1>8 DEF CaseBound
<1>11. \A y \in p.completions, z \in p.completions : y.commitment = z.commitment => y = z
  BY <1>2, CommitmentNamesOne DEF CompletionsOf
<1>12. CommitmentsOf(expected) = CommitmentsOf(behind)
  BY <1>7, <1>9, <1>10
<1>13. c.episodes = {y.episode : y \in behind}
  <2>1. ASSUME NEW x \in expected PROVE \E y \in behind : x.episode = y.episode
    <3>1. PICK y \in p.completions : x.episode = y.episode /\ x.commitment = y.commitment
      BY <1>4
    <3>2. PICK z \in behind : z.commitment = x.commitment
      BY <1>12 DEF CommitmentsOf
    <3>3. QED BY <1>5, <1>11, <3>1, <3>2
  <2>2. ASSUME NEW y \in behind PROVE \E x \in expected : x.episode = y.episode
    <3>1. PICK x \in expected : x.commitment = y.commitment
      BY <1>12 DEF CommitmentsOf
    <3>2. PICK z \in p.completions : x.episode = z.episode /\ x.commitment = z.commitment
      BY <1>4
    <3>3. QED BY <1>5, <1>11, <3>1, <3>2
  <2>3. QED BY <1>10, <2>1, <2>2
<1>14. ASSUME c.certificate.kind # "ambiguous_worlds", NEW x \in behind
       PROVE  c.witnesses = Repairs(x)
  <2> DEFINE source == CHOOSE y \in p.completions : y.commitment \in CommitmentsOf(expected)
  <2>1. c.view \notin SharedViews
    BY <1>3, <1>14 DEF ValidTruthCase
  <2>2. c.witnesses = Witnesses(Panel(source.record))
    BY <1>1, <1>8, <2>1 DEF TruthCase
  <2>3. source \in p.completions /\ source.commitment \in CommitmentsOf(expected)
    <3>1. \E y \in p.completions : y.commitment \in CommitmentsOf(expected)
      BY <1>5, <1>6, <1>12 DEF CommitmentsOf
    <3>2. QED BY <3>1
  <2>4. source \in behind
    <3>1. PICK z \in behind : z.commitment = source.commitment
      BY <1>12, <2>3 DEF CommitmentsOf
    <3>2. QED BY <1>5, <1>11, <2>3, <3>1
  <2>5. FamilyBehind(x) = FamilyBehind(source)
    BY <1>7, <1>9, <1>14, <2>4
  <2>6. x = source
    BY <1>2, <1>5, <2>3, <2>5, TwinsDiffer
  <2>7. \A s \in SUBSET Atoms : Panel(x.record)[s].outcome = IF Success(x.record, s) THEN "SUCCESS" ELSE "FAILURE"
    BY DEF Panel, Replay
  <2>8. SuccessesIn(Panel(x.record)) = {s \in SUBSET Atoms : Success(x.record, s)}
    BY <2>7 DEF SuccessesIn
  <2>9. QED BY <2>2, <2>6, <2>8 DEF Witnesses, Repairs
<1>15. QED
  BY <1>7, <1>8, <1>9, <1>13, <1>14 DEF Right
-----------------------------------------------------------------------------
(* What the reference methods say of an authored case. *)

LEMMA FewObservations ==
  ASSUME NEW view
  PROVE  /\ Cardinality(ProbesShown(view)) <= 1
         /\ ProbesShown(view) = {} \/ RepliesShown(view) = {}
<1>1. ProbesShown(view) = {} \/ \E q : ProbesShown(view) = {q}
  BY DEF ProbesShown
<1>2. Cardinality(ProbesShown(view)) = 0 \/ Cardinality(ProbesShown(view)) = 1
  BY <1>1, FS_EmptySet, FS_Singleton
<1>3. ProbesShown(view) = {} \/ RepliesShown(view) = {}
  BY DEF ProbesShown, RepliesShown
<1>4. QED BY <1>2, <1>3

\* A completion whose refresh succeeds is repaired by the refresh, one whose refresh fails
\* by the policy.
LEMMA RefreshTells ==
  ASSUME Generated, NEW p \in corpus, NEW x \in p.completions
  PROVE  IF Replay(x.record, {"refresh"}).outcome = "SUCCESS"
         THEN FamilyBehind(x) = {{"environment"}} /\ Repairs(x) = {{"refresh"}}
         ELSE FamilyBehind(x) = {{"policy"}} /\ Repairs(x) = {{"repair"}}
<1>1. PICK s \in Seeds, v \in catalog.variants :
        LET t == catalog.templates[v.template]
            a == SelectorAligned(t, v)
            b == ResolverAligned(t, v)
        IN  Task(t, v) /\ p.completions = {Seal(s, a), Seal(s, b)}
  BY PairsAreTwins
<1> DEFINE t == catalog.templates[v.template]
           a == SelectorAligned(t, v)
           b == ResolverAligned(t, v)
<1>2. \A y : /\ FamilyBehind(y) = TargetFamily(Succeeding(y.record), target)
              /\ Repairs(y) = Minimal(Succeeding(y.record))
  BY DEF FamilyBehind, Repairs, Succeeding
<1>3. \A r : Replay(r, {"refresh"}).outcome = IF Success(r, {"refresh"}) THEN "SUCCESS" ELSE "FAILURE"
  BY DEF Replay
<1>4. Success(a, {"refresh"}) /\ ~ Success(b, {"refresh"})
  <2>1. {"refresh"} \in SUBSET Atoms
    BY DEF Atoms
  <2>2. QED BY <1>1, <2>1, TwinOutcomes
<1>5. x.record = a \/ x.record = b
  BY <1>1 DEF Seal
<1>6. CASE x.record = a
  BY <1>1, <1>2, <1>3, <1>4, <1>6, TwinFamilies
<1>7. CASE x.record = b
  BY <1>1, <1>2, <1>3, <1>4, <1>7, TwinFamilies
<1>8. QED BY <1>5, <1>6, <1>7

LEMMA AuthoredCaseHonest ==
  ASSUME Generated, Authorable, NEW c \in AuthoredTruth.cases
  PROVE  Honest(c)
<1>1. PICK r \in views.routes : \E k \in CasesOf(r) : c = TruthCase(r, k)
  BY DEF AuthoredTruth
<1>2. PICK k \in CasesOf(r) : c = TruthCase(r, k)
  BY <1>1
<1> DEFINE p == PairFor(r)
           e == k.evidence
<1>3. c.evidence = e /\ c.view = k.view /\ c.public = k
  BY <1>2 DEF TruthCase
<1>4. /\ p \in corpus /\ e.manifest.commitments = CommitmentsOf(p.completions)
      /\ DOMAIN e.probes \subseteq Probes /\ DOMAIN e.replies \subseteq SUBSET Atoms
      /\ Search(p, e)!Compatible(e) # {} /\ ValidTruthCase(c)
  BY <1>2, CaseFacts
<1>5. Right(c)
  BY AuthoredCaseRight
<1>6. /\ e.baseline.outcome = "FAILURE"
      /\ DOMAIN e.probes = ProbesShown(c.view) /\ DOMAIN e.replies = RepliesShown(c.view)
  BY <1>3, <1>4 DEF ValidTruthCase, ValidCase
<1>7. Behind(e) \subseteq p.completions /\ Behind(e) # {}
  BY <1>4, CompatibleAreBehind DEF CommitmentsOf
<1>8. PICK x \in Behind(e) : x \in p.completions
  BY <1>7
<1>9. Shows(x.record, e)
  BY <1>8 DEF Behind
<1>10. AcceptsRequest(e)
  <2>1. \A s : Replay(x.record, s).trace.interventions = s
    BY DEF Replay, PublicTrace
  <2>2. /\ e.baseline.trace.interventions = {}
        /\ \A s \in DOMAIN e.replies : e.replies[s].trace.interventions = s
    BY <1>9, <2>1 DEF Shows
  <2>3. DOMAIN e.replies \subseteq {{"refresh"}}
    BY <1>6 DEF RepliesShown
  <2>4. Cardinality(DOMAIN e.probes) <= 1 /\ (DOMAIN e.probes = {} \/ DOMAIN e.replies = {})
    BY <1>6, FewObservations
  <2>5. QED BY <1>4, <1>6, <2>2, <2>3, <2>4 DEF AcceptsRequest
<1>11. CASE c.view # "refresh_receipt"
  <2>1. DOMAIN e.replies = {}
    BY <1>6, <1>11 DEF RepliesShown
  <2>2. ~ Observed(e, "SUCCESS") /\ ~ Observed(e, "FAILURE")
    BY <2>1 DEF Observed
  <2>3. \A m \in Methods \ {"forced_environment"} : Predict(m, e) = Unknown
    BY <2>2 DEF Predict
  <2>4. "refresh_outcome" \in Methods \ {"forced_environment"}
    BY DEF Methods
  <2>5. QED BY <1>3, <1>10, <1>11, <2>3, <2>4 DEF Honest
<1>12. CASE c.view = "refresh_receipt"
  <2>1. /\ DOMAIN e.replies = {{"refresh"}}
        /\ e.replies[{"refresh"}] = Replay(x.record, {"refresh"})
    BY <1>6, <1>9, <1>12 DEF RepliesShown, Shows
  <2>2. \A outcome : Observed(e, outcome) <=> Replay(x.record, {"refresh"}).outcome = outcome
    BY <2>1 DEF Observed
  <2>3. c.certificate.kind = "identified_singleton"
    BY <1>4, <1>12 DEF ValidTruthCase, SharedViews
  <2>4. c.certificate.family = FamilyBehind(x) /\ c.witnesses = Repairs(x)
    BY <1>3, <1>5, <1>8, <2>3 DEF Right
  <2>5. Replay(x.record, {"refresh"}).outcome \in {"SUCCESS", "FAILURE"}
    BY DEF Replay
  <2>6. CASE Replay(x.record, {"refresh"}).outcome = "SUCCESS"
    <3>1. FamilyBehind(x) = {{"environment"}} /\ Repairs(x) = {{"refresh"}}
      BY <1>4, <1>8, <2>6, RefreshTells
    <3>2. Observed(e, "SUCCESS") /\ ~ Observed(e, "FAILURE")
      BY <2>2, <2>6
    <3>3. \A m \in Methods : Predict(m, e) = Unknown \/ Predict(m, e) = Identified("environment", "refresh")
      BY <3>2 DEF Predict, Methods
    <3>4. Predict("refresh_outcome", e) = Identified("environment", "refresh")
      BY <3>2 DEF Predict
    <3>5. Identified("environment", "refresh") # Unknown
      BY DEF Identified, Unknown
    <3>6. Identified("environment", "refresh") =
            [kind |-> c.certificate.kind, family |-> c.certificate.family, witnesses |-> c.witnesses]
      BY <2>3, <2>4, <3>1 DEF Identified
    <3>7. QED BY <1>3, <1>10, <1>12, <3>3, <3>4, <3>5, <3>6 DEF Honest
  <2>7. CASE Replay(x.record, {"refresh"}).outcome = "FAILURE"
    <3>1. FamilyBehind(x) = {{"policy"}} /\ Repairs(x) = {{"repair"}}
      BY <1>4, <1>8, <2>7, RefreshTells
    <3>2. ~ Observed(e, "SUCCESS") /\ Observed(e, "FAILURE")
      BY <2>2, <2>7
    <3>3. \A m \in Methods \ {"forced_environment"} :
             Predict(m, e) = Unknown \/ Predict(m, e) = Identified("policy", "repair")
      BY <3>2 DEF Predict, Methods
    <3>4. Predict("refresh_outcome", e) = Identified("policy", "repair")
      BY <3>2 DEF Predict
    <3>5. Identified("policy", "repair") # Unknown
      BY DEF Identified, Unknown
    <3>6. Identified("policy", "repair") =
            [kind |-> c.certificate.kind, family |-> c.certificate.family, witnesses |-> c.witnesses]
      BY <2>3, <2>4, <3>1 DEF Identified
    <3>7. QED BY <1>3, <1>10, <1>12, <3>3, <3>4, <3>5, <3>6 DEF Honest
  <2>8. QED BY <2>5, <2>6, <2>7
<1>13. QED BY <1>11, <1>12

-----------------------------------------------------------------------------
(* What the projection of a corpus shows. *)

\* The evidence of a completion of a pair in one view, under adapter n.
Evidence(p, n, x, view) == ProjectEvidence(Material(p, n), CompletionMaterial(x), view)

LEMMA EvidenceFields ==
  ASSUME NEW p, NEW n, NEW x, NEW view
  PROVE  LET e == Evidence(p, n, x, view)
         IN  /\ e = [manifest |-> Manifest(p, n), baseline |-> Replay(x.record, {}),
                     probes |-> [q \in ProbesShown(view) |-> ProbeOf(x.record, q)],
                     replies |-> [s \in RepliesShown(view) |-> Replay(x.record, s)]]
             /\ e.manifest.commitments = CommitmentsOf(p.completions)
             /\ Shows(x.record, e)
<1> DEFINE e == Evidence(p, n, x, view)
           m == CompletionMaterial(x)
<1>1. ProbesShown(view) \subseteq Probes /\ RepliesShown(view) \subseteq SUBSET Atoms /\ {} \in SUBSET Atoms
  BY DEF ProbesShown, RepliesShown, Probes, Atoms
<1>2. /\ \A s \in SUBSET Atoms : m.panel[s] = Replay(x.record, s)
      /\ \A q \in Probes : m.probes[q] = ProbeOf(x.record, q)
  BY DEF CompletionMaterial, Panel
<1>3. /\ [q \in ProbesShown(view) |-> m.probes[q]] = [q \in ProbesShown(view) |-> ProbeOf(x.record, q)]
      /\ [s \in RepliesShown(view) |-> m.panel[s]] = [s \in RepliesShown(view) |-> Replay(x.record, s)]
      /\ m.panel[{}] = Replay(x.record, {})
  BY <1>1, <1>2
<1>4. Material(p, n).manifest = Manifest(p, n)
  BY DEF Material
<1>5. e = [manifest |-> Manifest(p, n), baseline |-> Replay(x.record, {}),
           probes |-> [q \in ProbesShown(view) |-> ProbeOf(x.record, q)],
           replies |-> [s \in RepliesShown(view) |-> Replay(x.record, s)]]
  BY <1>3, <1>4 DEF Evidence, ProjectEvidence
<1>6. Manifest(p, n).commitments = CommitmentsOf(p.completions)
  BY DEF Manifest
<1>7. Shows(x.record, e)
  BY <1>5 DEF Shows
<1>8. QED BY <1>5, <1>6, <1>7

\* A completion of the pair that shows the record of another one has that very record.
LEMMA SameEvidence ==
  ASSUME NEW p, NEW n, NEW x, NEW y, NEW view, Shows(y.record, Evidence(p, n, x, view))
  PROVE  Evidence(p, n, y, view) = Evidence(p, n, x, view)
<1> DEFINE e == Evidence(p, n, x, view)
<1>1. /\ DOMAIN e.probes = ProbesShown(view) /\ DOMAIN e.replies = RepliesShown(view)
      /\ e.probes = [q \in ProbesShown(view) |-> ProbeOf(x.record, q)]
      /\ e.replies = [s \in RepliesShown(view) |-> Replay(x.record, s)]
      /\ e.baseline = Replay(x.record, {})
  BY EvidenceFields
<1>2. /\ \A q \in ProbesShown(view) : ProbeOf(x.record, q) = ProbeOf(y.record, q)
      /\ \A s \in RepliesShown(view) : Replay(x.record, s) = Replay(y.record, s)
      /\ Replay(x.record, {}) = Replay(y.record, {})
  BY <1>1 DEF Shows
<1>3. /\ [q \in ProbesShown(view) |-> ProbeOf(x.record, q)] = [q \in ProbesShown(view) |-> ProbeOf(y.record, q)]
      /\ [s \in RepliesShown(view) |-> Replay(x.record, s)] = [s \in RepliesShown(view) |-> Replay(y.record, s)]
  BY <1>2
<1>4. QED BY <1>2, <1>3, EvidenceFields

\* Of two completions with different families, there are several exactly if they have
\* several families.
LEMMA SeveralFamilies ==
  ASSUME NEW S, NEW a, NEW b, S \subseteq {a, b}, FamilyBehind(a) # FamilyBehind(b)
  PROVE  Cardinality(S) > 1 <=> Cardinality({FamilyBehind(x) : x \in S}) > 1
<1> DEFINE T == {FamilyBehind(x) : x \in S}
<1>1. \A u, w : u # w => Cardinality({u, w}) = 2
  <2>1. SUFFICES ASSUME NEW u, NEW w, u # w PROVE Cardinality({u, w}) = 2
    OBVIOUS
  <2>2. IsFiniteSet({u}) /\ Cardinality({u}) = 1 /\ w \notin {u} /\ {u, w} = {u} \cup {w}
    BY <2>1, FS_Singleton
  <2>3. QED BY <2>2, FS_AddElement
<1>2. \A u : Cardinality({u}) = 1
  BY FS_Singleton
<1>3. a # b
  OBVIOUS
<1>4. CASE a \in S /\ b \in S
  <2>1. S = {a, b}
    BY <1>4
  <2>2. T = {FamilyBehind(a), FamilyBehind(b)}
    BY <2>1
  <2>3. Cardinality(S) = 2
    BY <1>1, <1>3, <2>1
  <2>4. Cardinality(T) = 2
    BY <1>1, <2>2
  <2>5. QED BY <2>3, <2>4
<1>5. CASE ~ (a \in S /\ b \in S)
  <2>1. S = {} \/ S = {a} \/ S = {b}
    BY <1>5
  <2>2. Cardinality(S) \in {0, 1} /\ Cardinality(T) \in {0, 1}
    <3>1. CASE S = {}
      <4>1. T = {}
        BY <3>1
      <4>2. QED BY <3>1, <4>1, FS_EmptySet
    <3>2. CASE S = {a}
      <4>1. T = {FamilyBehind(a)}
        BY <3>2
      <4>2. QED BY <1>2, <3>2, <4>1
    <3>3. CASE S = {b}
      <4>1. T = {FamilyBehind(b)}
        BY <3>3
      <4>2. QED BY <1>2, <3>3, <4>1
    <3>4. QED BY <2>1, <3>1, <3>2, <3>3
  <2>3. QED BY <2>2
<1>6. QED BY <1>4, <1>5

\* Each case of the views projected from a corpus is assigned to what really shows it.
LEMMA ProjectedCaseEntitled ==
  ASSUME Generated, NEW n, NEW c \in Project(Materials(corpus, n)).cases
  PROVE  Entitled(Project(Materials(corpus, n)), c)
<1> DEFINE vs == Project(Materials(corpus, n))
           shown(p, x, view) == Evidence(p, n, x, view)
<1>1. \E p \in corpus, view \in ViewKinds : \E x \in p.completions : c.evidence = shown(p, x, view)
  <2>1. PICK m \in Materials(corpus, n) : \E y \in m.completions, view \in ViewKinds :
          c = Case(m, view, ProjectEvidence(m, y, view))
    BY DEF Project
  <2>2. PICK y \in m.completions, view \in ViewKinds : c = Case(m, view, ProjectEvidence(m, y, view))
    BY <2>1
  <2>3. PICK p \in corpus : m = Material(p, n)
    BY DEF Materials
  <2>4. PICK x \in p.completions : y = CompletionMaterial(x)
    BY <2>2, <2>3 DEF Material
  <2>5. QED BY <2>2, <2>3, <2>4 DEF Case, Evidence
<1>2. PICK p \in corpus, view \in ViewKinds : \E x \in p.completions : c.evidence = shown(p, x, view)
  BY <1>1
<1>3. PICK x \in p.completions : c.evidence = shown(p, x, view)
  BY <1>2
<1> DEFINE e == c.evidence
           behind == Behind(e)
<1>4. e.manifest.commitments = CommitmentsOf(p.completions)
  BY <1>3, EvidenceFields
<1>5. behind = {y \in p.completions : Shows(y.record, e)}
  <2>1. p.completions \subseteq CompletionsOf(corpus)
    BY DEF CompletionsOf
  <2>2. \A y \in CompletionsOf(corpus) : y.commitment \in CommitmentsOf(p.completions) => y \in p.completions
    BY <2>1, CommitmentNamesOne DEF CommitmentsOf
  <2>3. QED BY <1>4, <2>1, <2>2 DEF Behind, CommitmentsOf
<1>6. ASSUME NEW a \in vs.assignments
      PROVE  \E q \in corpus, w \in ViewKinds : \E y \in q.completions :
                a.episode = y.episode /\ a.evidence = shown(q, y, w)
  <2>1. PICK m \in Materials(corpus, n), w \in ViewKinds : \E z \in Route(m).completions :
          a = Assignment(Route(m), z, w, z.evidence[w])
    BY <1>6 DEF Project, AssignmentsOf
  <2>2. PICK z \in Route(m).completions : a = Assignment(Route(m), z, w, z.evidence[w])
    BY <2>1
  <2>3. PICK q \in corpus : m = Material(q, n)
    BY DEF Materials
  <2>4. PICK y \in q.completions : z = CompletionRoute(m, CompletionMaterial(y))
    BY <2>2, <2>3 DEF Route, Material
  <2>5. z.episode = y.episode /\ z.evidence[w] = shown(q, y, w)
    BY <2>3, <2>4 DEF CompletionRoute, CompletionMaterial, EvidenceOf, Evidence
  <2>6. a.episode = y.episode /\ a.evidence = shown(q, y, w)
    BY <2>2, <2>5 DEF Assignment
  <2>7. QED BY <2>6
<1>7. ASSUME NEW y \in p.completions
      PROVE  \E a \in vs.assignments : a.episode = y.episode /\ a.evidence = shown(p, y, view)
  <2> DEFINE m == Material(p, n)
             z == CompletionRoute(m, CompletionMaterial(y))
             a == Assignment(Route(m), z, view, z.evidence[view])
  <2>1. m \in Materials(corpus, n) /\ z \in Route(m).completions
    BY DEF Materials, Route, Material
  <2>2. a \in vs.assignments
    BY <2>1 DEF Project, AssignmentsOf
  <2>3. z.episode = y.episode /\ z.evidence[view] = shown(p, y, view)
    BY DEF CompletionRoute, CompletionMaterial, EvidenceOf, Evidence
  <2>4. a.episode = y.episode /\ a.evidence = shown(p, y, view)
    BY <2>3 DEF Assignment
  <2>5. QED BY <2>2, <2>4
<1>8. ASSUME NEW a \in AssignedTo(vs, c) PROVE \E y \in behind : a.episode = y.episode
  <2>1. a \in vs.assignments /\ a.evidence = e
    BY DEF AssignedTo
  <2>2. PICK q \in corpus, w \in ViewKinds : \E y \in q.completions :
          a.episode = y.episode /\ a.evidence = shown(q, y, w)
    BY <1>6, <2>1
  <2>3. PICK y \in q.completions : a.episode = y.episode /\ a.evidence = shown(q, y, w)
    BY <2>2
  <2>4. Shows(y.record, e) /\ e.manifest.commitments = CommitmentsOf(q.completions)
    BY <2>1, <2>3, EvidenceFields
  <2>5. y \in behind
    BY <2>3, <2>4 DEF Behind, CompletionsOf, CommitmentsOf
  <2>6. QED BY <2>3, <2>5
<1>9. ASSUME NEW y \in behind PROVE \E a \in AssignedTo(vs, c) : a.episode = y.episode
  <2>1. y \in p.completions /\ Shows(y.record, shown(p, x, view))
    BY <1>3, <1>5
  <2>2. shown(p, y, view) = e
    BY <1>3, <2>1, SameEvidence
  <2>3. PICK a \in vs.assignments : a.episode = y.episode /\ a.evidence = shown(p, y, view)
    BY <1>7, <2>1
  <2>4. QED BY <2>2, <2>3 DEF AssignedTo
<1>10. {a.episode : a \in AssignedTo(vs, c)} = {y.episode : y \in behind}
  BY <1>8, <1>9
<1>11. Cardinality(behind) > 1 <=> Cardinality({FamilyBehind(y) : y \in behind}) > 1
  <2>1. PICK s \in Seeds, v \in catalog.variants :
          LET t == catalog.templates[v.template]
              a == SelectorAligned(t, v)
              b == ResolverAligned(t, v)
          IN  Task(t, v) /\ p.completions = {Seal(s, a), Seal(s, b)}
    BY PairsAreTwins
  <2> DEFINE t == catalog.templates[v.template]
             a == SelectorAligned(t, v)
             b == ResolverAligned(t, v)
  <2>2. \A r : FamilyBehind(Seal(s, r)) = TargetFamily(Succeeding(r), target)
    BY DEF FamilyBehind, Seal, Succeeding
  <2>3. FamilyBehind(Seal(s, a)) = {{"environment"}} /\ FamilyBehind(Seal(s, b)) = {{"policy"}}
    BY <2>1, <2>2, TwinFamilies
  <2>4. FamilyBehind(Seal(s, a)) # FamilyBehind(Seal(s, b))
    BY <2>3
  <2>5. behind \subseteq {Seal(s, a), Seal(s, b)}
    BY <1>5, <2>1
  <2>6. QED BY <2>4, <2>5, SeveralFamilies
<1>12. QED BY <1>10, <1>11 DEF Entitled

-----------------------------------------------------------------------------
(* The invariant: the corpus is what its generation made it, and the key is right. *)

IInv == Generated /\ TruthIsTrue /\ ReferenceMethodsHonest /\ EvidenceEntitles

LEMMA InitIInv == Init => IInv
BY DEF Init, IInv, Generated, TruthIsTrue, ReferenceMethodsHonest, EvidenceEntitles

LEMMA GenerateIInv ==
  ASSUME IInv, NEW with \in Seeds, Generate(with)
  PROVE  IInv'
<1>1. status' \notin {"authored", "projected"} /\ catalog' = catalog
  BY DEF Generate
<1>2. CASE ValidCatalog(catalog) /\ ValidCorpus(Corpus(with, catalog), catalog)
  <2>1. corpus' = Corpus(with, catalog)
    BY <1>2 DEF Generate
  <2>2. ValidCatalog(catalog') /\ ValidCorpus(corpus', catalog') /\ corpus' = Corpus(with, catalog')
    BY <1>1, <1>2, <2>1
  <2>3. QED BY <1>1, <2>2 DEF IInv, Generated, TruthIsTrue, ReferenceMethodsHonest, EvidenceEntitles
<1>3. CASE ~ (ValidCatalog(catalog) /\ ValidCorpus(Corpus(with, catalog), catalog))
  <2>1. corpus' = corpus
    BY <1>3 DEF Generate
  <2>2. QED BY <1>1, <2>1 DEF IInv, Generated, TruthIsTrue, ReferenceMethodsHonest, EvidenceEntitles
<1>4. QED BY <1>2, <1>3

\* A step that keeps catalog and corpus keeps what is known of them.
LEMMA KeepsGenerated ==
  ASSUME Generated, UNCHANGED <<catalog, corpus>>
  PROVE  Generated'
BY DEF Generated

\* What is right of a case depends on the corpus only.
LEMMA StaysRight ==
  ASSUME NEW c, Right(c), corpus' = corpus
  PROVE  Right(c)'
BY DEF Right, Behind, Shows, FamilyBehind, Repairs, CompletionsOf, CommitmentsOf

LEMMA AuthorIInv ==
  ASSUME IInv, Author
  PROVE  IInv'
<1>1. Generated' /\ status' # "projected"
  BY KeepsGenerated DEF IInv, Author, release
<1>2. status' = "authored" => Authorable /\ truth' = AuthoredTruth /\ corpus' = corpus
  BY DEF Author, release
<1>3. TruthIsTrue'
  <2>1. SUFFICES ASSUME status' = "authored", NEW c \in truth'.cases PROVE Right(c)'
    BY DEF TruthIsTrue
  <2>2. Right(c)
    BY <1>2, <2>1, AuthoredCaseRight DEF IInv
  <2>3. QED BY <1>2, <2>1, <2>2, StaysRight
<1>4. ReferenceMethodsHonest'
  <2>1. SUFFICES ASSUME status' = "authored", NEW c \in truth'.cases PROVE Honest(c)
    BY DEF ReferenceMethodsHonest
  <2>2. QED BY <1>2, <2>1, AuthoredCaseHonest DEF IInv
<1>5. EvidenceEntitles'
  BY <1>1 DEF EvidenceEntitles
<1>6. QED BY <1>1, <1>3, <1>4, <1>5 DEF IInv

LEMMA BuildViewsIInv ==
  ASSUME IInv, BuildViews
  PROVE  IInv'
<1>1. Generated' /\ corpus' = corpus /\ status' # "authored"
  BY KeepsGenerated DEF IInv, BuildViews
<1>2. EvidenceEntitles'
  <2>1. SUFFICES ASSUME status' = "projected", NEW c \in views'.cases PROVE Entitled(views, c)'
    BY DEF EvidenceEntitles
  <2>2. views' = Project(Materials(corpus, installed.adapter))
    BY <2>1 DEF BuildViews, Verified
  <2>3. Entitled(Project(Materials(corpus, installed.adapter)), c)
    BY <2>1, <2>2, ProjectedCaseEntitled DEF IInv
  <2>4. Entitled(views', c)
    BY <2>2, <2>3
  <2>5. QED BY <1>1, <2>4 DEF Entitled, Behind, Shows, FamilyBehind, CompletionsOf, AssignedTo
<1>3. QED BY <1>1, <1>2 DEF IInv, TruthIsTrue, ReferenceMethodsHonest

\* Every other call leaves the corpus alone and ends neither in a truth set authored nor in
\* views projected.
LEMMA OtherIInv ==
  ASSUME IInv,
         \/ Mispair \/ Pin \/ \E part \in {"adapter", "verifier"} : Upgrade(part)
         \/ Store \/ EditRecord \/ ExchangeTwins \/ Load
  PROVE  IInv'
<1>1. UNCHANGED <<catalog, corpus>> /\ status' \notin {"authored", "projected"}
  <2>1. CASE Mispair
    BY <2>1 DEF Mispair
  <2>2. CASE Pin
    BY <2>2 DEF Pin
  <2>3. CASE \E part \in {"adapter", "verifier"} : Upgrade(part)
    BY <2>3 DEF Upgrade
  <2>4. CASE Store
    BY <2>4 DEF Store, release
  <2>5. CASE EditRecord
    BY <2>5 DEF EditRecord, AsStored, ChangeFile, release
  <2>6. CASE ExchangeTwins
    BY <2>6 DEF ExchangeTwins, AsStored, ChangeFile, release
  <2>7. CASE Load
    BY <2>7 DEF Load, release
  <2>8. QED BY <2>1, <2>2, <2>3, <2>4, <2>5, <2>6, <2>7
<1>2. QED BY <1>1, KeepsGenerated DEF IInv, TruthIsTrue, ReferenceMethodsHonest, EvidenceEntitles

LEMMA StutterIInv ==
  ASSUME IInv, UNCHANGED vars
  PROVE  IInv'
<1>1. Generated'
  BY KeepsGenerated DEF IInv, vars
<1>2. UNCHANGED <<status, truth, views, corpus>>
  BY DEF vars
<1>3. TruthIsTrue'
  BY <1>2, StaysRight DEF IInv, TruthIsTrue
<1>4. ReferenceMethodsHonest'
  BY <1>2 DEF IInv, ReferenceMethodsHonest
<1>5. EvidenceEntitles'
  <2>1. SUFFICES ASSUME status' = "projected", NEW c \in views'.cases PROVE Entitled(views, c)'
    BY DEF EvidenceEntitles
  <2>2. Entitled(views', c)
    BY <1>2, <2>1 DEF IInv, EvidenceEntitles
  <2>3. QED BY <1>2, <2>2 DEF Entitled, Behind, Shows, FamilyBehind, CompletionsOf, AssignedTo
<1>6. QED BY <1>1, <1>3, <1>4, <1>5 DEF IInv

LEMMA NextIInv == IInv /\ [Next]_vars => IInv'
<1>1. SUFFICES ASSUME IInv, [Next]_vars PROVE IInv'
  OBVIOUS
<1>2. CASE \E with \in Seeds : Generate(with)
  BY <1>1, <1>2, GenerateIInv
<1>3. CASE Author
  BY <1>1, <1>3, AuthorIInv
<1>4. CASE Over
  BY <1>1, <1>4, StutterIInv DEF Over
<1>5. CASE UNCHANGED vars
  BY <1>1, <1>5, StutterIInv
<1>6. CASE BuildViews
  BY <1>1, <1>6, BuildViewsIInv
<1>7. QED
  BY <1>1, <1>2, <1>3, <1>4, <1>5, <1>6, OtherIInv DEF Next

\* The invariant holds throughout, for every catalog, seed and naming.
THEOREM TruthInvariant == Spec => []IInv
<1>1. QED BY InitIInv, NextIInv, PTL DEF Spec

\* Whatever a truth set was authored from, its cases are right about their evidence: the
\* episodes, the compatible completions, the verdict and the witnesses are those of the
\* completions whose sealed sources show it.
THEOREM TruthKeyIsTrue == Spec => []TruthIsTrue
<1>1. IInv => TruthIsTrue
  BY DEF IInv
<1>2. QED BY <1>1, TruthInvariant, PTL

\* Projecting a corpus gives evidence to exactly those who show it, and an ambiguous record
\* only where the completions that show it need different repairs.
THEOREM TruthEvidenceEntitles == Spec => []EvidenceEntitles
<1>1. IInv => EvidenceEntitles
  BY DEF IInv
<1>2. QED BY <1>1, TruthInvariant, PTL

\* On every case of every truth set, the reference methods read the record, claim what the
\* key says or abstain (the forced one aside), and the one that follows the refresh decides
\* exactly where one is shown.
THEOREM TruthMethodsHonest == Spec => []ReferenceMethodsHonest
<1>1. IInv => ReferenceMethodsHonest
  BY DEF IInv
<1>2. QED BY <1>1, TruthInvariant, PTL
-----------------------------------------------------------------------------
(* Every call leaves what it holds in shape. *)

\* The shape of what is held, with the versions as numbers: an installation only moves on.
InShape ==
  /\ TypeOK
  /\ installed \in [adapter : Nat, verifier : Nat]
  /\ \A a \in anchors : a.adapter \in Nat /\ a.verifier \in Nat

LEMMA InitInShape == Init => InShape
<1> SUFFICES ASSUME Init PROVE InShape
  OBVIOUS
<1>1. installed \in [adapter : Nat, verifier : Nat] /\ anchors = {}
  BY DEF Init
<1>2. loaded = NoTruth /\ status = "new"
  BY DEF Init
<1>3. QED BY <1>1, <1>2 DEF InShape, TypeOK

\* A step that keeps anchors and installation, and ends in no state of which the shape says more.
LEMMA KeepsShape ==
  ASSUME InShape, UNCHANGED <<installed, anchors, loaded>>,
         status' \notin {"generated", "projected", "mispaired", "authored"}
  PROVE  InShape'
BY DEF InShape, TypeOK

LEMMA GenerateInShape ==
  ASSUME InShape, NEW with \in Seeds, Generate(with)
  PROVE  InShape'
<1>1. UNCHANGED <<catalog, installed, anchors, loaded>> /\ status' \in {"generated", "not generated"}
  BY DEF Generate, stored
<1>2. status' = "generated" => ValidCatalog(catalog') /\ ValidCorpus(corpus', catalog')
  BY DEF Generate
<1>3. QED BY <1>1, <1>2 DEF InShape, TypeOK

LEMMA ViewsInShape ==
  ASSUME InShape, BuildViews \/ Mispair
  PROVE  InShape'
<1>1. /\ UNCHANGED <<installed, anchors, loaded>>
      /\ status' \in {"projected", "mispaired", "not projected"}
  <2>1. CASE BuildViews
    BY <2>1 DEF BuildViews, stored
  <2>2. CASE Mispair
    BY <2>2 DEF Mispair, stored
  <2>3. QED BY <2>1, <2>2
<1>2. status' \in {"projected", "mispaired"} => ValidViews(views')
  <2>1. CASE BuildViews
    BY <2>1 DEF BuildViews
  <2>2. CASE Mispair
    BY <2>2 DEF Mispair
  <2>3. QED BY <2>1, <2>2
<1>3. QED BY <1>1, <1>2 DEF InShape, TypeOK

LEMMA PinInShape ==
  ASSUME InShape, Pin
  PROVE  InShape'
<1>1. UNCHANGED <<installed, loaded>> /\ status' \in {"pinned", "not pinned"}
  BY DEF Pin, stored
<1>2. \A a \in AnchorsFor(views) :
        (\A r \in views.routes : r.manifest.adapter = installed.adapter) =>
           a.adapter = installed.adapter /\ a.verifier = installed.verifier
  BY DEF AnchorsFor, AnchorOf
<1>3. \A a \in anchors' : a \in anchors \/ (a.adapter = installed.adapter /\ a.verifier = installed.verifier)
  <2> DEFINE valid == \A r \in views.routes : r.manifest.adapter = installed.adapter
  <2>1. anchors' = IF valid THEN AnchorsFor(views) ELSE anchors
    BY DEF Pin
  <2>2. CASE valid
    BY <1>2, <2>1, <2>2
  <2>3. CASE ~ valid
    BY <2>1, <2>3
  <2>4. QED BY <2>2, <2>3
<1>4. installed.adapter \in Nat /\ installed.verifier \in Nat
  BY DEF InShape
<1>5. \A a \in anchors' : /\ a.adapter \in Nat /\ a.verifier \in Nat
                          /\ a.adapter <= installed.adapter /\ a.verifier <= installed.verifier
  BY <1>3, <1>4 DEF InShape, TypeOK
<1>6. QED BY <1>1, <1>5 DEF InShape, TypeOK

LEMMA UpgradeInShape ==
  ASSUME InShape, NEW part \in {"adapter", "verifier"}, Upgrade(part)
  PROVE  InShape'
<1>1. UNCHANGED <<anchors, loaded>> /\ status' = "upgraded"
  BY DEF Upgrade, stored
<1>2. installed' = [installed EXCEPT ![part] = @ + 1] /\ installed \in [adapter : Nat, verifier : Nat]
  BY DEF Upgrade, InShape
<1>3. /\ installed' \in [adapter : Nat, verifier : Nat]
      /\ installed.adapter <= installed'.adapter /\ installed.verifier <= installed'.verifier
  BY <1>2
<1>4. \A a \in anchors : a.adapter <= installed'.adapter /\ a.verifier <= installed'.verifier
  BY <1>2, <1>3 DEF InShape, TypeOK
<1>5. QED BY <1>1, <1>3, <1>4 DEF InShape, TypeOK

LEMMA AuthorInShape ==
  ASSUME InShape, Author
  PROVE  InShape'
<1>1. UNCHANGED <<installed, anchors, loaded>> /\ status' \in {"authored", "not authored"}
  BY DEF Author, release, stored
<1>2. status' = "authored" => ValidTruth(truth')
  <2>1. SUFFICES ASSUME status' = "authored" PROVE ValidTruth(truth')
    OBVIOUS
  <2>2. Authorable /\ truth' = AuthoredTruth
    BY <2>1 DEF Author
  <2>3. QED BY <2>2 DEF Authorable
<1>3. QED BY <1>1, <1>2 DEF InShape, TypeOK

LEMMA LoadInShape ==
  ASSUME InShape, Load
  PROVE  InShape'
<1>1. UNCHANGED <<installed, anchors>> /\ status' \in {"loaded", "not loaded"}
  BY DEF Load, release
<1>2. loaded' # NoTruth => ValidTruth(loaded')
  BY DEF Load, Accepted, InShape, TypeOK
<1>3. QED BY <1>1, <1>2 DEF InShape, TypeOK

LEMMA NextInShape == InShape /\ [Next]_vars => InShape'
<1> SUFFICES ASSUME InShape, [Next]_vars PROVE InShape'
  OBVIOUS
<1>1. CASE \E with \in Seeds : Generate(with)
  BY <1>1, GenerateInShape
<1>2. CASE BuildViews \/ Mispair
  BY <1>2, ViewsInShape
<1>3. CASE Pin
  BY <1>3, PinInShape
<1>4. CASE \E part \in {"adapter", "verifier"} : Upgrade(part)
  BY <1>4, UpgradeInShape
<1>5. CASE Author
  BY <1>5, AuthorInShape
<1>6. CASE Store
  BY <1>6, KeepsShape DEF Store, release
<1>7. CASE EditRecord \/ ExchangeTwins
  <2>1. status' = "stored" /\ UNCHANGED <<installed, anchors, loaded>>
    <3>1. CASE EditRecord
      BY <3>1 DEF EditRecord, AsStored, ChangeFile, release
    <3>2. CASE ExchangeTwins
      BY <3>2 DEF ExchangeTwins, AsStored, ChangeFile, release
    <3>3. QED BY <1>7, <3>1, <3>2
  <2>2. QED BY <2>1, KeepsShape
<1>8. CASE Load
  BY <1>8, LoadInShape
<1>9. CASE Over \/ UNCHANGED vars
  <2>1. UNCHANGED <<catalog, installed, corpus, views, anchors, truth, loaded, status>>
    BY <1>9 DEF Over, vars
  <2>2. QED BY <2>1 DEF InShape, TypeOK
<1>10. QED
  BY <1>1, <1>2, <1>3, <1>4, <1>5, <1>6, <1>7, <1>8, <1>9 DEF Next

\* Every call leaves what it holds in shape: what was generated, projected, authored or
\* parsed passes its own validation, and no anchor is of a version not yet installed.
THEOREM TruthTypeOK == Spec => []TypeOK
<1>1. InShape => TypeOK
  BY DEF InShape
<1>2. QED BY <1>1, InitInShape, NextInShape, PTL DEF Spec

-----------------------------------------------------------------------------
(* The records of views and truth sets have their fields and no other: one that is        *)
(* replaced by itself is not changed.                                                     *)

Whole(f, fields) == DOMAIN f = fields /\ f = [x \in fields |-> f[x]]

EvidenceFieldsOf == {"manifest", "baseline", "probes", "replies"}
CaseFieldsOf == {"template", "view", "evidence"}
CertificateFieldsOf ==
  {"registry", "evidence", "adapter", "verifier", "anchor", "panels", "kind", "family", "compatible", "ambiguity"}
TruthCaseFieldsOf ==
  {"id", "pair", "task", "template", "view", "evidence", "episodes", "route", "public", "certificate", "witnesses"}
TruthRouteFieldsOf == {"id", "task", "template", "manifest", "anchor", "sources"}

LEMMA SameCase ==
  \A c, d : Whole(c, TruthCaseFieldsOf) /\ Whole(d, TruthCaseFieldsOf)
             /\ (\A f \in TruthCaseFieldsOf : d[f] = c[f]) => d = c
BY DEF Whole

LEMMA SameCertificate ==
  \A c, d : Whole(c, CertificateFieldsOf) /\ Whole(d, CertificateFieldsOf)
             /\ (\A f \in CertificateFieldsOf : d[f] = c[f]) => d = c
BY DEF Whole

CaseMade(c) ==
  /\ Whole(c, CaseFieldsOf) /\ Whole(c.evidence, EvidenceFieldsOf)
  /\ c.view \in ViewKinds

CompletionMade(x) ==
  /\ Whole(x, {"episode", "commitment", "snapshot", "evidence"})
  /\ Whole(x.evidence, ViewKinds)

TwinsMade(sources) ==
  /\ \A x \in sources : CompletionMade(x)
  /\ \E x, y : sources = {x, y}

ViewsMade(vs) ==
  /\ Whole(vs, {"routes", "assignments", "cases"}) /\ IsFiniteSet(vs.routes)
  /\ \A c \in vs.cases : CaseMade(c)
  /\ \A r \in vs.routes :
       Whole(r, {"id", "template", "manifest", "completions"}) /\ TwinsMade(r.completions)

TruthCaseMade(c) ==
  /\ Whole(c, TruthCaseFieldsOf) /\ Whole(c.certificate, CertificateFieldsOf)
  /\ CaseMade(c.public)

TruthRouteMade(r) == Whole(r, TruthRouteFieldsOf) /\ TwinsMade(r.sources)

KeyFieldsOf == {"corpusRoot", "assignmentRoot", "evidenceRoot", "projectionRoot", "routes", "cases"}

KeyMade(t) ==
  /\ Whole(t, KeyFieldsOf) /\ IsFiniteSet(t.routes)
  /\ \A c \in t.cases : TruthCaseMade(c)
  /\ \A r \in t.routes : TruthRouteMade(r)

\* The images of finitely many are finitely many.
LEMMA ImageIsFinite ==
  ASSUME NEW S, IsFiniteSet(S), NEW f, f = [x \in S |-> f[x]]
  PROVE  IsFiniteSet({f[x] : x \in S})
<1>1. f \in Surjection(S, {f[x] : x \in S})
  BY DEF Surjection
<1>2. QED BY <1>1, FS_Surjection

\* Projection makes its records whole, and finitely many routes, each of twins.
LEMMA ProjectionMakes ==
  ASSUME Generated, NEW n
  PROVE  ViewsMade(Project(Materials(corpus, n)))
<1> DEFINE vs == Project(Materials(corpus, n))
<1>1. ASSUME NEW c \in vs.cases PROVE CaseMade(c)
  <2>1. PICK m \in Materials(corpus, n) : \E y \in m.completions, view \in ViewKinds :
          c = Case(m, view, ProjectEvidence(m, y, view))
    BY <1>1 DEF Project
  <2>2. PICK y \in m.completions, view \in ViewKinds : c = Case(m, view, ProjectEvidence(m, y, view))
    BY <2>1
  <2>3. c.view = view /\ c.evidence = ProjectEvidence(m, y, view) /\ Whole(c, CaseFieldsOf)
    BY <2>2 DEF Case, Whole, CaseFieldsOf
  <2>4. Whole(c.evidence, EvidenceFieldsOf)
    BY <2>3 DEF ProjectEvidence, Whole, EvidenceFieldsOf
  <2>5. QED BY <2>3, <2>4 DEF CaseMade
<1>2. ASSUME NEW r \in vs.routes
      PROVE  Whole(r, {"id", "template", "manifest", "completions"}) /\ TwinsMade(r.completions)
  <2>1. PICK m \in Materials(corpus, n) : r = Route(m)
    BY <1>2 DEF Project
  <2>2. PICK p \in corpus : m = Material(p, n)
    BY <2>1 DEF Materials
  <2> DEFINE routed(z) == CompletionRoute(m, CompletionMaterial(z))
  <2>3. r.completions = {routed(z) : z \in p.completions}
    <3>1. r.completions = {CompletionRoute(m, x) : x \in m.completions}
      BY <2>1 DEF Route
    <3>2. m.completions = {CompletionMaterial(z) : z \in p.completions}
      BY <2>2 DEF Material
    <3>3. QED BY <3>1, <3>2
  <2>4. \E a, b : p.completions = {a, b}
    <3>1. PICK s \in Seeds, v \in catalog.variants :
            LET t == catalog.templates[v.template]
            IN  p.completions = {Seal(s, SelectorAligned(t, v)), Seal(s, ResolverAligned(t, v))}
      BY <2>2, PairsAreTwins
    <3>2. QED BY <3>1
  <2>5. PICK a, b : p.completions = {a, b}
    BY <2>4
  <2>6. r.completions = {routed(a), routed(b)}
    BY <2>3, <2>5
  <2>7. ASSUME NEW z PROVE CompletionMade(routed(z))
    <3>1. routed(z).evidence = EvidenceOf(m, CompletionMaterial(z))
          /\ Whole(routed(z), {"episode", "commitment", "snapshot", "evidence"})
      BY DEF CompletionRoute, Whole
    <3>2. Whole(routed(z).evidence, ViewKinds)
      BY <3>1 DEF EvidenceOf, Whole
    <3>3. QED BY <3>1, <3>2 DEF CompletionMade
  <2>8. TwinsMade(r.completions)
    BY <2>6, <2>7 DEF TwinsMade
  <2>9. Whole(r, {"id", "template", "manifest", "completions"})
    BY <2>1 DEF Route, Whole
  <2>10. QED BY <2>8, <2>9
<1>3. Whole(vs, {"routes", "assignments", "cases"})
  <2>1. \A a, b, c : Whole([routes |-> a, assignments |-> b, cases |-> c], {"routes", "assignments", "cases"})
    BY DEF Whole
  <2>2. QED BY <2>1 DEF Project
<1>4. IsFiniteSet(vs.routes)
  <2>1. vs.routes = {Route(Material(p, n)) : p \in corpus}
    BY DEF Project, Materials
  <2>2. CASE corpus = {}
    BY <2>1, <2>2, FS_EmptySet
  <2>3. CASE corpus # {}
    <3>1. PICK s \in Seeds : corpus = Corpus(s, catalog)
      BY <2>3 DEF Generated
    <3> DEFINE f == [v \in catalog.variants |-> Route(Material(Pair(s, catalog.templates[v.template], v), n))]
    <3>2. IsFiniteSet(catalog.variants)
      BY CatalogAssumption DEF Generated
    <3>3. vs.routes = {f[v] : v \in catalog.variants}
      BY <2>1, <3>1 DEF Corpus
    <3>4. f = [v \in catalog.variants |-> f[v]]
      OBVIOUS
    <3> HIDE DEF f
    <3>5. QED BY <3>2, <3>3, <3>4, ImageIsFinite
  <2>4. QED BY <2>2, <2>3
<1>5. QED BY <1>1, <1>2, <1>3, <1>4 DEF ViewsMade

\* A completion whose evidence is replaced in one view is still whole.
LEMMA TurnedIsMade ==
  ASSUME NEW x, CompletionMade(x), NEW view \in ViewKinds, NEW shown
  PROVE  LET z == [x EXCEPT !.evidence[view] = shown]
         IN  /\ CompletionMade(z) /\ z.episode = x.episode /\ z.evidence[view] = shown
             /\ \A w \in ViewKinds \ {view} : z.evidence[w] = x.evidence[w]
BY DEF CompletionMade, Whole

\* Exchanging the evidence of twins keeps views whole.
LEMMA ExchangeMakes ==
  ASSUME ViewsMade(views), NEW r \in views.routes, NEW view \in ViewKinds
  PROVE  ViewsMade(Exchanged(r, view))
<1> DEFINE q == ExchangedRoute(r, view)
           turned(x) == [x EXCEPT !.evidence[view] = Other(r, x).evidence[view]]
           vs == Exchanged(r, view)
<1>1. /\ Whole(views, {"routes", "assignments", "cases"})
      /\ Whole(r, {"id", "template", "manifest", "completions"}) /\ TwinsMade(r.completions)
  BY DEF ViewsMade
<1>2. /\ vs.cases = views.cases /\ vs.routes = (views.routes \ {r}) \cup {q}
      /\ Whole(vs, {"routes", "assignments", "cases"})
  <2> DEFINE routes == (views.routes \ {r}) \cup {q}
  <2>1. vs = [views EXCEPT !.routes = routes, !.assignments = AssignmentsOf(routes)]
    BY DEF Exchanged
  <2> HIDE DEF routes, vs
  <2>2. QED BY <1>1, <2>1 DEF Whole, routes
<1>3. /\ q.completions = {turned(x) : x \in r.completions}
      /\ Whole(q, {"id", "template", "manifest", "completions"})
  <2>1. q = [r EXCEPT !.completions = {turned(x) : x \in r.completions}]
    BY DEF ExchangedRoute
  <2> HIDE DEF turned, q
  <2>2. QED BY <1>1, <2>1 DEF Whole
<1>4. ASSUME NEW x \in r.completions PROVE CompletionMade(turned(x))
  BY <1>1, <1>4, TurnedIsMade DEF TwinsMade
<1>5. \E a, b : q.completions = {a, b}
  <2>1. PICK a, b : r.completions = {a, b}
    BY <1>1 DEF TwinsMade
  <2>2. q.completions = {turned(a), turned(b)}
    BY <1>3, <2>1
  <2>3. QED BY <2>2
<1>6. TwinsMade(q.completions)
  BY <1>3, <1>4, <1>5 DEF TwinsMade
<1>7. IsFiniteSet(vs.routes)
  <2>1. IsFiniteSet(views.routes \ {r})
    BY FS_RemoveElement DEF ViewsMade
  <2>2. IsFiniteSet((views.routes \ {r}) \cup {q})
    BY <2>1, FS_AddElement
  <2>3. QED BY <1>2, <2>2
<1>8. QED BY <1>2, <1>3, <1>6, <1>7 DEF ViewsMade

\* So is a truth set authored from such views.
LEMMA AuthoringMakes ==
  ASSUME ViewsMade(views)
  PROVE  KeyMade(AuthoredTruth)
<1> DEFINE t == AuthoredTruth
<1>1. Whole(t, KeyFieldsOf) /\ IsFiniteSet(t.routes)
  <2>1. Whole(t, KeyFieldsOf)
    BY DEF AuthoredTruth, Whole, KeyFieldsOf
  <2> DEFINE f == [r \in views.routes |-> TruthRoute(r)]
  <2>2. t.routes = {f[r] : r \in views.routes} /\ f = [r \in views.routes |-> f[r]]
    BY DEF AuthoredTruth
  <2> HIDE DEF f, t
  <2>3. IsFiniteSet(t.routes)
    BY <2>2, ImageIsFinite DEF ViewsMade
  <2>4. QED BY <2>1, <2>3 DEF t
<1>2. ASSUME NEW q \in t.routes PROVE TruthRouteMade(q)
  <2>1. PICK r \in views.routes : q = TruthRoute(r)
    BY <1>2 DEF AuthoredTruth
  <2>2. q.sources = r.completions /\ Whole(q, TruthRouteFieldsOf)
    BY <2>1 DEF TruthRoute, Whole, TruthRouteFieldsOf
  <2>3. QED BY <2>2 DEF TruthRouteMade, ViewsMade
<1>3. ASSUME NEW c \in t.cases PROVE TruthCaseMade(c)
  <2>1. PICK r \in views.routes : \E k \in CasesOf(r) : c = TruthCase(r, k)
    BY <1>3 DEF AuthoredTruth
  <2>2. PICK k \in CasesOf(r) : c = TruthCase(r, k)
    BY <2>1
  <2>3. c.public = k /\ c.certificate = Certificate(r, k.evidence) /\ Whole(c, TruthCaseFieldsOf)
    <3> DEFINE proof == Certificate(r, k.evidence)
    <3> HIDE DEF proof
    <3>1. c.public = k /\ c.certificate = proof
      BY <2>2 DEF TruthCase, proof
    <3>2. \E a, b, e, f, g, s, w : c = [id |-> a, pair |-> r.id, task |-> b, template |-> f, view |-> g,
                                        evidence |-> k.evidence, episodes |-> e, route |-> s, public |-> k,
                                        certificate |-> proof, witnesses |-> w]
      BY <2>2, Zenon DEF TruthCase, proof
    <3>3. Whole(c, TruthCaseFieldsOf)
      BY <3>2 DEF Whole, TruthCaseFieldsOf
    <3>4. QED BY <3>1, <3>3 DEF proof
  <2>4. Whole(c.certificate, CertificateFieldsOf)
    BY <2>3 DEF Certificate, Whole, CertificateFieldsOf
  <2>5. k \in views.cases
    BY DEF CasesOf
  <2>6. QED BY <2>3, <2>4, <2>5 DEF TruthCaseMade, ViewsMade
<1>4. QED BY <1>1, <1>2, <1>3 DEF KeyMade

-----------------------------------------------------------------------------
(* What a valid truth set ties together. *)

LEMMA BoundCase ==
  ASSUME NEW t, ValidTruth(t), NEW c \in t.cases
  PROVE  /\ c.route \in t.routes /\ CaseBound(c, c.route) /\ ValidTruthCase(c)
         /\ \E x \in c.route.sources : x.evidence[c.view] = c.evidence
<1>1. ValidTruthCase(c)
  BY DEF ValidTruth
<1>2. PICK r \in t.routes : CaseBound(c, r)
  BY DEF ValidTruth
<1>3. c.route = r
  BY <1>2 DEF CaseBound
<1>4. c.certificate.compatible # {}
  BY <1>1 DEF ValidTruthCase, Shaped
<1>5. c.certificate.compatible = CommitmentsOf({x \in r.sources : x.evidence[c.view] = c.evidence})
  BY <1>2 DEF CaseBound
<1>6. \E x \in r.sources : x.evidence[c.view] = c.evidence
  BY <1>4, <1>5 DEF CommitmentsOf
<1>7. QED BY <1>1, <1>2, <1>3, <1>6

LEMMA OneOfEach ==
  ASSUME NEW t, ValidTruth(t)
  PROVE  /\ \A r, q \in t.routes : r.id = q.id => r = q
         /\ \A r, q \in t.routes : \A x \in r.sources, y \in q.sources : x.episode = y.episode => r = q /\ x = y
         /\ \A c, d \in t.cases : c.evidence = d.evidence => c = d
<1> DEFINE seen(r) == [id |-> r.id, template |-> r.template, manifest |-> r.manifest, completions |-> r.sources]
           vs == Reconstructed(t)
<1>1. vs.routes = {seen(r) : r \in t.routes}
  BY DEF Reconstructed
<1>2. Bijective(vs.routes)
  BY DEF ValidTruth, ProjectionBound, ValidViews
<1>3. ASSUME NEW r \in t.routes, NEW q \in t.routes, seen(r) = seen(q) PROVE r = q
  <2>1. r.manifest = q.manifest
    BY <1>3
  <2>2. QED BY <2>1 DEF ValidTruth
<1>4. ASSUME NEW r \in t.routes, NEW q \in t.routes, r.id = q.id PROVE r = q
  <2>1. seen(r) \in vs.routes /\ seen(q) \in vs.routes
    BY <1>1
  <2>2. seen(r).id = seen(q).id
    BY <1>4
  <2>3. seen(r) = seen(q)
    BY <1>2, <2>1, <2>2 DEF Bijective
  <2>4. QED BY <1>3, <2>3
<1>5. ASSUME NEW r \in t.routes, NEW q \in t.routes, NEW x \in r.sources, NEW y \in q.sources, x.episode = y.episode
      PROVE  r = q /\ x = y
  <2>1. seen(r) \in vs.routes /\ seen(q) \in vs.routes
    BY <1>1
  <2>2. x \in seen(r).completions /\ y \in seen(q).completions
    OBVIOUS
  <2> HIDE DEF seen, vs
  <2>3. seen(r) = seen(q) /\ x = y
    BY <1>2, <1>5, <2>1, <2>2 DEF Bijective
  <2>4. QED BY <1>3, <2>3
<1>6. ASSUME NEW c \in t.cases, NEW d \in t.cases, c.evidence = d.evidence PROVE c = d
  <2>1. c.id = Opaque("wgc", c.evidence) /\ d.id = Opaque("wgc", d.evidence)
    BY DEF ValidTruth, ValidTruthCase
  <2>2. QED BY <1>6, <2>1 DEF ValidTruth, TruthCounted
<1>7. QED BY <1>4, <1>5, <1>6

\* Every source of every route has a case in every view: the assignments are complete.
LEMMA SourceHasCase ==
  ASSUME NEW t, ValidTruth(t), NEW r \in t.routes, NEW x \in r.sources, NEW view \in ViewKinds
  PROVE  \E c \in t.cases : c.view = view /\ c.evidence = x.evidence[view] /\ c.route = r /\ x.episode \in c.episodes
<1> DEFINE seen == [id |-> r.id, template |-> r.template, manifest |-> r.manifest, completions |-> r.sources]
           vs == Reconstructed(t)
           there == {a \in vs.assignments : a.episode = x.episode /\ a.view = view}
<1>1. seen \in vs.routes /\ x \in seen.completions
  BY DEF Reconstructed
<1>2. Cardinality(there) = 1
  <2>1. EverywhereOnce(vs)
    BY DEF ValidTruth, ProjectionBound, ValidViews
  <2> HIDE DEF seen, vs
  <2>2. QED BY <1>1, <2>1 DEF EverywhereOnce
<1>3. PICK a \in vs.assignments : a.episode = x.episode /\ a.view = view
  <2> HIDE DEF there
  <2>1. there # {}
    BY <1>2, FS_EmptySet
  <2>2. QED BY <2>1 DEF there
<1>4. PICK c \in t.cases : \E e \in c.episodes :
        a = [pair |-> c.pair, task |-> c.task, episode |-> e, template |-> c.template,
             view |-> c.view, evidence |-> c.evidence]
  <2> DEFINE named(c, e) == [pair |-> c.pair, task |-> c.task, episode |-> e, template |-> c.template,
                             view |-> c.view, evidence |-> c.evidence]
  <2>1. vs.assignments = UNION {{named(c, e) : e \in c.episodes} : c \in t.cases}
    BY DEF Reconstructed
  <2> HIDE DEF vs, named
  <2>2. \E c \in t.cases : \E e \in c.episodes : a = named(c, e)
    BY <2>1
  <2>3. QED BY <2>2 DEF named
<1>5. x.episode \in c.episodes /\ c.view = view
  BY <1>3, <1>4
<1>6. c.route \in t.routes /\ CaseBound(c, c.route)
  BY BoundCase
<1>7. PICK y \in c.route.sources : y.evidence[c.view] = c.evidence /\ y.episode = x.episode
  BY <1>5, <1>6 DEF CaseBound
<1>8. c.route = r /\ y = x
  BY <1>5, <1>6, <1>7, OneOfEach
<1>9. QED BY <1>4, <1>5, <1>7, <1>8

\* The route of a case is the one its pair names.
LEMMA RouteOfPair ==
  ASSUME NEW t, ValidTruth(t), NEW c \in t.cases, NEW r \in t.routes, c.pair = r.id
  PROVE  c.route = r
<1>1. c.route \in t.routes /\ c.route.id = c.pair
  BY BoundCase DEF CaseBound
<1>2. QED BY <1>1, OneOfEach

\* Only one source shows what a view that is not shared shows.
LEMMA OneSourceShows ==
  ASSUME NEW c, NEW r, CaseBound(c, r), c.view \notin SharedViews, TwinsMade(r.sources),
         NEW x \in r.sources, x.evidence[c.view] = c.evidence
  PROVE  c.certificate.compatible = {x.commitment}
<1> DEFINE expected == {y \in r.sources : y.evidence[c.view] = c.evidence}
<1>1. Cardinality(expected) = 1 /\ c.certificate.compatible = CommitmentsOf(expected)
  BY DEF CaseBound
<1>2. IsFiniteSet(expected)
  <2>1. PICK a, b : r.sources = {a, b}
    BY DEF TwinsMade
  <2>2. IsFiniteSet({a} \cup {b})
    BY FS_Singleton, FS_AddElement
  <2>3. expected \subseteq {a} \cup {b}
    BY <2>1
  <2>4. QED BY <2>2, <2>3, FS_Subset
<1>3. x \in expected
  OBVIOUS
<1> HIDE DEF expected
<1>4. expected \ {x} = {}
  <2>1. IsFiniteSet(expected \ {x}) /\ Cardinality(expected \ {x}) = 0
    BY <1>1, <1>2, <1>3, FS_RemoveElement
  <2>2. QED BY <2>1, FS_EmptySet
<1>5. expected = {x}
  BY <1>3, <1>4
<1>6. QED BY <1>1, <1>5 DEF CommitmentsOf

\* Resealing touches the records in their routes only.
LEMMA ResealedIs ==
  ASSUME NEW to, Whole(to, KeyFieldsOf)
  PROVE  /\ Resealed(to).routes = to.routes
         /\ Resealed(to).cases = {[c EXCEPT !.route = RouteNamed(to, c)] : c \in to.cases}
<1> DEFINE vs == Reconstructed(to)
           S == {[c EXCEPT !.route = RouteNamed(to, c)] : c \in to.cases}
<1>1. Resealed(to) = [to EXCEPT !.cases = S, !.assignmentRoot = AssignmentRoot(vs), !.evidenceRoot = vs.cases,
                                !.projectionRoot = <<AssignmentRoot(vs), vs.cases>>]
  BY DEF Resealed
<1> HIDE DEF S, vs
<1>2. Resealed(to).routes = to.routes /\ Resealed(to).cases = S
  BY <1>1 DEF Whole, KeyFieldsOf
<1>3. QED BY <1>2 DEF S

\* d says what c says, only its route may be another.
SameButRoute(d, c) == \A f \in TruthCaseFieldsOf \ {"route"} : d[f] = c[f]

LEMMA ReroutedCase ==
  ASSUME NEW c, TruthCaseMade(c), NEW r
  PROVE  LET d == [c EXCEPT !.route = r] IN TruthCaseMade(d) /\ d.route = r /\ SameButRoute(d, c)
<1> DEFINE d == [c EXCEPT !.route = r]
<1>1. Whole(c, TruthCaseFieldsOf)
  BY DEF TruthCaseMade
<1>2. Whole(d, TruthCaseFieldsOf) /\ d.route = r /\ \A f \in TruthCaseFieldsOf \ {"route"} : d[f] = c[f]
  BY <1>1 DEF Whole, TruthCaseFieldsOf
<1>3. d.certificate = c.certificate /\ d.public = c.public
  BY <1>2 DEF TruthCaseFieldsOf
<1> HIDE DEF d
<1>4. TruthCaseMade(d)
  BY <1>2, <1>3 DEF TruthCaseMade
<1>5. QED BY <1>2, <1>4 DEF SameButRoute, d

\* A case whose pair names the route it already has stays as it is.
LEMMA SealedInPlace ==
  ASSUME NEW to, \A r, q \in to.routes : r.id = q.id => r = q,
         NEW c, Whole(c, TruthCaseFieldsOf), c.route \in to.routes, c.route.id = c.pair
  PROVE  [c EXCEPT !.route = RouteNamed(to, c)] = c
<1>1. RouteNamed(to, c) = c.route
  BY DEF RouteNamed
<1>2. [c EXCEPT !.route = c.route] = c
  BY DEF Whole, TruthCaseFieldsOf
<1>3. QED BY <1>1, <1>2

LEMMA NothingToSeal ==
  ASSUME NEW t, ValidTruth(t), KeyMade(t), NEW c \in t.cases, NEW to, to.routes = t.routes
  PROVE  [c EXCEPT !.route = RouteNamed(to, c)] = c
<1>1. c.route \in t.routes /\ c.route.id = c.pair /\ Whole(c, TruthCaseFieldsOf)
  BY BoundCase DEF CaseBound, KeyMade, TruthCaseMade
<1>2. \A r, q \in t.routes : r.id = q.id => r = q
  BY OneOfEach
<1>3. QED BY <1>1, <1>2, SealedInPlace

LEMMA TargetsTell ==
  /\ \A a, b \in Atoms : {{target[a]}} = {{target[b]}} => a = b
  /\ \A a \in Atoms : {{target[a]}} # {} /\ target[a] \in {"environment", "policy"}
<1>1. target["refresh"] = "environment" /\ target["repair"] = "policy"
  BY DEF target, Atoms
<1>2. \A a, b \in Atoms : target[a] = target[b] => a = b
  BY <1>1 DEF Atoms
<1>3. QED BY <1>1, <1>2 DEF Atoms

\* A shared view is ambiguous between all sources of its route, any other view is not ambiguous.
LEMMA AmbiguityMeans ==
  ASSUME NEW c, NEW r, ValidTruthCase(c), CaseBound(c, r)
  PROVE  c.certificate.ambiguity = IF c.view \in SharedViews THEN CommitmentsOf(r.sources) ELSE {}
<1>1. CASE c.view \in SharedViews
  BY <1>1 DEF CaseBound
<1>2. CASE c.view \notin SharedViews
  <2>1. c.certificate.kind = "identified_singleton" /\ Shaped(c.certificate)
    BY <1>2 DEF ValidTruthCase
  <2>2. QED BY <1>2, <2>1 DEF Shaped
<1>3. QED BY <1>1, <1>2

\* The family and the witnesses of a case: none in a shared view, elsewhere one target and
\* the one atom that acts on it.
LEMMA VerdictMeans ==
  ASSUME NEW c, NEW r, ValidTruthCase(c), CaseBound(c, r)
  PROVE  IF c.view \in SharedViews THEN c.certificate.family = {} /\ c.witnesses = {}
         ELSE \E a \in Atoms : c.certificate.family = {{target[a]}} /\ c.witnesses = {{a}}
<1>1. CASE c.view \in SharedViews
  <2>1. c.certificate.kind = "ambiguous_worlds" /\ c.witnesses = {} /\ Shaped(c.certificate)
    BY <1>1 DEF ValidTruthCase
  <2>2. QED BY <1>1, <2>1 DEF Shaped
<1>2. CASE c.view \notin SharedViews
  BY <1>2 DEF CaseBound
<1>3. QED BY <1>1, <1>2

\* A pair has finitely many cases: each shows what one of two completions shows in one of
\* four views.
LEMMA FewCasesOfPair ==
  ASSUME NEW t, ValidTruth(t), KeyMade(t), NEW r \in t.routes
  PROVE  IsFiniteSet({c \in t.cases : c.pair = r.id})
<1> DEFINE mine == {c \in t.cases : c.pair = r.id}
<1>1. IsFiniteSet(ViewKinds)
  <2>1. ViewKinds = {"trace_only", "owner_probe"} \cup {"epoch_probe", "refresh_receipt"}
    BY DEF ViewKinds
  <2>2. ASSUME NEW a, NEW b PROVE IsFiniteSet({a, b})
    <3>1. {a, b} = {a} \cup {b}
      OBVIOUS
    <3>2. IsFiniteSet({a})
      BY FS_Singleton
    <3>3. IsFiniteSet({a} \cup {b})
      BY <3>2, FS_AddElement
    <3>4. QED BY <3>1, <3>3
  <2>4. IsFiniteSet({"trace_only", "owner_probe"}) /\ IsFiniteSet({"epoch_probe", "refresh_receipt"})
    BY <2>2
  <2>5. QED BY <2>1, <2>4, FS_Union
<1>2. PICK a, b : r.sources = {a, b}
  BY DEF KeyMade, TruthRouteMade, TwinsMade
<1> DEFINE shown(x) == {x.evidence[view] : view \in ViewKinds}
           all == shown(a) \cup shown(b)
           holder(e) == CHOOSE c \in mine : c.evidence = e
<1>3. IsFiniteSet(all)
  <2>1. \A x : IsFiniteSet(shown(x))
    <3>1. SUFFICES ASSUME NEW x PROVE IsFiniteSet(shown(x))
      OBVIOUS
    <3>2. IsFiniteSet({[view \in ViewKinds |-> x.evidence[view]][w] : w \in ViewKinds})
      <4> DEFINE f == [view \in ViewKinds |-> x.evidence[view]]
      <4>1. f = [view \in ViewKinds |-> f[view]]
        OBVIOUS
      <4> HIDE DEF f
      <4>2. IsFiniteSet({f[view] : view \in ViewKinds})
        BY <1>1, <4>1, ImageIsFinite
      <4>3. QED BY <4>2 DEF f
    <3>3. QED BY <3>2
  <2>2. QED BY <2>1, FS_Union
<1>4. IsFiniteSet({holder(e) : e \in all})
  <2>1. IsFiniteSet({[e \in all |-> holder(e)][x] : x \in all})
    <3> DEFINE f == [e \in all |-> holder(e)]
    <3>1. f = [e \in all |-> f[e]]
      OBVIOUS
    <3> HIDE DEF f, all
    <3>2. IsFiniteSet({f[e] : e \in all})
      BY <1>3, <3>1, ImageIsFinite
    <3>3. QED BY <3>2 DEF f
  <2>2. QED BY <2>1
<1>5. ASSUME NEW c \in mine PROVE c \in {holder(e) : e \in all}
  <2>1. /\ c.route \in t.routes /\ CaseBound(c, c.route) /\ ValidTruthCase(c)
        /\ \E x \in c.route.sources : x.evidence[c.view] = c.evidence
    BY <1>5, BoundCase
  <2>2. c.route = r
    BY <1>5, <2>1, OneOfEach DEF CaseBound
  <2>3. c.view \in ViewKinds
    <3>1. c.public = [template |-> c.template, view |-> c.view, evidence |-> c.evidence] /\ c.public.view \in ViewKinds
      BY <1>5, <2>1 DEF ValidTruthCase, KeyMade, TruthCaseMade, CaseMade
    <3>2. QED BY <3>1
  <2>4. c.evidence \in all
    BY <1>2, <2>1, <2>2, <2>3
  <2>5. holder(c.evidence) = c
    BY <1>5, OneOfEach
  <2>6. QED BY <2>4, <2>5
<1>6. QED
  <2>1. mine \subseteq {holder(e) : e \in all}
    BY <1>5
  <2>2. QED BY <1>4, <2>1, FS_Subset

\* Each case is of one pair, and a pair has few: there are finitely many.
LEMMA CasesAreFinite ==
  ASSUME NEW t, ValidTruth(t), KeyMade(t)
  PROVE  IsFiniteSet(t.cases)
<1> DEFINE f == [r \in t.routes |-> {c \in t.cases : c.pair = r.id}]
           parts == {f[r] : r \in t.routes}
<1>1. f = [r \in t.routes |-> f[r]] /\ \A r \in t.routes : IsFiniteSet(f[r])
  BY FewCasesOfPair
<1>2. t.cases \subseteq UNION parts
  <2>1. SUFFICES ASSUME NEW c \in t.cases PROVE c \in UNION parts
    OBVIOUS
  <2>2. c.route \in t.routes /\ c.pair = c.route.id
    BY BoundCase DEF CaseBound
  <2>3. c \in f[c.route]
    BY <2>2
  <2>4. QED BY <2>2, <2>3
<1> HIDE DEF f
<1>3. IsFiniteSet(parts)
  BY <1>1, ImageIsFinite DEF KeyMade
<1>4. IsFiniteSet(UNION parts)
  BY <1>1, <1>3, FS_UNION
<1>5. QED BY <1>2, <1>4, FS_Subset

-----------------------------------------------------------------------------
(* Any case in the place of another.  Its evidence is what the sources of a route show and *)
(* no other case shows, so the validation leaves it none but the old; most of its fields   *)
(* follow from that.  A target that is replaced with its witness, and panels that are      *)
(* replaced, are what counting the targets of a pair and the uses of a panel are for.      *)

\* u is t with d in the place of c, and valid.
InPlaceOf(d, c, t, u) ==
  /\ ValidTruth(t) /\ KeyMade(t) /\ ValidTruth(u)
  /\ c \in t.cases /\ TruthCaseMade(d)
  /\ u.routes = t.routes /\ u.cases = (t.cases \ {c}) \cup {d}

LEMMA EvidenceStays ==
  ASSUME NEW t, NEW u, NEW c, NEW d, InPlaceOf(d, c, t, u)
  PROVE  d.evidence = c.evidence /\ d.view = c.view /\ d.route = c.route
<1>1. ValidTruth(t) /\ ValidTruth(u) /\ c \in t.cases /\ u.routes = t.routes /\ u.cases = (t.cases \ {c}) \cup {d}
  BY DEF InPlaceOf
<1>2. c.route \in t.routes /\ \E x \in c.route.sources : x.evidence[c.view] = c.evidence
  BY <1>1, BoundCase
<1>3. PICK x \in c.route.sources : x.evidence[c.view] = c.evidence
  BY <1>2
<1>4. c.view \in ViewKinds
  <2>1. c.public.view \in ViewKinds
    BY DEF InPlaceOf, KeyMade, TruthCaseMade, CaseMade
  <2>2. c.public = [template |-> c.template, view |-> c.view, evidence |-> c.evidence]
    BY <1>1 DEF ValidTruth, ValidTruthCase
  <2>3. QED BY <2>1, <2>2
<1>5. PICK e \in u.cases : e.view = c.view /\ e.evidence = x.evidence[c.view] /\ e.route = c.route
  BY <1>1, <1>2, <1>4, SourceHasCase
<1>6. e = d
  <2>1. CASE e \in t.cases \ {c}
    BY <1>1, <1>3, <1>5, <2>1, OneOfEach
  <2>2. QED BY <1>1, <2>1
<1>7. QED BY <1>3, <1>5, <1>6

\* All fields follow from these but the certificate and the witnesses.
LEMMA FieldsStay ==
  ASSUME NEW t, NEW u, NEW c, NEW d, InPlaceOf(d, c, t, u)
  PROVE  /\ \A f \in TruthCaseFieldsOf \ {"certificate", "witnesses"} : d[f] = c[f]
         /\ \A f \in CertificateFieldsOf \ {"family", "panels"} : d.certificate[f] = c.certificate[f]
<1> DEFINE r == c.route
<1>1. d.evidence = c.evidence /\ d.view = c.view /\ d.route = r
  BY EvidenceStays
<1>2. CaseBound(c, r) /\ ValidTruthCase(c) /\ CaseBound(d, r) /\ ValidTruthCase(d)
  <2>1. ValidTruth(t) /\ ValidTruth(u) /\ c \in t.cases /\ d \in u.cases
    BY DEF InPlaceOf
  <2>2. QED BY <1>1, <2>1, BoundCase
<1>3. /\ d.pair = c.pair /\ d.task = c.task /\ d.template = c.template /\ d.episodes = c.episodes
      /\ d.certificate.compatible = c.certificate.compatible
  BY <1>1, <1>2 DEF CaseBound
<1>4. d.id = c.id /\ d.public = c.public /\ d.certificate.evidence = c.certificate.evidence
  BY <1>1, <1>2, <1>3 DEF ValidTruthCase
<1>5. /\ d.certificate.registry = c.certificate.registry /\ d.certificate.adapter = c.certificate.adapter
      /\ d.certificate.verifier = c.certificate.verifier /\ d.certificate.anchor = c.certificate.anchor
  BY <1>2 DEF CaseBound, CertificateBound
<1>6. d.certificate.kind = c.certificate.kind
  BY <1>1, <1>2 DEF ValidTruthCase
<1>7. d.certificate.ambiguity = c.certificate.ambiguity
  BY <1>1, <1>2, AmbiguityMeans
<1>8. QED BY <1>1, <1>3, <1>4, <1>5, <1>6, <1>7 DEF TruthCaseFieldsOf, CertificateFieldsOf

\* Of the cases of a pair, two name the environment and two the policy: another target would
\* occur too rarely the one and too often the other.
LEMMA TargetStays ==
  ASSUME NEW t, NEW u, NEW c, NEW d, InPlaceOf(d, c, t, u)
  PROVE  d.certificate.family = c.certificate.family /\ d.witnesses = c.witnesses
<1> DEFINE r == c.route
<1>1. /\ ValidTruth(t) /\ KeyMade(t) /\ ValidTruth(u) /\ c \in t.cases /\ d \in u.cases
      /\ u.routes = t.routes /\ u.cases = (t.cases \ {c}) \cup {d}
  BY DEF InPlaceOf
<1>2. d.view = c.view /\ d.route = r /\ d.pair = c.pair
  BY FieldsStay DEF TruthCaseFieldsOf
<1>3. /\ r \in t.routes /\ CaseBound(c, r) /\ ValidTruthCase(c) /\ CaseBound(d, r) /\ ValidTruthCase(d)
      /\ c.pair = r.id
  <2>1. r \in t.routes /\ CaseBound(c, r) /\ ValidTruthCase(c)
    BY <1>1, BoundCase
  <2>2. CaseBound(d, r) /\ ValidTruthCase(d)
    BY <1>1, <1>2, BoundCase
  <2>3. c.pair = r.id
    BY <2>1 DEF CaseBound
  <2>4. QED BY <2>1, <2>2, <2>3
<1>4. CASE c.view \in SharedViews
  BY <1>2, <1>3, <1>4, VerdictMeans
<1>5. CASE c.view \notin SharedViews
  <2>1. PICK a \in Atoms : c.certificate.family = {{target[a]}} /\ c.witnesses = {{a}}
    BY <1>3, <1>5, VerdictMeans
  <2>2. PICK b \in Atoms : d.certificate.family = {{target[b]}} /\ d.witnesses = {{b}}
    BY <1>2, <1>3, <1>5, VerdictMeans
  <2> DEFINE family == {{target[a]}}
             naming(k) == {e \in {x \in k.cases : x.pair = r.id} : e.certificate.family = family}
  <2>3. ASSUME d.certificate.family # family PROVE FALSE
    <3>1. family = {{"environment"}} \/ family = {{"policy"}}
      BY TargetsTell
    <3>2. ASSUME NEW k, ValidTruth(k), r \in k.routes PROVE Cardinality(naming(k)) = 2
      <4>1. /\ Cardinality({e \in {x \in k.cases : x.pair = r.id} : e.certificate.family = {{"environment"}}}) = 2
            /\ Cardinality({e \in {x \in k.cases : x.pair = r.id} : e.certificate.family = {{"policy"}}}) = 2
        BY <3>2 DEF ValidTruth, TruthCounted
      <4>2. QED BY <3>1, <4>1
    <3>3. Cardinality(naming(t)) = 2 /\ Cardinality(naming(u)) = 2
      BY <1>1, <1>3, <3>2
    <3>4. c \in naming(t) /\ naming(u) = naming(t) \ {c}
      BY <1>1, <1>3, <2>1, <2>3
    <3>5. IsFiniteSet(naming(t))
      <4>1. IsFiniteSet({x \in t.cases : x.pair = r.id}) /\ naming(t) \subseteq {x \in t.cases : x.pair = r.id}
        BY <1>1, <1>3, FewCasesOfPair
      <4>2. QED BY <4>1, FS_Subset
    <3> HIDE DEF naming
    <3>6. Cardinality(naming(t) \ {c}) = Cardinality(naming(t)) - 1
      BY <3>4, <3>5, FS_RemoveElement
    <3>7. QED BY <3>3, <3>4, <3>6
  <2>4. d.certificate.family = c.certificate.family
    BY <2>1, <2>3
  <2>5. a = b
    BY <2>1, <2>2, <2>4, TargetsTell
  <2>6. QED BY <2>1, <2>2, <2>4, <2>5
<1>6. QED BY <1>4, <1>5

\* Every panel is used twice: were it replaced, the other use would be the only one.
LEMMA PanelsStay ==
  ASSUME NEW t, NEW u, NEW c, NEW d, InPlaceOf(d, c, t, u)
  PROVE  d.certificate.panels = c.certificate.panels
<1> DEFINE P == c.certificate.panels
           using(k) == {e \in k.cases : e.certificate.panels = P}
<1> SUFFICES ASSUME d.certificate.panels # P PROVE FALSE
  OBVIOUS
<1>1. /\ ValidTruth(t) /\ KeyMade(t) /\ ValidTruth(u) /\ c \in t.cases /\ u.cases = (t.cases \ {c}) \cup {d}
  BY DEF InPlaceOf
<1>2. \A k : ValidTruth(k) => \A e \in k.cases :
        Cardinality({x \in k.cases : x.certificate.panels = e.certificate.panels}) = 2
  BY DEF ValidTruth, TruthCounted
<1>3. c \in using(t) /\ Cardinality(using(t)) = 2 /\ using(u) = using(t) \ {c}
  BY <1>1, <1>2
<1>4. IsFiniteSet(using(t))
  BY <1>1, CasesAreFinite, FS_Subset
<1>5. Cardinality(using(u)) = 1
  <2> HIDE DEF using
  <2>1. Cardinality(using(t) \ {c}) = Cardinality(using(t)) - 1
    BY <1>3, <1>4, FS_RemoveElement
  <2>2. QED BY <1>3, <2>1
<1>6. PICK e \in u.cases : e.certificate.panels = P
  <2>1. using(u) # {}
    BY <1>5, FS_EmptySet
  <2>2. QED BY <2>1
<1>7. Cardinality(using(u)) = 2
  <2>1. Cardinality({x \in u.cases : x.certificate.panels = e.certificate.panels}) = 2
    BY <1>1, <1>2
  <2>2. QED BY <1>6, <2>1
<1>8. QED BY <1>5, <1>7

\* So a case can be replaced by none but itself.
LEMMA CaseStays ==
  ASSUME NEW t, NEW u, NEW c, NEW d, InPlaceOf(d, c, t, u)
  PROVE  d = c
<1>1. TruthCaseMade(c) /\ TruthCaseMade(d)
  BY DEF InPlaceOf, KeyMade
<1>2. \A f \in CertificateFieldsOf : d.certificate[f] = c.certificate[f]
  BY FieldsStay, TargetStays, PanelsStay
<1>3. d.certificate = c.certificate
  <2>1. Whole(c.certificate, CertificateFieldsOf) /\ Whole(d.certificate, CertificateFieldsOf)
    BY <1>1 DEF TruthCaseMade
  <2>2. QED BY <1>2, <2>1, SameCertificate, Zenon
<1>4. \A f \in TruthCaseFieldsOf : d[f] = c[f]
  BY <1>3, FieldsStay, TargetStays
<1>5. Whole(c, TruthCaseFieldsOf) /\ Whole(d, TruthCaseFieldsOf)
  BY <1>1 DEF TruthCaseMade
<1>6. QED BY <1>4, <1>5, SameCase, Zenon

-----------------------------------------------------------------------------
(* Any route in the place of another.  The cases of its pair repeat what it says, and the   *)
(* sources are known by what the cases say they show; only the snapshots are in no case.    *)

TwinsIn(t) == \A r \in t.routes : TwinsMade(r.sources)

\* The cases of t and u say the same: then a source of a route of t is, but for its snapshot, a
\* source of the route of u with the same name.
LEMMA SourceStays ==
  ASSUME NEW t, NEW u, ValidTruth(t), ValidTruth(u), TwinsIn(t), TwinsIn(u),
         \A c \in t.cases : \E d \in u.cases : SameButRoute(d, c),
         NEW r \in t.routes, NEW q \in u.routes, q.id = r.id, NEW x \in r.sources
  PROVE  \E y \in q.sources : y.episode = x.episode /\ y.commitment = x.commitment /\ y.evidence = x.evidence
<1>1. ASSUME NEW view \in ViewKinds
      PROVE  \E y \in q.sources :
               /\ y.episode = x.episode /\ y.evidence[view] = x.evidence[view]
               /\ view \notin SharedViews => y.commitment = x.commitment
  <2>1. PICK c \in t.cases : c.view = view /\ c.evidence = x.evidence[view] /\ c.route = r /\ x.episode \in c.episodes
    BY SourceHasCase
  <2>2. PICK d \in u.cases : SameButRoute(d, c)
    BY <2>1
  <2>3. /\ d.pair = c.pair /\ d.view = c.view /\ d.evidence = c.evidence /\ d.episodes = c.episodes
        /\ d.certificate = c.certificate
    BY <2>2 DEF SameButRoute, TruthCaseFieldsOf
  <2>4. CaseBound(c, r) /\ c.pair = r.id
    <3>1. CaseBound(c, c.route)
      BY BoundCase
    <3>2. CaseBound(c, r)
      BY <2>1, <3>1
    <3>3. QED BY <3>2 DEF CaseBound
  <2>5. d.route = q /\ CaseBound(d, q)
    BY <2>3, <2>4, RouteOfPair, BoundCase
  <2>6. PICK y \in q.sources : y.evidence[d.view] = d.evidence /\ y.episode = x.episode
    BY <2>1, <2>3, <2>5 DEF CaseBound
  <2>7. ASSUME view \notin SharedViews PROVE y.commitment = x.commitment
    <3>1. c.certificate.compatible = {x.commitment}
      BY <2>1, <2>4, <2>7, OneSourceShows DEF TwinsIn
    <3>2. d.certificate.compatible = {y.commitment}
      BY <2>1, <2>3, <2>5, <2>6, <2>7, OneSourceShows DEF TwinsIn
    <3>3. QED BY <2>3, <3>1, <3>2
  <2>8. QED BY <2>1, <2>3, <2>6, <2>7
<1>2. "epoch_probe" \in ViewKinds /\ "epoch_probe" \notin SharedViews
  BY DEF ViewKinds, SharedViews
<1>3. PICK y \in q.sources : y.episode = x.episode /\ y.commitment = x.commitment
  BY <1>1, <1>2
<1>4. \A view \in ViewKinds : y.evidence[view] = x.evidence[view]
  <2>1. \A z \in q.sources : z.episode = x.episode => z = y
    BY <1>3, OneOfEach
  <2>2. QED BY <1>1, <2>1
<1>5. Whole(x.evidence, ViewKinds) /\ Whole(y.evidence, ViewKinds)
  BY DEF TwinsIn, TwinsMade, CompletionMade
<1>6. y.evidence = x.evidence
  BY <1>4, <1>5 DEF Whole
<1>7. QED BY <1>3, <1>6

\* u is t with q in the place of r and the cases given the routes of their pairs, and valid.
RouteInPlaceOf(q, r, t, u) ==
  /\ ValidTruth(t) /\ KeyMade(t) /\ ValidTruth(u)
  /\ r \in t.routes /\ TruthRouteMade(q)
  /\ u.routes = (t.routes \ {r}) \cup {q}
  /\ \A c \in t.cases : \E d \in u.cases : SameButRoute(d, c)
  /\ \A d \in u.cases : \E c \in t.cases : SameButRoute(d, c)

\* All fields of a route are repeated in a case of its pair.
LEMMA RouteFieldsStay ==
  ASSUME NEW t, NEW u, NEW r, NEW q, RouteInPlaceOf(q, r, t, u)
  PROVE  \A f \in TruthRouteFieldsOf \ {"sources"} : q[f] = r[f]
<1>1. /\ ValidTruth(t) /\ ValidTruth(u) /\ r \in t.routes /\ u.routes = (t.routes \ {r}) \cup {q}
      /\ \A c \in t.cases : \E d \in u.cases : SameButRoute(d, c)
  BY DEF RouteInPlaceOf
<1>2. PICK c \in t.cases : c.pair = r.id
  <2> DEFINE of == {c \in t.cases : c.pair = r.id}
  <2>1. Cardinality(of) = 6
    BY <1>1 DEF ValidTruth, TruthCounted
  <2>2. of # {}
    BY <2>1, FS_EmptySet
  <2>3. QED BY <2>2
<1>3. PICK d \in u.cases : SameButRoute(d, c)
  BY <1>1
<1>4. d.pair = c.pair /\ d.task = c.task /\ d.template = c.template /\ d.certificate = c.certificate
  BY <1>3 DEF SameButRoute, TruthCaseFieldsOf
<1>5. c.route = r /\ CaseBound(c, r)
  BY <1>1, <1>2, RouteOfPair, BoundCase
<1>6. d.route \in u.routes /\ CaseBound(d, d.route)
  BY <1>1, BoundCase
<1>7. d.route = q
  <2>1. d.route.id = r.id
    BY <1>2, <1>4, <1>6 DEF CaseBound
  <2>2. CASE d.route \in t.routes \ {r}
    BY <1>1, <2>1, <2>2, OneOfEach
  <2>3. QED BY <1>1, <1>6, <2>2
<1>8. /\ q.id = r.id /\ q.task = r.task /\ q.template = r.template
      /\ q.manifest = r.manifest /\ q.anchor = r.anchor
  BY <1>4, <1>5, <1>6, <1>7 DEF CaseBound, CertificateBound
<1>9. QED BY <1>8 DEF TruthRouteFieldsOf

\* So a route says the same but for its snapshots.
LEMMA RouteStays ==
  ASSUME NEW t, NEW u, NEW r, NEW q, RouteInPlaceOf(q, r, t, u)
  PROVE  q.id = r.id /\ Known(q) = Known(r)
<1> DEFINE bare(x) == [episode |-> x.episode, commitment |-> x.commitment, evidence |-> x.evidence]
           bareOf(s) == {bare(x) : x \in s.sources}
<1>1. /\ ValidTruth(t) /\ ValidTruth(u) /\ r \in t.routes /\ q \in u.routes
      /\ \A c \in t.cases : \E d \in u.cases : SameButRoute(d, c)
      /\ \A d \in u.cases : \E c \in t.cases : SameButRoute(c, d)
  BY DEF RouteInPlaceOf, SameButRoute
<1>2. /\ TwinsIn(t) /\ TwinsIn(u)
      /\ Whole(r, TruthRouteFieldsOf) /\ Whole(q, TruthRouteFieldsOf)
  BY DEF RouteInPlaceOf, KeyMade, TruthRouteMade, TwinsIn
<1>3. \A f \in TruthRouteFieldsOf \ {"sources"} : q[f] = r[f]
  BY RouteFieldsStay
<1>4. q.id = r.id
  BY <1>3 DEF TruthRouteFieldsOf
<1>5. ASSUME NEW x \in r.sources PROVE bare(x) \in bareOf(q)
  <2>1. \E y \in q.sources : y.episode = x.episode /\ y.commitment = x.commitment /\ y.evidence = x.evidence
    BY <1>1, <1>2, <1>4, SourceStays
  <2>2. QED BY <2>1
<1>6. ASSUME NEW x \in q.sources PROVE bare(x) \in bareOf(r)
  <2>1. \E y \in r.sources : y.episode = x.episode /\ y.commitment = x.commitment /\ y.evidence = x.evidence
    BY <1>1, <1>2, <1>4, SourceStays
  <2>2. QED BY <2>1
<1>7. bareOf(q) = bareOf(r)
  BY <1>5, <1>6
<1>8. Known(q) = [q EXCEPT !.sources = bareOf(q)] /\ Known(r) = [r EXCEPT !.sources = bareOf(r)]
  BY DEF Known
<1> HIDE DEF bareOf
<1>9. Known(q) = Known(r)
  <2>1. [q EXCEPT !.sources = bareOf(r)] = [r EXCEPT !.sources = bareOf(r)]
    BY <1>2, <1>3 DEF Whole, TruthRouteFieldsOf
  <2>2. QED BY <1>7, <1>8, <2>1
<1>10. QED BY <1>4, <1>9

-----------------------------------------------------------------------------
(* The edits put a case in the place of a case, or a route in that of a route. *)

\* One field of a case taken from another, of its own or of its certificate's.
LEMMA FieldTaken ==
  ASSUME NEW c, NEW d, TruthCaseMade(c), TruthCaseMade(d)
  PROVE  /\ \A f \in TruthCaseFieldsOf : TruthCaseMade([c EXCEPT ![f] = d[f]])
         /\ \A f : TruthCaseMade([c EXCEPT !.certificate[f] = d.certificate[f]])
<1>1. /\ Whole(c, TruthCaseFieldsOf) /\ Whole(c.certificate, CertificateFieldsOf) /\ CaseMade(c.public)
      /\ Whole(d.certificate, CertificateFieldsOf) /\ CaseMade(d.public)
  BY DEF TruthCaseMade
<1>2. ASSUME NEW f \in TruthCaseFieldsOf PROVE TruthCaseMade([c EXCEPT ![f] = d[f]])
  <2> DEFINE e == [c EXCEPT ![f] = d[f]]
  <2>1. Whole(e, TruthCaseFieldsOf)
    BY <1>1 DEF Whole
  <2>2. e.certificate = c.certificate \/ e.certificate = d.certificate
    BY <1>1 DEF Whole, TruthCaseFieldsOf
  <2>3. e.public = c.public \/ e.public = d.public
    BY <1>1 DEF Whole, TruthCaseFieldsOf
  <2> HIDE DEF e
  <2>4. TruthCaseMade(e)
    BY <1>1, <2>1, <2>2, <2>3 DEF TruthCaseMade
  <2>5. QED BY <2>4 DEF e
<1>3. ASSUME NEW f PROVE TruthCaseMade([c EXCEPT !.certificate[f] = d.certificate[f]])
  <2> DEFINE v == [c.certificate EXCEPT ![f] = d.certificate[f]]
             e == [c EXCEPT !.certificate = v]
  <2>1. Whole(v, CertificateFieldsOf)
    BY <1>1 DEF Whole
  <2>2. [c EXCEPT !.certificate[f] = d.certificate[f]] = e
    OBVIOUS
  <2> HIDE DEF v
  <2>3. Whole(e, TruthCaseFieldsOf) /\ e.certificate = v /\ e.public = c.public
    BY <1>1 DEF Whole, TruthCaseFieldsOf
  <2> HIDE DEF e
  <2>4. TruthCaseMade(e)
    BY <1>1, <2>1, <2>3 DEF TruthCaseMade
  <2>5. QED BY <2>2, <2>4
<1>4. QED BY <1>2, <1>3

\* Several fields of a case written over.
LEMMA FieldsWritten ==
  ASSUME NEW c, TruthCaseMade(c)
  PROVE  /\ \A a, b : TruthCaseMade(WithTarget(c, a, b))
         /\ \A view \in ViewKinds : TruthCaseMade(WithView(c, view))
         /\ \A v, id : TruthCaseMade(WithProbes(c, v, id))
<1>1. /\ Whole(c, TruthCaseFieldsOf) /\ Whole(c.certificate, CertificateFieldsOf) /\ CaseMade(c.public)
      /\ Whole(c.public, CaseFieldsOf) /\ Whole(c.public.evidence, EvidenceFieldsOf)
  BY DEF TruthCaseMade, CaseMade
<1>2. ASSUME NEW a, NEW b
      PROVE  TruthCaseMade(WithTarget(c, a, b))
  <2> DEFINE v == [c.certificate EXCEPT !.family = a, !.kind = "identified_singleton", !.ambiguity = {}]
  <2>1. PICK e : e = [c EXCEPT !.certificate.family = a, !.certificate.kind = "identified_singleton",
                               !.certificate.ambiguity = {}, !.witnesses = b]
    OBVIOUS
  <2>2. Whole(v, CertificateFieldsOf)
    BY <1>1 DEF Whole
  <2>3. Whole(e, TruthCaseFieldsOf) /\ e.certificate = v /\ e.public = c.public
    BY <1>1, <2>1 DEF Whole, TruthCaseFieldsOf
  <2> HIDE DEF v
  <2>4. TruthCaseMade(e)
    BY <1>1, <2>2, <2>3 DEF TruthCaseMade
  <2>5. QED BY <2>1, <2>4 DEF WithTarget
<1>3. ASSUME NEW view \in ViewKinds PROVE TruthCaseMade(WithView(c, view))
  <2> DEFINE k == [c.public EXCEPT !.view = view]
  <2>1. PICK e : e = [c EXCEPT !.view = view, !.public.view = view]
    OBVIOUS
  <2>2. Whole(k, CaseFieldsOf) /\ k.evidence = c.public.evidence /\ k.view = view
    BY <1>1 DEF Whole, CaseFieldsOf
  <2>3. Whole(e, TruthCaseFieldsOf) /\ e.certificate = c.certificate /\ e.public = k
    BY <1>1, <2>1 DEF Whole, TruthCaseFieldsOf
  <2> HIDE DEF k
  <2>4. TruthCaseMade(e)
    BY <1>1, <2>2, <2>3 DEF TruthCaseMade, CaseMade
  <2>5. QED BY <2>1, <2>4 DEF WithView
<1>4. ASSUME NEW v, NEW id PROVE TruthCaseMade(WithProbes(c, v, id))
  <2> DEFINE shown == [c.public.evidence EXCEPT !.probes = v]
             k == [c.public EXCEPT !.evidence = shown]
             said == [c.certificate EXCEPT !.evidence = [c.certificate.evidence EXCEPT !.probes = v]]
  <2>1. PICK e : e = [c EXCEPT !.evidence.probes = v, !.public.evidence.probes = v,
                               !.certificate.evidence.probes = v, !.id = id]
    OBVIOUS
  <2>2. Whole(shown, EvidenceFieldsOf) /\ Whole(said, CertificateFieldsOf)
    BY <1>1 DEF Whole
  <2>3. Whole(e, TruthCaseFieldsOf) /\ e.certificate = said /\ e.public = k
    BY <1>1, <2>1 DEF Whole, TruthCaseFieldsOf
  <2> HIDE DEF shown, said
  <2>4. Whole(k, CaseFieldsOf) /\ k.evidence = shown /\ k.view = c.public.view
    BY <1>1 DEF Whole, CaseFieldsOf
  <2> HIDE DEF k
  <2>5. TruthCaseMade(e)
    BY <1>1, <2>2, <2>3, <2>4 DEF TruthCaseMade, CaseMade
  <2>6. QED BY <2>1, <2>5 DEF WithProbes
<1>5. QED BY <1>2, <1>3, <1>4

LEMMA EditedCaseMade ==
  ASSUME KeyMade(truth), NEW c \in truth.cases, NEW d \in EditedCases(c)
  PROVE  TruthCaseMade(d)
<1>1. TruthCaseMade(c) /\ DOMAIN c = TruthCaseFieldsOf /\ \A e \in truth.cases : TruthCaseMade(e)
  BY DEF KeyMade, TruthCaseMade, Whole
<1>2. \/ \E f \in DOMAIN c, e \in truth.cases : d = [c EXCEPT ![f] = e[f]]
      \/ \E f \in DOMAIN c.certificate, e \in truth.cases : d = [c EXCEPT !.certificate[f] = e.certificate[f]]
      \/ \E a \in Atoms : d = WithTarget(c, {{target[a]}}, {{a}})
      \/ \E view \in ViewKinds : d = WithView(c, view)
      \/ \E v, id : d = WithProbes(c, v, id)
  <2> DEFINE probed(v) == WithProbes(c, v, Opaque("wgc", [c.evidence EXCEPT !.probes = v]))
             Taken == {[c EXCEPT ![f] = e[f]] : f \in DOMAIN c, e \in truth.cases}
             Said == {[c EXCEPT !.certificate[f] = e.certificate[f]] : f \in DOMAIN c.certificate, e \in truth.cases}
             Targeted == {WithTarget(c, {{target[a]}}, {{a}}) : a \in Atoms}
             Viewed == {WithView(c, view) : view \in ViewKinds}
             Probed == {probed(e.evidence.probes) : e \in truth.cases}
  <2>1. EditedCases(c) = (Taken \cup Said \cup Targeted \cup Viewed \cup Probed) \ {c}
    BY DEF EditedCases
  <2>2. d \in Taken \/ d \in Said \/ d \in Targeted \/ d \in Viewed \/ d \in Probed
    <3> HIDE DEF Taken, Said, Targeted, Viewed, Probed
    <3>1. QED BY <2>1
  <2>3. CASE d \in Taken
    BY <2>3
  <2>4. CASE d \in Said
    BY <2>4
  <2>5. CASE d \in Targeted
    BY <2>5
  <2>6. CASE d \in Viewed
    BY <2>6
  <2>7. CASE d \in Probed
    <3>1. \E e \in truth.cases : d = probed(e.evidence.probes)
      <4> HIDE DEF probed
      <4>1. QED BY <2>7
    <3>2. QED BY <3>1
  <2> HIDE DEF Taken, Said, Targeted, Viewed, Probed
  <2>8. QED BY <2>2, <2>3, <2>4, <2>5, <2>6, <2>7
<1>3. CASE \/ \E f \in DOMAIN c, e \in truth.cases : d = [c EXCEPT ![f] = e[f]]
           \/ \E f \in DOMAIN c.certificate, e \in truth.cases : d = [c EXCEPT !.certificate[f] = e.certificate[f]]
  BY <1>1, <1>3, FieldTaken
<1>4. CASE \/ \E a \in Atoms : d = WithTarget(c, {{target[a]}}, {{a}})
           \/ \E view \in ViewKinds : d = WithView(c, view)
           \/ \E v, id : d = WithProbes(c, v, id)
  <2>1. \A view \in ViewKinds : TruthCaseMade(WithView(c, view))
    BY <1>1, FieldsWritten
  <2>2. \A family, witnesses : TruthCaseMade(WithTarget(c, family, witnesses))
    BY <1>1, FieldsWritten
  <2>3. \A v, id : TruthCaseMade(WithProbes(c, v, id))
    BY <1>1, FieldsWritten
  <2>4. QED BY <1>4, <2>1, <2>2, <2>3
<1>5. QED BY <1>2, <1>3, <1>4

\* A source with one field taken from another source, or under another snapshot.
LEMMA EditedSourceMade ==
  ASSUME KeyMade(truth), NEW x, CompletionMade(x), NEW y \in EditedSources(x)
  PROVE  CompletionMade(y)
<1>1. \A z \in SourcesIn(truth) : CompletionMade(z)
  BY DEF KeyMade, TruthRouteMade, TwinsMade, SourcesIn
<1>2. CASE \E f \in DOMAIN x, z \in SourcesIn(truth) : y = [x EXCEPT ![f] = z[f]]
  <2>1. PICK f \in DOMAIN x, z \in SourcesIn(truth) : y = [x EXCEPT ![f] = z[f]]
    BY <1>2
  <2>2. CompletionMade(z)
    BY <1>1
  <2>3. Whole(y, {"episode", "commitment", "snapshot", "evidence"})
        /\ (y.evidence = x.evidence \/ y.evidence = z.evidence)
    BY <2>1 DEF CompletionMade, Whole
  <2>4. QED BY <2>2, <2>3 DEF CompletionMade
<1>3. CASE \E record \in Authored : y = [x EXCEPT !.snapshot = record]
  BY <1>3 DEF CompletionMade, Whole
<1>4. QED BY <1>2, <1>3 DEF EditedSources

LEMMA EditedRouteMade ==
  ASSUME KeyMade(truth), NEW r \in truth.routes, NEW q \in EditedRoutes(r)
  PROVE  TruthRouteMade(q)
<1> DEFINE m == [completions |-> r.sources]
<1>1. Whole(r, TruthRouteFieldsOf) /\ TwinsMade(r.sources)
  BY DEF KeyMade, TruthRouteMade
<1>2. ASSUME NEW S, TwinsMade(S) PROVE TruthRouteMade([r EXCEPT !.sources = S])
  <2>1. PICK k : k = [r EXCEPT !.sources = S]
    OBVIOUS
  <2>2. Whole(k, TruthRouteFieldsOf) /\ k.sources = S
    BY <1>1, <2>1 DEF Whole, TruthRouteFieldsOf
  <2>3. QED BY <1>2, <2>1, <2>2 DEF TruthRouteMade
<1>3. \/ \E f \in DOMAIN r, s \in truth.routes : q = [r EXCEPT ![f] = s[f]]
      \/ \E x \in r.sources : \E y \in EditedSources(x) : q = [r EXCEPT !.sources = (r.sources \ {x}) \cup {y}]
      \/ \E part, n : q = [r EXCEPT !.anchor[part] = n]
      \/ \E view \in ViewKinds : q = [r EXCEPT !.sources = ExchangedRoute(m, view).completions]
  <2> DEFINE sourced(S) == [r EXCEPT !.sources = S]
             changed(x) == {sourced((r.sources \ {x}) \cup {y}) : y \in EditedSources(x)}
             Taken == {[r EXCEPT ![f] = s[f]] : f \in DOMAIN r, s \in truth.routes}
             Sourced == UNION {changed(x) : x \in r.sources}
             Anchored == {[r EXCEPT !.anchor[part] = n] : part \in {"adapter", "verifier"}, n \in 1 .. 1 + MaxUpgrades}
             Swapped == {sourced(ExchangedRoute(m, view).completions) : view \in ViewKinds}
  <2>1. EditedRoutes(r) = (Taken \cup Sourced \cup Anchored \cup Swapped) \ {r}
    BY DEF EditedRoutes
  <2>2. q \in Taken \/ q \in Sourced \/ q \in Anchored \/ q \in Swapped
    <3> HIDE DEF Taken, Sourced, Anchored, Swapped
    <3>1. QED BY <2>1
  <2>3. CASE q \in Taken
    BY <2>3
  <2>4. CASE q \in Sourced
    <3>1. PICK x \in r.sources : q \in changed(x)
      <4> HIDE DEF changed
      <4>1. QED BY <2>4
    <3>2. PICK y \in EditedSources(x) : q = sourced((r.sources \ {x}) \cup {y})
      <4> HIDE DEF sourced
      <4>1. QED BY <3>1
    <3>3. QED BY <3>2
  <2>5. CASE q \in Anchored
    BY <2>5
  <2>6. CASE q \in Swapped
    BY <2>6
  <2> HIDE DEF Taken, Sourced, Anchored, Swapped
  <2>7. QED BY <2>2, <2>3, <2>4, <2>5, <2>6
<1>4. CASE \E f \in DOMAIN r, s \in truth.routes : q = [r EXCEPT ![f] = s[f]]
  <2>1. PICK f \in DOMAIN r, s \in truth.routes : q = [r EXCEPT ![f] = s[f]]
    BY <1>4
  <2>2. TwinsMade(s.sources)
    BY DEF KeyMade, TruthRouteMade
  <2>3. Whole(q, TruthRouteFieldsOf) /\ (q.sources = r.sources \/ q.sources = s.sources)
    BY <1>1, <2>1 DEF Whole, TruthRouteFieldsOf
  <2>4. QED BY <1>1, <2>2, <2>3 DEF TruthRouteMade
<1>5. CASE \E x \in r.sources : \E y \in EditedSources(x) : q = [r EXCEPT !.sources = (r.sources \ {x}) \cup {y}]
  <2>1. PICK x \in r.sources : \E y \in EditedSources(x) : q = [r EXCEPT !.sources = (r.sources \ {x}) \cup {y}]
    BY <1>5
  <2>2. PICK y \in EditedSources(x) : q = [r EXCEPT !.sources = (r.sources \ {x}) \cup {y}]
    BY <2>1
  <2> DEFINE S == (r.sources \ {x}) \cup {y}
  <2>3. CompletionMade(y)
    BY <1>1, EditedSourceMade DEF TwinsMade
  <2>4. \E a, b : S = {a, b}
    <3>1. PICK a, b : r.sources = {a, b}
      BY <1>1 DEF TwinsMade
    <3>2. S = {a, y} \/ S = {b, y} \/ S = {y, y}
      BY <3>1
    <3> HIDE DEF S
    <3>3. QED BY <3>2
  <2>5. TwinsMade(S)
    BY <1>1, <2>3, <2>4 DEF TwinsMade
  <2> HIDE DEF S
  <2>6. TruthRouteMade([r EXCEPT !.sources = S])
    BY <1>2, <2>5
  <2>7. QED BY <2>2, <2>6 DEF S
<1>6. CASE \E part, n : q = [r EXCEPT !.anchor[part] = n]
  BY <1>1, <1>6 DEF TruthRouteMade, Whole, TruthRouteFieldsOf
<1>7. CASE \E view \in ViewKinds : q = [r EXCEPT !.sources = ExchangedRoute(m, view).completions]
  <2>1. PICK view \in ViewKinds : q = [r EXCEPT !.sources = ExchangedRoute(m, view).completions]
    BY <1>7
  <2> DEFINE S == ExchangedRoute(m, view).completions
             turned(x) == [x EXCEPT !.evidence[view] = Other(m, x).evidence[view]]
  <2>2. S = {turned(x) : x \in r.sources}
    <3>1. ExchangedRoute(m, view) = [m EXCEPT !.completions = {turned(x) : x \in m.completions}]
      BY DEF ExchangedRoute
    <3>2. m.completions = r.sources
      OBVIOUS
    <3> HIDE DEF turned
    <3>3. QED BY <3>1, <3>2
  <2>3. ASSUME NEW x \in r.sources PROVE CompletionMade(turned(x))
    BY <1>1, TurnedIsMade DEF TwinsMade
  <2>4. \E a, b : S = {a, b}
    <3>1. PICK a, b : r.sources = {a, b}
      BY <1>1 DEF TwinsMade
    <3>2. S = {turned(a), turned(b)}
      BY <2>2, <3>1
    <3> HIDE DEF S
    <3>3. QED BY <3>2
  <2> HIDE DEF S, turned
  <2>5. TwinsMade(S)
    BY <2>2, <2>3, <2>4 DEF TwinsMade
  <2>6. TruthRouteMade([r EXCEPT !.sources = S])
    BY <1>2, <2>5
  <2>7. QED BY <2>1, <2>6 DEF S
<1>8. QED BY <1>3, <1>4, <1>5, <1>6, <1>7

-----------------------------------------------------------------------------
(* The stored truth. *)

\* What lies in the file, and where it comes from: the truth set authored, or that with one record
\* changed, and then either all digests computed anew or none.
Kept ==
  /\ ViewsMade(views)
  /\ status \in {"authored", "stored", "loaded", "not loaded"} =>
       /\ truth # NoTruth /\ ValidTruth(truth) /\ KeyMade(truth)
  /\ status \notin {"stored", "loaded", "not loaded"} => edit = "none"
  /\ status \in {"stored", "loaded", "not loaded"} =>
       /\ edit \in {"none", "record", "exchange"}
       /\ edit = "none" => file = [truth |-> truth, seal |-> truth]
       /\ edit = "record" => \E to \in OneRecordChanged :
            \/ file = [truth |-> Resealed(to), seal |-> Resealed(to)]
            \/ file.truth = to /\ file.seal = truth
  /\ status = "loaded" => loaded = file.truth /\ Accepted

LEMMA ChangeForms ==
  ASSUME NEW to \in OneRecordChanged
  PROVE  \/ \E c \in truth.cases : \E d \in EditedCases(c) :
              to = [truth EXCEPT !.cases = (truth.cases \ {c}) \cup {d}]
         \/ \E r \in truth.routes : \E q \in EditedRoutes(r) :
              to = [truth EXCEPT !.routes = (truth.routes \ {r}) \cup {q}]
         \/ \E root : to = [truth EXCEPT !.corpusRoot = root]
BY DEF OneRecordChanged

\* One record of the authored truth set is changed and all digests are computed anew: what is
\* valid says what was authored, but for the provenance.
LEMMA CaseChangeVouched ==
  ASSUME KeyMade(truth), ValidTruth(truth), NEW c \in truth.cases, NEW d \in EditedCases(c),
         NEW to, to = [truth EXCEPT !.cases = (truth.cases \ {c}) \cup {d}],
         ValidTruth(Resealed(to))
  PROVE  Vouched(Resealed(to)) = Vouched(truth)
<1> DEFINE u == Resealed(to)
           sealed(e) == [e EXCEPT !.route = RouteNamed(to, e)]
<1>1. /\ to.routes = truth.routes /\ to.cases = (truth.cases \ {c}) \cup {d}
      /\ Whole(to, KeyFieldsOf)
  BY DEF KeyMade, Whole, KeyFieldsOf
<1>2. u.routes = truth.routes /\ u.cases = {sealed(e) : e \in to.cases}
  <2>1. Whole(to, KeyFieldsOf)
    BY <1>1
  <2>2. Resealed(to).routes = to.routes
        /\ Resealed(to).cases = {[e EXCEPT !.route = RouteNamed(to, e)] : e \in to.cases}
    BY ONLY <2>1, ResealedIs
  <2>3. QED BY <1>1, <2>2
<1>3. \A e \in truth.cases : sealed(e) = e
  BY <1>1, NothingToSeal
<1>4. TruthCaseMade(sealed(d))
  BY EditedCaseMade, ReroutedCase
<1> HIDE DEF sealed
<1>5. u.cases = (truth.cases \ {c}) \cup {sealed(d)}
  BY <1>1, <1>2, <1>3
<1> HIDE DEF u
<1>6. InPlaceOf(sealed(d), c, truth, u)
  BY <1>2, <1>4, <1>5 DEF InPlaceOf, u
<1>7. sealed(d) = c
  BY <1>6, CaseStays
<1>8. u.cases = truth.cases
  BY <1>5, <1>7
<1>9. QED BY <1>2, <1>8 DEF Vouched, u

LEMMA RouteChangeVouched ==
  ASSUME KeyMade(truth), ValidTruth(truth), NEW r \in truth.routes, NEW q \in EditedRoutes(r),
         NEW to, to = [truth EXCEPT !.routes = (truth.routes \ {r}) \cup {q}],
         ValidTruth(Resealed(to))
  PROVE  Vouched(Resealed(to)) = Vouched(truth)
<1> DEFINE u == Resealed(to)
           sealed(e) == [e EXCEPT !.route = RouteNamed(to, e)]
           bare(e) == [e EXCEPT !.route = Known(e.route)]
<1>1. /\ to.routes = (truth.routes \ {r}) \cup {q} /\ to.cases = truth.cases
      /\ Whole(to, KeyFieldsOf)
  BY DEF KeyMade, Whole, KeyFieldsOf
<1>2. u.routes = (truth.routes \ {r}) \cup {q} /\ u.cases = {sealed(e) : e \in truth.cases}
  <2>1. Whole(to, KeyFieldsOf)
    BY <1>1
  <2>2. Resealed(to).routes = to.routes
        /\ Resealed(to).cases = {[e EXCEPT !.route = RouteNamed(to, e)] : e \in to.cases}
    BY ONLY <2>1, ResealedIs
  <2>3. QED BY <1>1, <2>2
<1>3. \A e \in truth.cases : SameButRoute(sealed(e), e) /\ TruthCaseMade(sealed(e)) /\ TruthCaseMade(e)
  BY ReroutedCase DEF KeyMade
<1>4. RouteInPlaceOf(q, r, truth, u)
  <2> HIDE DEF sealed
  <2>1. (\A e \in truth.cases : \E d \in u.cases : SameButRoute(d, e))
        /\ (\A d \in u.cases : \E e \in truth.cases : SameButRoute(d, e))
    BY <1>2, <1>3
  <2>2. ValidTruth(u) /\ TruthRouteMade(q)
    BY EditedRouteMade
  <2> HIDE DEF u
  <2>3. QED BY <1>2, <2>1, <2>2 DEF RouteInPlaceOf
<1>5. q.id = r.id /\ Known(q) = Known(r)
  BY <1>4, RouteStays
<1>6. {Known(s) : s \in u.routes} = {Known(s) : s \in truth.routes}
  <2> HIDE DEF u
  <2>1. QED BY <1>2, <1>5
<1>7. ASSUME NEW e \in truth.cases PROVE bare(sealed(e)) = bare(e)
  <2>1. sealed(e) \in u.cases /\ SameButRoute(sealed(e), e)
    BY <1>2, <1>3
  <2>2. sealed(e).pair = e.pair
    BY <2>1 DEF SameButRoute, TruthCaseFieldsOf
  <2>3. sealed(e).route \in u.routes /\ sealed(e).route.id = e.pair
    <3>1. ValidTruth(u)
      OBVIOUS
    <3> HIDE DEF u, sealed
    <3>2. QED BY <2>1, <2>2, <3>1, BoundCase DEF CaseBound
  <2>4. e.route \in truth.routes /\ e.route.id = e.pair
    BY BoundCase DEF CaseBound
  <2>5. Known(sealed(e).route) = Known(e.route)
    <3> HIDE DEF u, sealed
    <3>1. CASE sealed(e).route = q
      BY <1>5, <2>3, <2>4, <3>1, OneOfEach
    <3>2. CASE sealed(e).route \in truth.routes
      BY <2>3, <2>4, <3>2, OneOfEach
    <3>3. QED BY <1>2, <2>3, <3>1, <3>2
  <2>6. bare(sealed(e)) = [sealed(e) EXCEPT !.route = Known(e.route)]
    BY <2>5
  <2>7. [sealed(e) EXCEPT !.route = Known(e.route)] = [e EXCEPT !.route = Known(e.route)]
    BY DEF Whole
  <2>8. QED BY <2>6, <2>7
<1>8. {bare(e) : e \in u.cases} = {bare(e) : e \in truth.cases}
  <2> HIDE DEF u, sealed, bare
  <2>1. QED BY <1>2, <1>7
<1>9. QED BY <1>6, <1>8 DEF Vouched

LEMMA RootChangeVouched ==
  ASSUME KeyMade(truth), ValidTruth(truth), NEW root, NEW to, to = [truth EXCEPT !.corpusRoot = root]
  PROVE  Vouched(Resealed(to)) = Vouched(truth)
<1>1. to.routes = truth.routes /\ to.cases = truth.cases /\ Whole(to, KeyFieldsOf)
  BY DEF KeyMade, Whole, KeyFieldsOf
<1> DEFINE sealed(c) == [c EXCEPT !.route = RouteNamed(to, c)]
<1>2. Resealed(to).routes = truth.routes /\ Resealed(to).cases = {sealed(c) : c \in truth.cases}
  <2>1. Whole(to, KeyFieldsOf)
    BY <1>1
  <2>2. Resealed(to).routes = to.routes
        /\ Resealed(to).cases = {[c EXCEPT !.route = RouteNamed(to, c)] : c \in to.cases}
    BY ONLY <2>1, ResealedIs
  <2>3. QED BY <1>1, <2>2
<1>3. \A c \in truth.cases : sealed(c) = c
  BY <1>1, NothingToSeal
<1>4. Resealed(to).cases = truth.cases
  <2> HIDE DEF sealed
  <2>1. QED BY <1>2, <1>3
<1>5. QED BY <1>2, <1>4 DEF Vouched

\* So whatever loads says what was authored, but for the provenance and for twins exchanged in all
\* records.
LEMMA KeptIsLoaded ==
  ASSUME Kept
  PROVE  LoadedAsAuthored
<1> SUFFICES ASSUME status = "loaded"
             PROVE  /\ file.seal = truth => loaded = truth
                    /\ edit # "exchange" => Vouched(loaded) = Vouched(truth)
  BY DEF LoadedAsAuthored
<1>1. ValidTruth(truth) /\ KeyMade(truth) /\ loaded = file.truth /\ file.seal = file.truth /\ ValidTruth(file.truth)
  BY DEF Kept, Accepted
<1>2. file.seal = truth => loaded = truth
  BY <1>1
<1>3. CASE edit = "none"
  BY <1>1, <1>3 DEF Kept
<1>4. CASE edit = "record"
  <2>1. PICK to \in OneRecordChanged :
          \/ file = [truth |-> Resealed(to), seal |-> Resealed(to)]
          \/ file.truth = to /\ file.seal = truth
    BY <1>4 DEF Kept
  <2>2. CASE file.truth = to /\ file.seal = truth
    BY <1>1, <2>2
  <2>3. CASE file = [truth |-> Resealed(to), seal |-> Resealed(to)]
    <3>1. ValidTruth(Resealed(to)) /\ loaded = Resealed(to)
      BY <1>1, <2>3
    <3> SUFFICES Vouched(loaded) = Vouched(truth)
      BY <1>2
    <3>2. CASE \E c \in truth.cases : \E d \in EditedCases(c) :
                 to = [truth EXCEPT !.cases = (truth.cases \ {c}) \cup {d}]
      BY <1>1, <3>1, <3>2, CaseChangeVouched
    <3>3. CASE \E r \in truth.routes : \E q \in EditedRoutes(r) :
                 to = [truth EXCEPT !.routes = (truth.routes \ {r}) \cup {q}]
      BY <1>1, <3>1, <3>3, RouteChangeVouched
    <3>4. CASE \E root : to = [truth EXCEPT !.corpusRoot = root]
      <4>1. PICK root : to = [truth EXCEPT !.corpusRoot = root]
        BY <3>4
      <4>2. Vouched(Resealed(to)) = Vouched(truth)
        BY <1>1, <3>1, <4>1, RootChangeVouched
      <4>3. QED BY <3>1, <4>2
    <3>5. QED BY <3>2, <3>3, <3>4, ChangeForms
  <2>4. QED BY <1>2, <2>1, <2>2, <2>3
<1>5. CASE edit = "exchange"
  BY <1>2, <1>5
<1>6. QED BY <1>3, <1>4, <1>5 DEF Kept

LEMMA SameChanges ==
  ASSUME truth' = truth
  PROVE  OneRecordChanged' = OneRecordChanged
BY DEF OneRecordChanged, EditedCases, EditedRoutes, EditedSources, SourcesIn, WithTarget, WithView, WithProbes

LEMMA InitKept == Init => Kept
<1> SUFFICES ASSUME Init PROVE Kept
  OBVIOUS
<1>1. views = NoViews /\ status = "new" /\ edit = "none"
  BY DEF Init
<1>2. Whole(NoViews, {"routes", "assignments", "cases"}) /\ NoViews.routes = {} /\ NoViews.cases = {}
  BY DEF NoViews, Whole
<1>3. ViewsMade(views)
  BY <1>1, <1>2, FS_EmptySet DEF ViewsMade
<1>4. QED BY <1>1, <1>3 DEF Kept

\* While nothing is authored, no truth set is stored and none was changed.
LEMMA BeforeStored ==
  ASSUME Kept, Authoring
  PROVE  edit = "none"
BY DEF Kept, Authoring

LEMMA PreparingKept ==
  ASSUME IInv, Kept,
         \/ \E with \in Seeds : Generate(with)
         \/ BuildViews \/ Mispair \/ Pin
         \/ \E part \in {"adapter", "verifier"} : Upgrade(part)
  PROVE  Kept'
<1>1. Authoring /\ edit' = edit /\ status' \notin {"authored", "stored", "loaded", "not loaded"}
  <2>1. CASE \E with \in Seeds : Generate(with)
    BY <2>1 DEF Generate, stored
  <2>2. CASE BuildViews
    BY <2>2 DEF BuildViews, stored
  <2>3. CASE Mispair
    BY <2>3 DEF Mispair, stored
  <2>4. CASE Pin
    BY <2>4 DEF Pin, stored
  <2>5. CASE \E part \in {"adapter", "verifier"} : Upgrade(part)
    BY <2>5 DEF Upgrade, stored
  <2>6. QED BY <2>1, <2>2, <2>3, <2>4, <2>5
<1>2. ViewsMade(views')
  <2>1. ViewsMade(views)
    BY DEF Kept
  <2>2. CASE BuildViews
    <3>1. views' = views \/ views' = Project(Materials(corpus, installed.adapter))
      BY <2>2 DEF BuildViews, Verified
    <3>2. ViewsMade(Project(Materials(corpus, installed.adapter)))
      BY ProjectionMakes DEF IInv
    <3>3. QED BY <2>1, <3>1, <3>2
  <2>3. CASE Mispair
    <3>1. PICK r \in views.routes, view \in ViewKinds \ SharedViews : views' = Exchanged(r, view)
      BY <2>3 DEF Mispair
    <3>2. QED BY <2>1, <3>1, ExchangeMakes
  <2>4. CASE (\E with \in Seeds : Generate(with)) \/ Pin \/ \E part \in {"adapter", "verifier"} : Upgrade(part)
    <3>1. views' = views
      BY <2>4 DEF Generate, Pin, Upgrade
    <3>2. QED BY <2>1, <3>1
  <2>5. QED BY <2>2, <2>3, <2>4
<1>3. edit' = "none"
  BY <1>1, BeforeStored
<1>4. QED BY <1>1, <1>2, <1>3 DEF Kept

LEMMA AuthorKept ==
  ASSUME Kept, Author
  PROVE  Kept'
<1>1. edit' = "none" /\ views' = views /\ status' \in {"authored", "not authored"}
  BY BeforeStored DEF Author, release, stored
<1>2. ASSUME status' = "authored" PROVE truth' # NoTruth /\ ValidTruth(truth') /\ KeyMade(truth')
  <2>1. Authorable /\ truth' = AuthoredTruth /\ corpus # {}
    BY <1>2 DEF Author
  <2>2. AuthoredTruth.corpusRoot = corpus /\ NoTruth.corpusRoot = {}
    BY DEF AuthoredTruth, NoTruth
  <2>3. ValidTruth(AuthoredTruth)
    BY <2>1 DEF Authorable
  <2>4. KeyMade(AuthoredTruth)
    BY AuthoringMakes DEF Kept
  <2>5. QED BY <2>1, <2>2, <2>3, <2>4
<1>3. QED BY <1>1, <1>2 DEF Kept

LEMMA StoreKept ==
  ASSUME Kept, Store
  PROVE  Kept'
<1>1. /\ file' = [truth |-> truth, seal |-> truth] /\ status = "authored" /\ status' = "stored"
      /\ UNCHANGED <<views, truth, edit>>
  BY DEF Store, release
<1>2. edit = "none"
  BY <1>1 DEF Kept
<1>3. QED BY <1>1, <1>2 DEF Kept

LEMMA EditKept ==
  ASSUME Kept, EditRecord \/ ExchangeTwins
  PROVE  Kept'
<1>1. /\ status = "stored" /\ edit = "none" /\ status' = "stored" /\ edit' \in {"record", "exchange"}
      /\ UNCHANGED <<views, truth>>
  <2>1. CASE EditRecord
    BY <2>1 DEF EditRecord, AsStored, ChangeFile, release
  <2>2. CASE ExchangeTwins
    BY <2>2 DEF ExchangeTwins, AsStored, ChangeFile, release
  <2>3. QED BY <2>1, <2>2
<1>2. ASSUME edit' = "record"
      PROVE  \E to \in OneRecordChanged' :
               \/ file' = [truth |-> Resealed(to), seal |-> Resealed(to)]
               \/ file'.truth = to /\ file'.seal = truth
  <2>1. EditRecord
    BY <1>2 DEF ExchangeTwins, ChangeFile
  <2>2. PICK to \in OneRecordChanged, resealed \in BOOLEAN : ChangeFile(to, "record", resealed)
    BY <2>1 DEF EditRecord
  <2>3. file = [truth |-> truth, seal |-> truth]
    BY <1>1 DEF Kept
  <2>4. \/ file' = [truth |-> Resealed(to), seal |-> Resealed(to)]
        \/ file' = [file EXCEPT !.truth = to]
    BY <2>2 DEF ChangeFile
  <2>5. file' = [file EXCEPT !.truth = to] => file'.truth = to /\ file'.seal = truth
    BY <2>3
  <2>6. OneRecordChanged' = OneRecordChanged
    <3>1. truth' = truth
      BY <1>1
    <3>2. QED BY <3>1, SameChanges
  <2>7. QED BY <2>4, <2>5, <2>6
<1>3. (\A to : Resealed(to)' = Resealed(to)) /\ truth' = truth
  BY <1>1 DEF Resealed, RouteNamed
<1>4. QED BY <1>1, <1>2, <1>3 DEF Kept

LEMMA LoadKept ==
  ASSUME Kept, Load
  PROVE  Kept'
<1>1. /\ UNCHANGED <<views, truth, file, edit>> /\ status = "stored" /\ status' \in {"loaded", "not loaded"}
  BY DEF Load, release
<1>2. status' = "loaded" => loaded' = file.truth /\ Accepted
  BY DEF Load
<1>3. Accepted' = Accepted /\ OneRecordChanged' = OneRecordChanged
  <2>1. truth' = truth /\ file' = file
    BY <1>1
  <2>2. QED BY <2>1, SameChanges DEF Accepted
<1>4. QED BY <1>1, <1>2, <1>3 DEF Kept

LEMMA NextKept == IInv /\ Kept /\ [Next]_vars => Kept'
<1> SUFFICES ASSUME IInv, Kept, [Next]_vars PROVE Kept'
  OBVIOUS
<1>1. CASE Over \/ UNCHANGED vars
  <2>1. UNCHANGED <<views, truth, file, edit, status, loaded>>
    BY <1>1 DEF Over, vars
  <2>2. Accepted' = Accepted /\ OneRecordChanged' = OneRecordChanged
    BY <2>1, SameChanges DEF Accepted
  <2>3. QED BY <2>1, <2>2 DEF Kept
<1>2. QED BY <1>1, PreparingKept, AuthorKept, StoreKept, EditKept, LoadKept DEF Next

\* Under the roots it was stored with, a truth set loads as it was authored.  With one case, one
\* route or the corpus root changed and all digests computed anew, what loads still has every
\* label, episode, evidence record, anchor and certificate that was authored: only the corpus root
\* and the snapshot digests of the sources may be others.
THEOREM TruthLoadedAsAuthored == Spec => []LoadedAsAuthored
<1>1. Kept => LoadedAsAuthored
  BY KeptIsLoaded
<1>2. QED BY <1>1, InitIInv, NextIInv, InitKept, NextKept, PTL DEF Spec

-----------------------------------------------------------------------------
(* Counting *)

\* A set that stands one to one for another has as many members.
LEMMA SameSize ==
  ASSUME NEW S, NEW T, IsFiniteSet(S), NEW f \in [S -> T],
         \A x, y \in S : f[x] = f[y] => x = y, \A t \in T : \E x \in S : f[x] = t
  PROVE  IsFiniteSet(T) /\ Cardinality(T) = Cardinality(S)
<1>1. f \in Bijection(S, T)
  BY Fun_IsBij
<1>2. ExistsBijection(S, T)
  BY <1>1 DEF ExistsBijection
<1>3. QED BY <1>2, FS_Bijection

\* Parts of equal size that do not meet have that size each together.
LEMMA EqualParts ==
  ASSUME NEW S, IsFiniteSet(S), NEW n \in Nat, NEW A,
         \A x \in S : IsFiniteSet(A[x]) /\ Cardinality(A[x]) = n,
         \A x, y \in S : \A u : u \in A[x] /\ u \in A[y] => x = y
  PROVE  /\ IsFiniteSet(UNION {A[x] : x \in S})
         /\ Cardinality(UNION {A[x] : x \in S}) = Cardinality(S) * n
<1> DEFINE I == 1 .. n
           b == [x \in S |-> CHOOSE g : g \in Bijection(I, A[x])]
           f == [u \in S \X I |-> b[u[1]][u[2]]]
           U == UNION {A[x] : x \in S}
<1>1. IsFiniteSet(I) /\ Cardinality(I) = n
  <2>1. IsFiniteSet(1 .. n) /\ Cardinality(1 .. n) = IF 1 > n THEN 0 ELSE n - 1 + 1
    BY FS_Interval
  <2>2. QED BY <2>1
<1>2. ASSUME NEW x \in S PROVE b[x] \in Bijection(I, A[x])
  <2>1. ExistsBijection(I, A[x])
    BY <1>2, FS_CardinalityType
  <2>2. \E g : g \in Bijection(I, A[x])
    BY <2>1 DEF ExistsBijection
  <2>3. QED BY <2>2
<1> HIDE DEF b, I
<1>3. ASSUME NEW x \in S
      PROVE  /\ b[x] \in [I -> A[x]] /\ \A i, j \in I : b[x][i] = b[x][j] => i = j
             /\ \A t \in A[x] : \E i \in I : b[x][i] = t
  BY <1>2, <1>3 DEF Bijection, Injection, IsInjective, Surjection
<1>4. \A u \in S \X I : f[u] = b[u[1]][u[2]] /\ f[u] \in A[u[1]] /\ u[1] \in S /\ u[2] \in I
  BY <1>3
<1>5. f \in [S \X I -> U]
  BY <1>4
<1>6. \A u, w \in S \X I : f[u] = f[w] => u = w
  <2>1. SUFFICES ASSUME NEW u \in S \X I, NEW w \in S \X I, f[u] = f[w] PROVE u = w
    OBVIOUS
  <2>2. u[1] = w[1]
    BY <1>4, <2>1
  <2>3. u[2] = w[2]
    BY <1>3, <1>4, <2>1, <2>2
  <2>4. u = <<u[1], u[2]>> /\ w = <<w[1], w[2]>>
    OBVIOUS
  <2>5. QED BY <2>2, <2>3, <2>4
<1>7. \A t \in U : \E u \in S \X I : f[u] = t
  <2>1. SUFFICES ASSUME NEW t \in U PROVE \E u \in S \X I : f[u] = t
    OBVIOUS
  <2>2. PICK x \in S : t \in A[x]
    OBVIOUS
  <2>3. PICK i \in I : b[x][i] = t
    BY <1>3, <2>2
  <2>4. <<x, i>> \in S \X I /\ f[<<x, i>>] = t
    BY <2>3
  <2>5. QED BY <2>4
<1> HIDE DEF f, U
<1>8. IsFiniteSet(S \X I) /\ Cardinality(S \X I) = Cardinality(S) * Cardinality(I)
  BY <1>1, FS_Product
<1>9. IsFiniteSet(U) /\ Cardinality(U) = Cardinality(S \X I)
  BY <1>5, <1>6, <1>7, <1>8, SameSize
<1>10. QED BY <1>1, <1>8, <1>9 DEF U

\* Two are two.
LEMMA TwoOf ==
  ASSUME NEW a, NEW b, a # b
  PROVE  IsFiniteSet({a, b}) /\ Cardinality({a, b}) = 2
<1>1. IsFiniteSet({a}) /\ Cardinality({a}) = 1 /\ b \notin {a} /\ {a, b} = {a} \cup {b}
  BY FS_Singleton
<1>2. QED BY <1>1, FS_AddElement

\* Two and two that do not meet are four.
LEMMA FourOf ==
  ASSUME NEW a, NEW b, NEW c, NEW d, a # b, c # d, {a, b} \cap {c, d} = {}
  PROVE  IsFiniteSet({a, b, c, d}) /\ Cardinality({a, b, c, d}) = 4
<1>1. /\ IsFiniteSet({a, b}) /\ Cardinality({a, b}) = 2
      /\ IsFiniteSet({c, d}) /\ Cardinality({c, d}) = 2
  BY TwoOf
<1>2. Cardinality({a, b} \cap {c, d}) = 0
  BY FS_EmptySet
<1>3. {a, b, c, d} = {a, b} \cup {c, d}
  OBVIOUS
<1> DEFINE K == {a, b}
           L == {c, d}
<1> HIDE DEF K, L
<1>4. IsFiniteSet(K) /\ Cardinality(K) = 2 /\ IsFiniteSet(L) /\ Cardinality(L) = 2 /\ Cardinality(K \cap L) = 0
  BY <1>1, <1>2 DEF K, L
<1>5. IsFiniteSet(K \cup L) /\ Cardinality(K \cup L) = Cardinality(K) + Cardinality(L) - Cardinality(K \cap L)
  BY <1>4, FS_Union
<1>6. IsFiniteSet(K \cup L) /\ Cardinality(K \cup L) = 4
  BY <1>4, <1>5
<1>7. QED BY <1>3, <1>6 DEF K, L

-----------------------------------------------------------------------------
(* The pairs a valid catalog generates *)

\* The sealed twins of a task of the catalog, and what tells them apart.
LEMMA TwinsSealed ==
  ASSUME catalog \in Catalogs, ValidCatalog(catalog), NEW s \in Seeds, NEW v \in catalog.variants
  PROVE  LET t == catalog.templates[v.template]
             p == Pair(s, t, v)
             a == Seal(s, SelectorAligned(t, v))
             b == Seal(s, ResolverAligned(t, v))
         IN  Task(t, v) /\ p.completions = {a, b} /\ a.commitment # b.commitment
<1> DEFINE t == catalog.templates[v.template]
           p == Pair(s, t, v)
           ra == SelectorAligned(t, v)
           rb == ResolverAligned(t, v)
<1>1. Task(t, v)
  BY DEF ValidCatalog, Task
<1>2. ra \in Authored /\ rb \in Authored
  BY DEF Authored, Twins
<1>3. ra.variant = v /\ rb.variant = v /\ ra.selected = t.goal /\ rb.selected = t.alternate
  BY DEF SelectorAligned, ResolverAligned, SourceRecord
<1>4. ra # rb
  BY <1>1, <1>3 DEF Task, ValidTemplate
<1> HIDE DEF ra, rb
<1>5. p.completions = {Seal(s, ra), Seal(s, rb)}
  BY DEF Pair, Twins, ra, rb
<1>6. Seal(s, ra).commitment # Seal(s, rb).commitment
  BY <1>2, <1>4, CommitAssumption DEF Seal
<1>7. QED BY <1>1, <1>5, <1>6 DEF ra, rb

\* Every completion of a pair is the seal of a record of its variant.
LEMMA SealOfVariant ==
  ASSUME catalog \in Catalogs, NEW s \in Seeds, NEW v \in catalog.variants,
         NEW x \in Pair(s, catalog.templates[v.template], v).completions
  PROVE  \E r \in Authored : x = Seal(s, r) /\ r.variant = v
<1> DEFINE t == catalog.templates[v.template]
<1>1. x \in {Seal(s, r) : r \in Twins(t, v)}
  BY DEF Pair
<1>2. PICK r \in Twins(t, v) : x = Seal(s, r)
  BY <1>1
<1>3. r \in Authored
  BY DEF Authored
<1>4. r.variant = v
  BY DEF Twins, SelectorAligned, ResolverAligned, SourceRecord
<1>5. QED BY <1>2, <1>3, <1>4

\* The sealed twins keep the contract of a source record.
LEMMA TwinsKeepContract ==
  ASSUME NEW t, NEW v, Task(t, v)
  PROVE  SourceContract(SelectorAligned(t, v)) /\ SourceContract(ResolverAligned(t, v))
<1>1. t.goal # t.alternate /\ v.intended # v.observed /\ v.reference # v.alternate
  BY DEF Task, ValidTemplate, ValidVariant
<1> DEFINE S == {t.goal, t.alternate}
           up == [x \in S |-> IF x = t.goal THEN v.intended ELSE v.observed]
           old == [x \in S |-> v.observed]
<1>2. Cardinality(S) = 2
  BY <1>1, TwoOf
<1>3. Reference(t, v) = up /\ Outdated(t, v) = old
  BY DEF Reference, Outdated, Selectors
<1>4. /\ DOMAIN up = S /\ DOMAIN old = S /\ up[t.goal] = v.intended /\ up[t.alternate] = v.observed
      /\ old[t.goal] = v.observed /\ old[t.alternate] = v.observed
  BY <1>1
<1>5. S \ {t.goal} = {t.alternate} /\ \A x \in S : x = t.goal \/ x = t.alternate
  BY <1>1
<1>6. t.goal \in S /\ t.alternate \in S
  OBVIOUS
<1> HIDE DEF S, up, old
<1>7. SourceContract(SelectorAligned(t, v))
  <2> DEFINE r == SelectorAligned(t, v)
  <2>1. /\ r.variant = v /\ r.goal = t.goal /\ r.selected = t.goal /\ r.epoch = v.alternate /\ r.resolver = old
        /\ r.refreshEpoch = v.reference /\ r.refreshResolver = up
    BY <1>3 DEF SelectorAligned, SourceRecord
  <2> HIDE DEF r
  <2>2. \A x \in S : {old[x], up[x]} \subseteq Concrete(v)
    BY <1>4, <1>5 DEF Concrete
  <2>3. QED BY <1>1, <1>2, <1>4, <1>5, <1>6, <2>1, <2>2 DEF SourceContract, r
<1>8. SourceContract(ResolverAligned(t, v))
  <2> DEFINE r == ResolverAligned(t, v)
  <2>1. /\ r.variant = v /\ r.goal = t.goal /\ r.selected = t.alternate /\ r.epoch = v.reference /\ r.resolver = up
        /\ r.refreshEpoch = v.reference /\ r.refreshResolver = up
    BY <1>3 DEF ResolverAligned, SourceRecord
  <2> HIDE DEF r
  <2>2. \A x \in S : {up[x], up[x]} \subseteq Concrete(v)
    BY <1>4, <1>5 DEF Concrete
  <2>3. QED BY <1>1, <1>2, <1>4, <1>5, <1>6, <2>1, <2>2 DEF SourceContract, r
<1>9. QED BY <1>7, <1>8

\* Distinct variants make distinct pairs that share no completion.
LEMMA PairsApart ==
  ASSUME catalog \in Catalogs, ValidCatalog(catalog), NEW s \in Seeds,
         NEW v \in catalog.variants, NEW w \in catalog.variants,
         NEW x \in Pair(s, catalog.templates[v.template], v).completions,
         NEW y \in Pair(s, catalog.templates[w.template], w).completions,
         x.commitment = y.commitment \/ x.record = y.record
  PROVE  v = w /\ x = y
<1>1. PICK q \in Authored : x = Seal(s, q) /\ q.variant = v
  BY SealOfVariant
<1>2. PICK r \in Authored : y = Seal(s, r) /\ r.variant = w
  BY SealOfVariant
<1>3. x.commitment = Commit(s, q) /\ y.commitment = Commit(s, r) /\ x.record = q /\ y.record = r
  BY <1>1, <1>2 DEF Seal
<1>4. q = r
  BY <1>3, CommitAssumption
<1>5. QED BY <1>1, <1>2, <1>4

\* Every pair of the corpus of a valid catalog passes its own validation.
LEMMA PairIsValid ==
  ASSUME catalog \in Catalogs, ValidCatalog(catalog), NEW s \in Seeds, NEW p \in Corpus(s, catalog)
  PROVE  ValidPair(p)
<1>1. PICK v \in catalog.variants : p = Pair(s, catalog.templates[v.template], v)
  BY DEF Corpus
<1> DEFINE t == catalog.templates[v.template]
           ra == SelectorAligned(t, v)
           rb == ResolverAligned(t, v)
           a == Seal(s, ra)
           b == Seal(s, rb)
<1>2. Task(t, v) /\ p.completions = {a, b} /\ a.commitment # b.commitment
  BY <1>1, TwinsSealed
<1>3. a.record = ra /\ b.record = rb
  BY DEF Seal
<1>4. TwinConstruction(ra, rb)
  BY <1>2, TwinsConstructed
<1>5. ra.selected = ra.goal /\ rb.selected # rb.goal
  BY <1>2 DEF SelectorAligned, ResolverAligned, SourceRecord, Task, ValidTemplate
<1>6. SourceContract(ra) /\ SourceContract(rb)
  BY <1>2, TwinsKeepContract
<1>7. \A x \in {a, b} : x.episode = Opaque("wge", x.commitment)
  BY DEF Seal
<1>8. p.id = PairId(CommitmentsOf(p.completions))
  <2> DEFINE sealed == {Seal(s, r) : r \in Twins(t, v)}
  <2>1. p.id = PairId(CommitmentsOf(sealed)) /\ p.completions = sealed
    BY <1>1 DEF Pair
  <2>2. QED BY <2>1
<1> HIDE DEF ra, rb, a, b
<1>9. Cardinality(p.completions) = 2
  <2>1. a # b
    BY <1>2
  <2>2. QED BY <1>2, <2>1, TwoOf
<1>10. \A x \in p.completions : x.episode = Opaque("wge", x.commitment) /\ SourceContract(x.record)
  BY <1>2, <1>3, <1>6, <1>7
<1>11. \E x, y \in p.completions :
         x.record.selected = x.record.goal /\ y.record.selected # y.record.goal /\ TwinConstruction(x.record, y.record)
  BY <1>2, <1>3, <1>4, <1>5
<1>12. QED BY <1>8, <1>9, <1>10, <1>11 DEF ValidPair

\* There is one pair for each variant.
LEMMA OnePairEach ==
  ASSUME catalog \in Catalogs, ValidCatalog(catalog), NEW s \in Seeds, NEW V \in SUBSET catalog.variants
  PROVE  LET S == {Pair(s, catalog.templates[v.template], v) : v \in V}
         IN  IsFiniteSet(S) /\ Cardinality(S) = Cardinality(V)
<1> DEFINE f == [v \in V |-> Pair(s, catalog.templates[v.template], v)]
           S == {Pair(s, catalog.templates[v.template], v) : v \in V}
<1>1. IsFiniteSet(V)
  BY CatalogAssumption, FS_Subset
<1>2. \A v, w \in V : f[v] = f[w] => v = w
  <2>1. SUFFICES ASSUME NEW v \in V, NEW w \in V, f[v] = f[w] PROVE v = w
    OBVIOUS
  <2>2. PICK x \in Pair(s, catalog.templates[v.template], v).completions : TRUE
    BY TwinsSealed
  <2>3. x \in Pair(s, catalog.templates[w.template], w).completions
    BY <2>1, <2>2
  <2>4. QED BY <2>2, <2>3, PairsApart
<1>3. f \in [V -> S] /\ \A p \in S : \E v \in V : f[v] = p
  OBVIOUS
<1> HIDE DEF f, S
<1>4. IsFiniteSet(S) /\ Cardinality(S) = Cardinality(V)
  BY <1>1, <1>2, <1>3, SameSize
<1>5. QED BY <1>4 DEF S

\* Generation is refused only over identifiers that coincide: the corpus of a valid catalog is
\* valid in everything else.
LEMMA CorpusIsValid ==
  ASSUME catalog \in Catalogs, ValidCatalog(catalog), NEW s \in Seeds, ~ Coincide(Corpus(s, catalog))
  PROVE  ValidCorpus(Corpus(s, catalog), catalog)
<1> DEFINE C == Corpus(s, catalog)
<1>1. \A p \in C : ValidPair(p)
  BY PairIsValid
<1>2. Cardinality(C) = Cardinality(catalog.variants)
  BY OnePairEach DEF Corpus
<1>3. \A p, q \in C : p.id = q.id \/ p.task = q.task => p = q
  BY DEF Coincide
<1>4. ASSUME NEW x \in CompletionsOf(C), NEW y \in CompletionsOf(C),
             x.episode = y.episode \/ x.commitment = y.commitment \/ x.record = y.record
      PROVE  x = y
  <2>1. CASE x.episode = y.episode
    BY <1>4, <2>1 DEF Coincide
  <2>2. CASE x.commitment = y.commitment \/ x.record = y.record
    <3>1. PICK p \in C, q \in C : x \in p.completions /\ y \in q.completions
      BY <1>4 DEF CompletionsOf
    <3>2. PICK v \in catalog.variants : p = Pair(s, catalog.templates[v.template], v)
      BY <3>1 DEF Corpus
    <3>3. PICK w \in catalog.variants : q = Pair(s, catalog.templates[w.template], w)
      BY <3>1 DEF Corpus
    <3>4. QED BY <2>2, <3>1, <3>2, <3>3, PairsApart
  <2>3. QED BY <1>4, <2>1, <2>2
<1>5. QED BY <1>1, <1>2, <1>3, <1>4 DEF ValidCorpus

-----------------------------------------------------------------------------
(* What tells the completions of a corpus apart, and their views *)

\* A completion is of one pair, and its episode, commitment and record are its own.
LEMMA CorpusTells ==
  ASSUME Generated, NEW p \in corpus, NEW q \in corpus, NEW x \in p.completions, NEW y \in q.completions,
         x.episode = y.episode \/ x.commitment = y.commitment \/ x.record = y.record
  PROVE  p = q /\ x = y
<1>1. PICK s \in Seeds : corpus = Corpus(s, catalog)
  BY DEF Generated
<1>2. catalog \in Catalogs /\ ValidCatalog(catalog) /\ ValidCorpus(corpus, catalog)
  BY DEF Generated
<1>3. x = y
  BY <1>2 DEF ValidCorpus, CompletionsOf
<1>4. PICK v \in catalog.variants : p = Pair(s, catalog.templates[v.template], v)
  BY <1>1 DEF Corpus
<1>5. PICK w \in catalog.variants : q = Pair(s, catalog.templates[w.template], w)
  BY <1>1 DEF Corpus
<1>6. v = w
  BY <1>2, <1>3, <1>4, <1>5, PairsApart
<1>7. QED BY <1>3, <1>4, <1>5, <1>6

\* What tells the twins of a pair apart, and what does not.
TwinFacts(p, a, b) ==
  /\ p.completions = {a, b} /\ a # b
  /\ Replay(a.record, {}) = Replay(b.record, {}) /\ Replay(a.record, {}).outcome = "FAILURE"
  /\ ProbeOf(a.record, "owner") = ProbeOf(b.record, "owner")
  /\ ProbeOf(a.record, "epoch") # ProbeOf(b.record, "epoch")
  /\ Replay(a.record, {"refresh"}) # Replay(b.record, {"refresh"})
  /\ Succeeding(a.record) = {{"refresh"}, Atoms} /\ Succeeding(b.record) = {{"repair"}, Atoms}
  /\ FamilyBehind(a) = {{"environment"}} /\ FamilyBehind(b) = {{"policy"}}
  /\ Repairs(a) = {{"refresh"}} /\ Repairs(b) = {{"repair"}}

\* Every pair of a corpus has two such twins.
LEMMA TwinsOfPair ==
  ASSUME Generated, NEW p \in corpus
  PROVE  \E a, b : TwinFacts(p, a, b)
<1>1. PICK s \in Seeds : corpus = Corpus(s, catalog)
  BY DEF Generated
<1>2. PICK v \in catalog.variants : p = Pair(s, catalog.templates[v.template], v)
  BY <1>1 DEF Corpus
<1> DEFINE t == catalog.templates[v.template]
           ra == SelectorAligned(t, v)
           rb == ResolverAligned(t, v)
           a == Seal(s, ra)
           b == Seal(s, rb)
<1>3. Task(t, v) /\ p.completions = {a, b} /\ a.commitment # b.commitment
  BY <1>2, TwinsSealed DEF Generated
<1>4. a.record = ra /\ b.record = rb
  BY DEF Seal
<1>5. /\ Replay(ra, {}) = Replay(rb, {}) /\ ProbeOf(ra, "owner") = ProbeOf(rb, "owner")
      /\ ProbeOf(ra, "epoch") # ProbeOf(rb, "epoch") /\ Replay(ra, {"refresh"}) # Replay(rb, {"refresh"})
  BY <1>3, TwinsLookAlike
<1>6. \A z \in SUBSET Atoms : (Success(ra, z) <=> "refresh" \in z) /\ (Success(rb, z) <=> "repair" \in z)
  BY <1>3, TwinOutcomes
<1>7. \A z : z \in SUBSET Atoms <=> z = {} \/ z = {"refresh"} \/ z = {"repair"} \/ z = Atoms
  BY DEF Atoms
<1>8. Succeeding(ra) = {{"refresh"}, Atoms} /\ Succeeding(rb) = {{"repair"}, Atoms}
  <2>1. \A z : z \in Succeeding(ra) <=> z \in SUBSET Atoms /\ "refresh" \in z
    BY <1>6 DEF Succeeding
  <2>2. \A z : z \in Succeeding(rb) <=> z \in SUBSET Atoms /\ "repair" \in z
    BY <1>6 DEF Succeeding
  <2>3. "refresh" \in Atoms /\ "repair" \in Atoms /\ "refresh" \notin {"repair"} /\ "repair" \notin {"refresh"}
    BY DEF Atoms
  <2> HIDE DEF ra, rb
  <2>4. Succeeding(ra) = {{"refresh"}, Atoms}
    BY <1>7, <2>1, <2>3
  <2>5. Succeeding(rb) = {{"repair"}, Atoms}
    BY <1>7, <2>2, <2>3
  <2>6. QED BY <2>4, <2>5
<1>9. Replay(ra, {}).outcome = "FAILURE"
  BY <1>6 DEF Replay
<1>10. \A x : FamilyBehind(x) = TargetFamily(Succeeding(x.record), target) /\ Repairs(x) = Minimal(Succeeding(x.record))
  BY DEF FamilyBehind, Repairs, Succeeding
<1>11. /\ FamilyBehind(a) = {{"environment"}} /\ FamilyBehind(b) = {{"policy"}}
       /\ Repairs(a) = {{"refresh"}} /\ Repairs(b) = {{"repair"}}
  BY <1>3, <1>4, <1>10, TwinFamilies
<1> HIDE DEF ra, rb, a, b
<1>12. a # b
  BY <1>3
<1>13. TwinFacts(p, a, b)
  BY <1>3, <1>4, <1>5, <1>8, <1>9, <1>11, <1>12 DEF TwinFacts
<1>14. QED BY <1>13

\* Two completions of a pair are its twins, one way round or the other.
LEMMA TwinsAre ==
  ASSUME NEW p, NEW a, NEW b, TwinFacts(p, a, b), NEW x \in p.completions, NEW y \in p.completions, x # y
  PROVE  (x = a /\ y = b) \/ (x = b /\ y = a)
BY DEF TwinFacts

\* The completions that one completion cannot be told from in a view.
Seen(p, x, view) == IF view \in SharedViews THEN p.completions ELSE {x}

\* They share its evidence in the view...
LEMMA SeenShare ==
  ASSUME Generated, NEW n, NEW p \in corpus, NEW x \in p.completions, NEW view \in ViewKinds,
         NEW y \in Seen(p, x, view)
  PROVE  y \in p.completions /\ Evidence(p, n, y, view) = Evidence(p, n, x, view)
<1>1. CASE view \notin SharedViews
  BY <1>1 DEF Seen
<1>2. CASE view \in SharedViews
  <2>1. y \in p.completions
    BY <1>2 DEF Seen
  <2>2. PICK a, b : TwinFacts(p, a, b)
    BY TwinsOfPair
  <2>3. ProbesShown(view) \subseteq {"owner"} /\ RepliesShown(view) = {}
    BY <1>2 DEF SharedViews, ProbesShown, RepliesShown
  <2>4. \A z \in p.completions : /\ Replay(z.record, {}) = Replay(a.record, {})
                                 /\ ProbeOf(z.record, "owner") = ProbeOf(a.record, "owner")
    BY <2>2 DEF TwinFacts
  <2>5. /\ [q \in ProbesShown(view) |-> ProbeOf(x.record, q)] = [q \in ProbesShown(view) |-> ProbeOf(y.record, q)]
        /\ [z \in RepliesShown(view) |-> Replay(x.record, z)] = [z \in RepliesShown(view) |-> Replay(y.record, z)]
    BY <2>1, <2>3, <2>4
  <2>6. Replay(x.record, {}) = Replay(y.record, {})
    BY <2>1, <2>4
  <2>7. QED BY <2>1, <2>5, <2>6, EvidenceFields
<1>3. QED BY <1>1, <1>2

\* No two views show the same observations.
LEMMA ViewsShowDifferent ==
  ASSUME NEW v \in ViewKinds, NEW w \in ViewKinds,
         ProbesShown(v) = ProbesShown(w), RepliesShown(v) = RepliesShown(w)
  PROVE  v = w
<1>1. /\ ProbesShown("trace_only") = {} /\ ProbesShown("owner_probe") = {"owner"}
      /\ ProbesShown("epoch_probe") = {"epoch"} /\ ProbesShown("refresh_receipt") = {}
  BY DEF ProbesShown
<1>2. RepliesShown("trace_only") = {} /\ RepliesShown("refresh_receipt") = {{"refresh"}}
  BY DEF RepliesShown
<1>3. v \in {"trace_only", "owner_probe", "epoch_probe", "refresh_receipt"}
      /\ w \in {"trace_only", "owner_probe", "epoch_probe", "refresh_receipt"}
  BY DEF ViewKinds
<1>4. {"owner"} # {"epoch"} /\ {"owner"} # {} /\ {"epoch"} # {} /\ {{"refresh"}} # {}
  OBVIOUS
<1>5. QED BY <1>1, <1>2, <1>3, <1>4

\* ...and no other completion does, nor it in another view.
LEMMA EvidenceTells ==
  ASSUME Generated, NEW n, NEW p \in corpus, NEW q \in corpus, NEW x \in p.completions, NEW y \in q.completions,
         NEW view \in ViewKinds, NEW w \in ViewKinds, Evidence(p, n, x, view) = Evidence(q, n, y, w)
  PROVE  p = q /\ view = w /\ y \in Seen(p, x, view)
<1> DEFINE e == Evidence(p, n, x, view)
<1>1. /\ e.manifest = Manifest(p, n) /\ e.manifest = Manifest(q, n)
      /\ e.probes = [k \in ProbesShown(view) |-> ProbeOf(x.record, k)]
      /\ e.probes = [k \in ProbesShown(w) |-> ProbeOf(y.record, k)]
      /\ e.replies = [z \in RepliesShown(view) |-> Replay(x.record, z)]
      /\ e.replies = [z \in RepliesShown(w) |-> Replay(y.record, z)]
  BY EvidenceFields
<1> HIDE DEF e
<1>2. CommitmentsOf(p.completions) = CommitmentsOf(q.completions)
  BY <1>1 DEF Manifest
<1>3. p = q
  <2>1. PICK z \in q.completions : z.commitment = x.commitment
    BY <1>2 DEF CommitmentsOf
  <2>2. QED BY <2>1, CorpusTells
<1>4. view = w
  <2>1. ProbesShown(view) = ProbesShown(w)
    BY <1>1
  <2>2. RepliesShown(view) = RepliesShown(w)
    BY <1>1
  <2>3. QED BY <2>1, <2>2, ViewsShowDifferent
<1>5. CASE view \in SharedViews
  BY <1>3, <1>4, <1>5 DEF Seen
<1>6. CASE view = "epoch_probe"
  <2>1. "epoch" \in ProbesShown(view)
    BY <1>6 DEF ProbesShown
  <2>2. e.probes["epoch"] = ProbeOf(x.record, "epoch") /\ e.probes["epoch"] = ProbeOf(y.record, "epoch")
    BY <1>1, <1>4, <2>1
  <2>3. PICK a, b : TwinFacts(p, a, b)
    BY TwinsOfPair
  <2>4. x = y
    BY <1>3, <2>2, <2>3 DEF TwinFacts
  <2>5. QED BY <1>3, <1>4, <2>4 DEF Seen
<1>7. CASE view = "refresh_receipt"
  <2>1. {"refresh"} \in RepliesShown(view)
    BY <1>7 DEF RepliesShown
  <2>2. /\ e.replies[{"refresh"}] = Replay(x.record, {"refresh"})
        /\ e.replies[{"refresh"}] = Replay(y.record, {"refresh"})
    BY <1>1, <1>4, <2>1
  <2>3. PICK a, b : TwinFacts(p, a, b)
    BY TwinsOfPair
  <2>4. x = y
    BY <1>3, <2>2, <2>3 DEF TwinFacts
  <2>5. QED BY <1>3, <1>4, <2>4 DEF Seen
<1>8. QED BY <1>3, <1>4, <1>5, <1>6, <1>7 DEF ViewKinds, SharedViews

-----------------------------------------------------------------------------
(* The views projected from a corpus, record by record *)

RouteOf(p, n) == Route(Material(p, n))
Routed(p, n, x) == CompletionRoute(Material(p, n), CompletionMaterial(x))
Assigning(p, n, x, view) == Assignment(RouteOf(p, n), Routed(p, n, x), view, Evidence(p, n, x, view))
Showing(p, n, x, view) == Case(Material(p, n), view, Evidence(p, n, x, view))

\* The fields of each.
LEMMA RouteIs ==
  ASSUME NEW p, NEW n
  PROVE  /\ RouteOf(p, n).id = p.id /\ RouteOf(p, n).template = p.template
         /\ RouteOf(p, n).manifest = Manifest(p, n)
         /\ RouteOf(p, n).completions = {Routed(p, n, x) : x \in p.completions}
<1> DEFINE m == Material(p, n)
<1>1. /\ m.id = p.id /\ m.template = p.template /\ m.manifest = Manifest(p, n)
      /\ m.completions = {CompletionMaterial(x) : x \in p.completions}
  BY DEF Material
<1>2. /\ RouteOf(p, n).id = m.id /\ RouteOf(p, n).template = m.template /\ RouteOf(p, n).manifest = m.manifest
      /\ RouteOf(p, n).completions = {CompletionRoute(m, k) : k \in m.completions}
  BY DEF RouteOf, Route
<1>3. {CompletionRoute(m, k) : k \in m.completions} = {Routed(p, n, x) : x \in p.completions}
  BY <1>1 DEF Routed
<1>4. QED BY <1>1, <1>2, <1>3

\* The fields of a completion in a route.
LEMMA RoutedIs ==
  ASSUME NEW p, NEW n, NEW x
  PROVE  /\ Routed(p, n, x).episode = x.episode /\ Routed(p, n, x).commitment = x.commitment
         /\ Routed(p, n, x).snapshot = x.record
BY DEF Routed, CompletionRoute, CompletionMaterial

\* The evidence it is shown with in each view.
LEMMA RoutedShows ==
  ASSUME NEW p, NEW n, NEW x
  PROVE  \A view \in ViewKinds : Routed(p, n, x).evidence[view] = Evidence(p, n, x, view)
BY DEF Routed, CompletionRoute, EvidenceOf, Evidence

\* The fields of an assignment.
LEMMA AssigningIs ==
  ASSUME NEW p, NEW n, NEW x, NEW view
  PROVE  Assigning(p, n, x, view) =
           [pair |-> p.id, task |-> p.task, episode |-> x.episode, template |-> p.template,
            view |-> view, evidence |-> Evidence(p, n, x, view)]
<1>1. Manifest(p, n).task = p.task
  BY DEF Manifest
<1> DEFINE r == RouteOf(p, n)
           z == Routed(p, n, x)
           e == Evidence(p, n, x, view)
<1>2. r.id = p.id /\ r.template = p.template /\ r.manifest.task = p.task
  BY <1>1, RouteIs
<1>3. z.episode = x.episode
  BY RoutedIs
<1>4. Assigning(p, n, x, view) = Assignment(r, z, view, e)
  BY DEF Assigning
<1> HIDE DEF r, z, e
<1>5. Assignment(r, z, view, e) = [pair |-> p.id, task |-> p.task, episode |-> x.episode, template |-> p.template,
                                   view |-> view, evidence |-> e]
  BY <1>2, <1>3 DEF Assignment
<1>6. QED BY <1>4, <1>5 DEF e

\* The fields of a case.
LEMMA ShowingIs ==
  ASSUME NEW p, NEW n, NEW x, NEW view
  PROVE  Showing(p, n, x, view) = [template |-> p.template, view |-> view, evidence |-> Evidence(p, n, x, view)]
<1>1. Material(p, n).template = p.template
  BY DEF Material
<1>2. QED BY <1>1 DEF Showing, Case

\* Projection makes exactly these, for every pair, completion and view.
LEMMA ProjectionIs ==
  ASSUME NEW n
  PROVE  LET vs == Project(Materials(corpus, n))
         IN  /\ vs.routes = {RouteOf(p, n) : p \in corpus}
             /\ \A a : a \in vs.assignments <=>
                         \E p \in corpus, view \in ViewKinds : \E x \in p.completions : a = Assigning(p, n, x, view)
             /\ \A c : c \in vs.cases <=>
                         \E p \in corpus, view \in ViewKinds : \E x \in p.completions : c = Showing(p, n, x, view)
<1> DEFINE vs == Project(Materials(corpus, n))
<1>1. vs.routes = {RouteOf(p, n) : p \in corpus}
  BY DEF Project, Materials, RouteOf
<1>2. vs.assignments = AssignmentsOf(vs.routes)
  BY DEF Project
<1>3. ASSUME NEW a
      PROVE  a \in vs.assignments <=>
               \E p \in corpus, view \in ViewKinds : \E x \in p.completions : a = Assigning(p, n, x, view)
  <2>1. \A p, x : \A view \in ViewKinds : Routed(p, n, x).evidence[view] = Evidence(p, n, x, view)
    BY RoutedShows
  <2>2. a \in vs.assignments <=>
          \E r \in vs.routes : \E z \in r.completions, view \in ViewKinds : a = Assignment(r, z, view, z.evidence[view])
    BY <1>2 DEF AssignmentsOf
  <2>3. ASSUME NEW r \in vs.routes, NEW z \in r.completions, NEW view \in ViewKinds,
               a = Assignment(r, z, view, z.evidence[view])
        PROVE  \E p \in corpus, w \in ViewKinds : \E x \in p.completions : a = Assigning(p, n, x, w)
    <3>1. PICK p \in corpus : r = RouteOf(p, n)
      BY <1>1
    <3>2. PICK x \in p.completions : z = Routed(p, n, x)
      BY <3>1, RouteIs
    <3>3. a = Assigning(p, n, x, view)
      BY <2>1, <2>3, <3>1, <3>2 DEF Assigning
    <3>4. QED BY <3>3
  <2>4. ASSUME NEW p \in corpus, NEW view \in ViewKinds, NEW x \in p.completions, a = Assigning(p, n, x, view)
        PROVE  \E r \in vs.routes : \E z \in r.completions, w \in ViewKinds : a = Assignment(r, z, w, z.evidence[w])
    <3>1. RouteOf(p, n) \in vs.routes /\ Routed(p, n, x) \in RouteOf(p, n).completions
      BY <1>1, RouteIs
    <3>2. a = Assignment(RouteOf(p, n), Routed(p, n, x), view, Routed(p, n, x).evidence[view])
      BY <2>1, <2>4 DEF Assigning
    <3>3. QED BY <3>1, <3>2
  <2>5. QED BY <2>2, <2>3, <2>4
<1>4. ASSUME NEW c
      PROVE  c \in vs.cases <=>
               \E p \in corpus, view \in ViewKinds : \E x \in p.completions : c = Showing(p, n, x, view)
  <2>1. c \in vs.cases <=> \E m \in Materials(corpus, n) : \E k \in m.completions, view \in ViewKinds :
                             c = Case(m, view, ProjectEvidence(m, k, view))
    BY DEF Project
  <2>2. \A p : Material(p, n).completions = {CompletionMaterial(x) : x \in p.completions}
    BY DEF Material
  <2>3. c \in vs.cases <=> \E p \in corpus : \E x \in p.completions, view \in ViewKinds :
                             c = Case(Material(p, n), view, ProjectEvidence(Material(p, n), CompletionMaterial(x), view))
    <3>1. c \in vs.cases <=> \E p \in corpus : \E k \in Material(p, n).completions, view \in ViewKinds :
                                c = Case(Material(p, n), view, ProjectEvidence(Material(p, n), k, view))
      BY <2>1 DEF Materials
    <3> HIDE DEF vs
    <3>2. QED BY <3>1, <2>2
  <2>4. QED BY <2>3 DEF Showing, Evidence
<1>5. QED BY <1>1, <1>3, <1>4

-----------------------------------------------------------------------------
(* How many there are *)

\* As many pairs of every template as it has variants, and no others.
LEMMA CorpusCounted ==
  ASSUME Generated, corpus # {}
  PROVE  /\ IsFiniteSet(corpus) /\ Cardinality(corpus) = PerTemplate * Cardinality(TemplateIds)
         /\ \A p \in corpus : p.template \in TemplateIds
         /\ \A t \in TemplateIds : /\ IsFiniteSet({p \in corpus : p.template = t})
                                   /\ Cardinality({p \in corpus : p.template = t}) = PerTemplate
<1>1. PICK s \in Seeds : corpus = Corpus(s, catalog)
  BY DEF Generated
<1>2. catalog \in Catalogs /\ ValidCatalog(catalog)
  BY DEF Generated
<1> DEFINE made(v) == Pair(s, catalog.templates[v.template], v)
           A == [t \in TemplateIds |-> {p \in corpus : p.template = t}]
<1>3. \A v : made(v).template = v.template
  BY DEF Pair
<1>4. corpus = {made(v) : v \in catalog.variants}
  BY <1>1 DEF Corpus
<1>5. \A p \in corpus : p.template \in TemplateIds
  BY <1>2, <1>3, <1>4 DEF ValidCatalog
<1>6. ASSUME NEW t \in TemplateIds PROVE IsFiniteSet(A[t]) /\ Cardinality(A[t]) = PerTemplate
  <2> DEFINE V == {v \in catalog.variants : v.template = t}
             S == {made(v) : v \in V}
  <2>1. V \in SUBSET catalog.variants
    OBVIOUS
  <2>2. IsFiniteSet(S) /\ Cardinality(S) = Cardinality(V)
    BY <1>2, <2>1, OnePairEach
  <2>3. Cardinality(V) = PerTemplate
    BY <1>2 DEF ValidCatalog
  <2> HIDE DEF made
  <2>4. S = A[t]
    BY <1>3, <1>4
  <2> HIDE DEF S, V, A
  <2>5. QED BY <2>2, <2>3, <2>4
<1>7. \A t, u \in TemplateIds : \A p : p \in A[t] /\ p \in A[u] => t = u
  OBVIOUS
<1>8. corpus = UNION {A[t] : t \in TemplateIds}
  BY <1>5
<1>9. PerTemplate \in Nat /\ IsFiniteSet(TemplateIds) /\ Cardinality(TemplateIds) \in Nat
  BY CatalogAssumption, FS_CardinalityType
<1> HIDE DEF A
<1>10. IsFiniteSet(corpus) /\ Cardinality(corpus) = Cardinality(TemplateIds) * PerTemplate
  BY <1>6, <1>7, <1>8, <1>9, EqualParts
<1>11. Cardinality(TemplateIds) * PerTemplate = PerTemplate * Cardinality(TemplateIds)
  BY <1>9
<1>12. QED BY <1>5, <1>6, <1>10, <1>11 DEF A

\* Twice as many completions as pairs, in any set of pairs.
LEMMA CompletionsCounted ==
  ASSUME Generated, IsFiniteSet(corpus)
  PROVE  IsFiniteSet(CompletionsOf(corpus)) /\ Cardinality(CompletionsOf(corpus)) = Cardinality(corpus) * 2
<1> DEFINE A == [p \in corpus |-> p.completions]
<1>1. ASSUME NEW p \in corpus PROVE IsFiniteSet(A[p]) /\ Cardinality(A[p]) = 2
  <2>1. PICK a, b : TwinFacts(p, a, b)
    BY TwinsOfPair
  <2>2. A[p] = {a, b} /\ a # b
    BY <2>1 DEF TwinFacts
  <2>3. IsFiniteSet({a, b}) /\ Cardinality({a, b}) = 2
    BY <2>2, TwoOf
  <2> HIDE DEF A
  <2>4. QED BY <2>2, <2>3
<1>2. \A p, q \in corpus : \A x : x \in A[p] /\ x \in A[q] => p = q
  BY CorpusTells
<1>3. CompletionsOf(corpus) = UNION {A[p] : p \in corpus}
  BY DEF CompletionsOf
<1> HIDE DEF A
<1>4. QED BY <1>1, <1>2, <1>3, EqualParts

-----------------------------------------------------------------------------
(* The materials of a corpus *)

\* What a verified panel says of a record.
LEMMA PanelIs ==
  ASSUME NEW r
  PROVE  /\ \A s \in SUBSET Atoms : Panel(r)[s] = Replay(r, s) /\ Panel(r)[s].trace.interventions = s
         /\ SuccessesIn(Panel(r)) = Succeeding(r) /\ Witnesses(Panel(r)) = Minimal(Succeeding(r))
         /\ FamilyOf(Panel(r)) = TargetFamily(Succeeding(r), target)
<1>1. \A s \in SUBSET Atoms : Panel(r)[s] = Replay(r, s)
  BY DEF Panel
<1>2. \A s : Replay(r, s).trace.interventions = s
  BY DEF Replay, PublicTrace
<1>3. \A s \in SUBSET Atoms : Panel(r)[s].outcome = IF Success(r, s) THEN "SUCCESS" ELSE "FAILURE"
  <2>1. \A s : Replay(r, s).outcome = IF Success(r, s) THEN "SUCCESS" ELSE "FAILURE"
    BY DEF Replay
  <2>2. QED BY <1>1, <2>1
<1>4. SuccessesIn(Panel(r)) = Succeeding(r)
  BY <1>3 DEF SuccessesIn, Succeeding
<1>5. QED BY <1>1, <1>2, <1>4 DEF Witnesses, FamilyOf

\* What the verified material of a completion carries.
LEMMA MaterialIs ==
  ASSUME NEW x
  PROVE  /\ CompletionMaterial(x).episode = x.episode /\ CompletionMaterial(x).commitment = x.commitment
         /\ CompletionMaterial(x).snapshot = x.record /\ CompletionMaterial(x).panel = Panel(x.record)
         /\ CompletionMaterial(x).probes["owner"] = ProbeOf(x.record, "owner")
         /\ CompletionMaterial(x).probes["epoch"] = ProbeOf(x.record, "epoch")
BY DEF CompletionMaterial, Probes

\* The verifier's validation of its materials never fails on a generated corpus.
LEMMA MaterialIsValid ==
  ASSUME Generated, NEW p \in corpus, NEW n
  PROVE  /\ ValidMaterial(Material(p, n)) /\ ValidTwin(Material(p, n))
         /\ Cardinality(Material(p, n).completions) = 2
<1> DEFINE m == Material(p, n)
<1>1. PICK a, b : TwinFacts(p, a, b)
  BY TwinsOfPair
<1>2. p.completions = {a, b} /\ a # b /\ a \in p.completions /\ b \in p.completions
  BY <1>1 DEF TwinFacts
<1>3. /\ m.id = p.id /\ m.task = p.task /\ m.template = p.template /\ m.manifest = Manifest(p, n)
      /\ m.completions = {CompletionMaterial(x) : x \in p.completions}
  BY DEF Material
<1> HIDE DEF m
<1>4. m.completions = {CompletionMaterial(a), CompletionMaterial(b)}
  BY <1>2, <1>3
<1>5. ValidPair(p)
  BY DEF Generated, ValidCorpus
<1>6. {} \in SUBSET Atoms
  OBVIOUS
<1>7. \A x \in {a, b} : /\ CompletionMaterial(x).episode = Opaque("wge", CompletionMaterial(x).commitment)
                        /\ CompletionMaterial(x).panel[{}].outcome = "FAILURE"
                        /\ \A s \in SUBSET Atoms : CompletionMaterial(x).panel[s].trace.interventions = s
  <2>1. SUFFICES ASSUME NEW x \in {a, b}
                 PROVE  /\ CompletionMaterial(x).episode = Opaque("wge", CompletionMaterial(x).commitment)
                        /\ CompletionMaterial(x).panel[{}].outcome = "FAILURE"
                        /\ \A s \in SUBSET Atoms : CompletionMaterial(x).panel[s].trace.interventions = s
    OBVIOUS
  <2>2. x.episode = Opaque("wge", x.commitment)
    BY <1>2, <1>5 DEF ValidPair
  <2>3. Replay(x.record, {}).outcome = "FAILURE"
    BY <1>1 DEF TwinFacts
  <2>4. Panel(x.record)[{}].outcome = "FAILURE"
    BY <1>6, <2>3, PanelIs
  <2>5. \A s \in SUBSET Atoms : Panel(x.record)[s].trace.interventions = s
    BY PanelIs
  <2>6. QED BY <2>2, <2>4, <2>5, MaterialIs
<1>8. CommitmentsOf(m.completions) = CommitmentsOf(p.completions)
  BY <1>2, <1>4, MaterialIs DEF CommitmentsOf
<1>9. m.manifest.task = m.task /\ m.manifest.template = m.template
      /\ m.manifest.commitments = CommitmentsOf(m.completions) /\ m.id = PairId(m.manifest.commitments)
  BY <1>3, <1>5, <1>8 DEF Manifest, ValidPair
<1>10. ValidMaterial(m)
  BY <1>4, <1>7, <1>9 DEF ValidMaterial
<1>11. ValidTwin(m)
  <2> DEFINE x == CompletionMaterial(a)
             y == CompletionMaterial(b)
  <2>1. x \in m.completions /\ y \in m.completions
    BY <1>4
  <2>2. x.panel[{}] = y.panel[{}] /\ x.panel[{}].outcome = "FAILURE"
    <3>1. Replay(a.record, {}) = Replay(b.record, {}) /\ Replay(a.record, {}).outcome = "FAILURE"
      BY <1>1 DEF TwinFacts
    <3>2. Panel(a.record)[{}] = Replay(a.record, {}) /\ Panel(b.record)[{}] = Replay(b.record, {})
      BY <1>6, PanelIs
    <3>3. x.panel = Panel(a.record) /\ y.panel = Panel(b.record)
      BY MaterialIs
    <3>4. QED BY <3>1, <3>2, <3>3
  <2>3. x.probes["owner"] = y.probes["owner"] /\ x.probes["epoch"] # y.probes["epoch"]
    BY <1>1, MaterialIs DEF TwinFacts
  <2>4. SuccessesIn(x.panel) = {{"refresh"}, Atoms} /\ SuccessesIn(y.panel) = {{"repair"}, Atoms}
    BY <1>1, PanelIs, MaterialIs DEF TwinFacts
  <2>5. FamilyOf(x.panel) = {{"environment"}} /\ FamilyOf(y.panel) = {{"policy"}}
    <3>1. \A z : FamilyBehind(z) = TargetFamily(Succeeding(z.record), target)
      BY DEF FamilyBehind, Succeeding
    <3>2. QED BY <1>1, <3>1, PanelIs, MaterialIs DEF TwinFacts
  <2> HIDE DEF x, y
  <2>6. QED BY <2>1, <2>2, <2>3, <2>4, <2>5 DEF ValidTwin
<1>12. Cardinality(m.completions) = 2
  <2>1. CompletionMaterial(a) # CompletionMaterial(b)
    <3>1. a.commitment # b.commitment
      BY <1>2, CorpusTells
    <3>2. QED BY <3>1, MaterialIs
  <2>2. QED BY <1>4, <2>1, TwoOf
<1>13. QED BY <1>10, <1>11, <1>12 DEF m

\* Nor does that of their collection.
LEMMA MaterialsAreValid ==
  ASSUME Generated, corpus # {}, NEW n
  PROVE  ValidMaterials(Materials(corpus, n))
<1> DEFINE M == Materials(corpus, n)
<1>1. \A m : m \in M <=> \E p \in corpus : m = Material(p, n)
  BY DEF Materials
<1>2. \A p : /\ Material(p, n).id = p.id /\ Material(p, n).task = p.task /\ Material(p, n).template = p.template
             /\ Material(p, n).completions = {CompletionMaterial(x) : x \in p.completions}
  BY DEF Material
<1>3. ValidCorpus(corpus, catalog)
  BY DEF Generated
<1> HIDE DEF M
<1>4. \A m \in M : ValidMaterial(m) /\ ValidTwin(m) /\ Cardinality(m.completions) = 2
  BY <1>1, MaterialIsValid
<1>5. \A m, k \in M : m.id = k.id \/ m.task = k.task => m = k
  BY <1>1, <1>2, <1>3 DEF ValidCorpus
<1>6. CompletionsOf(M) = {CompletionMaterial(x) : x \in CompletionsOf(corpus)}
  <2>1. \A k : k \in CompletionsOf(M) <=> \E p \in corpus : k \in Material(p, n).completions
    BY <1>1 DEF CompletionsOf
  <2>2. \A k : k \in CompletionsOf(M) <=> \E p \in corpus : \E x \in p.completions : k = CompletionMaterial(x)
    BY <1>2, <2>1
  <2>3. \A x : x \in CompletionsOf(corpus) <=> \E p \in corpus : x \in p.completions
    BY DEF CompletionsOf
  <2>4. QED BY <2>2, <2>3
<1>7. \A x, y \in CompletionsOf(corpus) : x.episode = y.episode \/ x.commitment = y.commitment \/ x.record = y.record => x = y
  BY <1>3 DEF ValidCorpus
<1>8. \A k, l \in CompletionsOf(M) :
        (k.episode = l.episode \/ k.commitment = l.commitment \/ k.snapshot = l.snapshot) => k = l
  BY <1>6, <1>7, MaterialIs
<1>9. Cardinality(CompletionsOf(M)) = CompletionCount
  <2>1. IsFiniteSet(corpus) /\ Cardinality(corpus) = PerTemplate * Cardinality(TemplateIds)
    BY CorpusCounted
  <2>2. IsFiniteSet(CompletionsOf(corpus)) /\ Cardinality(CompletionsOf(corpus)) = Cardinality(corpus) * 2
    BY <2>1, CompletionsCounted
  <2> DEFINE S == CompletionsOf(corpus)
             f == [x \in S |-> CompletionMaterial(x)]
  <2>3. \A x, y \in S : f[x] = f[y] => x = y
    <3>1. \A x, y \in S : CompletionMaterial(x) = CompletionMaterial(y) => x.commitment = y.commitment
      BY MaterialIs
    <3>2. QED BY <1>7, <3>1
  <2>4. f \in [S -> CompletionsOf(M)] /\ \A k \in CompletionsOf(M) : \E x \in S : f[x] = k
    BY <1>6
  <2> HIDE DEF f, S
  <2>5. Cardinality(CompletionsOf(M)) = Cardinality(S)
    BY <2>2, <2>3, <2>4, SameSize DEF S
  <2>6. PerTemplate \in Nat /\ Cardinality(TemplateIds) \in Nat
    BY CatalogAssumption, FS_CardinalityType
  <2>7. (PerTemplate * Cardinality(TemplateIds)) * 2 = 2 * PerTemplate * Cardinality(TemplateIds)
    BY <2>6
  <2>8. QED BY <2>1, <2>2, <2>5, <2>7 DEF S, CompletionCount
<1>10. ASSUME NEW t \in TemplateIds PROVE Cardinality({m \in M : m.template = t}) = PerTemplate
  <2> DEFINE S == {p \in corpus : p.template = t}
             T == {m \in M : m.template = t}
             f == [p \in S |-> Material(p, n)]
  <2>1. IsFiniteSet(S) /\ Cardinality(S) = PerTemplate
    BY CorpusCounted
  <2>2. \A p, q \in S : f[p] = f[q] => p = q
    <3>1. \A p, q \in corpus : Material(p, n) = Material(q, n) => p.id = q.id
      BY <1>2
    <3>2. QED BY <1>3, <3>1 DEF ValidCorpus
  <2>3. f \in [S -> T] /\ \A m \in T : \E p \in S : f[p] = m
    BY <1>1, <1>2
  <2> HIDE DEF f, S, T
  <2>4. Cardinality(T) = Cardinality(S)
    BY <2>1, <2>2, <2>3, SameSize
  <2>5. QED BY <2>1, <2>4 DEF T
<1>11. QED BY <1>4, <1>5, <1>8, <1>9, <1>10 DEF ValidMaterials, M

-----------------------------------------------------------------------------
(* The views of a corpus *)

\* The views projected from the corpus under adapter n.
Projected(n) == Project(Materials(corpus, n))

\* What the evidence of a completion is made of.
LEMMA EvidenceObserves ==
  ASSUME NEW p, NEW n, NEW x, NEW view
  PROVE  LET e == Evidence(p, n, x, view)
         IN  /\ e.manifest = Manifest(p, n) /\ e.baseline = Replay(x.record, {})
             /\ DOMAIN e.probes = ProbesShown(view) /\ DOMAIN e.replies = RepliesShown(view)
BY EvidenceFields

\* Every route is valid.
LEMMA RouteIsValid ==
  ASSUME Generated, NEW p \in corpus, NEW n
  PROVE  ValidRoute(RouteOf(p, n))
<1> DEFINE r == RouteOf(p, n)
           routed(x) == Routed(p, n, x)
<1>1. PICK a, b : TwinFacts(p, a, b)
  BY TwinsOfPair
<1>2. p.completions = {a, b} /\ a # b /\ a \in p.completions /\ b \in p.completions
  BY <1>1 DEF TwinFacts
<1>3. /\ r.id = p.id /\ r.template = p.template /\ r.manifest = Manifest(p, n)
      /\ r.completions = {routed(x) : x \in p.completions}
  BY RouteIs
<1>4. /\ Manifest(p, n).template = p.template
      /\ Manifest(p, n).commitments = CommitmentsOf(p.completions)
  BY DEF Manifest
<1>5. ValidPair(p)
  BY DEF Generated, ValidCorpus
<1>6. \A x : routed(x).episode = x.episode /\ routed(x).commitment = x.commitment /\ routed(x).snapshot = x.record
  BY RoutedIs
<1>7. \A x : \A view \in ViewKinds : routed(x).evidence[view] = Evidence(p, n, x, view)
  BY RoutedShows
<1> HIDE DEF r, routed
<1>8. CommitmentsOf(r.completions) = CommitmentsOf(p.completions)
  BY <1>3, <1>6 DEF CommitmentsOf
<1>9. Cardinality(r.completions) = 2
  <2>1. a.commitment # b.commitment
    BY <1>2, CorpusTells
  <2>2. routed(a) # routed(b)
    BY <1>6, <2>1
  <2>3. r.completions = {routed(a), routed(b)}
    BY <1>2, <1>3
  <2>4. QED BY <2>2, <2>3, TwoOf
<1>10. r.id = PairId(r.manifest.commitments)
  BY <1>3, <1>4, <1>5 DEF ValidPair
<1>11. \A z \in r.completions : z.episode = Opaque("wge", z.commitment)
  BY <1>3, <1>5, <1>6 DEF ValidPair
<1>12. \A z \in r.completions : \A v, w \in ViewKinds : z.evidence[v] = z.evidence[w] => v = w
  <2>1. \A x \in p.completions : \A v, w \in ViewKinds : Evidence(p, n, x, v) = Evidence(p, n, x, w) => v = w
    BY EvidenceTells
  <2>2. QED BY <1>3, <1>7, <2>1
<1>13. \A z, y \in r.completions : z.snapshot = y.snapshot => z = y
  <2>1. \A x, y \in p.completions : x.record = y.record => x = y
    BY CorpusTells
  <2>2. QED BY <1>3, <1>6, <2>1
<1>14. r.template = r.manifest.template /\ CommitmentsOf(r.completions) = r.manifest.commitments
  BY <1>3, <1>4, <1>8
<1>15. QED BY <1>9, <1>10, <1>11, <1>12, <1>13, <1>14 DEF ValidRoute, r

\* Routes are told apart by pair and by task, their completions by episode.
LEMMA RoutesTell ==
  ASSUME Generated, NEW n
  PROVE  Bijective(Projected(n).routes)
<1> DEFINE R == Projected(n).routes
<1>1. R = {RouteOf(p, n) : p \in corpus}
  BY ProjectionIs DEF Projected
<1>2. ValidCorpus(corpus, catalog) \/ corpus = {}
  BY DEF Generated
<1>3. \A p : Manifest(p, n).task = p.task
  BY DEF Manifest
<1> HIDE DEF R
<1>4. ASSUME NEW r \in R, NEW q \in R, r.id = q.id \/ r.manifest.task = q.manifest.task PROVE r = q
  <2>1. PICK k \in corpus : r = RouteOf(k, n)
    BY <1>1
  <2>2. PICK l \in corpus : q = RouteOf(l, n)
    BY <1>1
  <2>3. k.id = l.id \/ k.task = l.task
    BY <1>3, <1>4, <2>1, <2>2, RouteIs
  <2>4. k = l
    BY <1>2, <2>3 DEF ValidCorpus
  <2>5. QED BY <2>1, <2>2, <2>4
<1>5. ASSUME NEW r \in R, NEW q \in R, NEW x \in r.completions, NEW y \in q.completions, x.episode = y.episode
      PROVE  r = q /\ x = y
  <2>1. PICK k \in corpus : r = RouteOf(k, n)
    BY <1>1
  <2>2. PICK l \in corpus : q = RouteOf(l, n)
    BY <1>1
  <2>3. PICK z \in k.completions : x = Routed(k, n, z)
    BY <2>1, RouteIs
  <2>4. PICK w \in l.completions : y = Routed(l, n, w)
    BY <2>2, RouteIs
  <2>5. z.episode = w.episode
    BY <1>5, <2>3, <2>4, RoutedIs
  <2>6. k = l /\ z = w
    BY <2>5, CorpusTells
  <2>7. QED BY <2>1, <2>2, <2>3, <2>4, <2>6
<1>6. QED BY <1>4, <1>5 DEF Bijective, R

\* Every case is valid, and its evidence is its own.
LEMMA CasesTell ==
  ASSUME Generated, NEW n
  PROVE  /\ \A c \in Projected(n).cases : ValidCase(c)
         /\ \A c, d \in Projected(n).cases : c.evidence = d.evidence => c = d
<1> DEFINE C == Projected(n).cases
<1>1. \A c : c \in C <=> \E p \in corpus, view \in ViewKinds : \E x \in p.completions : c = Showing(p, n, x, view)
  BY ProjectionIs DEF Projected
<1> HIDE DEF C
<1>2. ASSUME NEW c \in C PROVE ValidCase(c)
  <2>1. PICK p \in corpus, view \in ViewKinds : \E x \in p.completions : c = Showing(p, n, x, view)
    BY <1>1
  <2>2. PICK x \in p.completions : c = Showing(p, n, x, view)
    BY <2>1
  <2>3. c.view = view /\ c.evidence = Evidence(p, n, x, view)
    BY <2>2, ShowingIs
  <2>4. PICK a, b : TwinFacts(p, a, b)
    BY TwinsOfPair
  <2>5. Replay(x.record, {}).outcome = "FAILURE"
    BY <2>4 DEF TwinFacts
  <2>6. QED BY <2>3, <2>5, EvidenceObserves DEF ValidCase
<1>3. ASSUME NEW c \in C, NEW d \in C, c.evidence = d.evidence PROVE c = d
  <2>1. PICK p \in corpus, view \in ViewKinds : \E x \in p.completions : c = Showing(p, n, x, view)
    BY <1>1
  <2>2. PICK x \in p.completions : c = Showing(p, n, x, view)
    BY <2>1
  <2>3. PICK q \in corpus, w \in ViewKinds : \E y \in q.completions : d = Showing(q, n, y, w)
    BY <1>1
  <2>4. PICK y \in q.completions : d = Showing(q, n, y, w)
    BY <2>3
  <2>5. Evidence(p, n, x, view) = Evidence(q, n, y, w)
    BY <1>3, <2>2, <2>4, ShowingIs
  <2>6. p = q /\ view = w
    BY <2>5, EvidenceTells
  <2>7. QED BY <2>2, <2>4, <2>5, <2>6, ShowingIs
<1>4. QED BY <1>2, <1>3 DEF C

\* Every assignment agrees with a case and a route.
LEMMA AssignmentsJoin ==
  ASSUME Generated, NEW n, NEW a \in Projected(n).assignments
  PROVE  Joined(a, Projected(n))
<1> DEFINE vs == Projected(n)
<1>1. PICK p \in corpus, view \in ViewKinds : \E x \in p.completions : a = Assigning(p, n, x, view)
  BY ProjectionIs DEF Projected
<1>2. PICK x \in p.completions : a = Assigning(p, n, x, view)
  BY <1>1
<1> DEFINE r == RouteOf(p, n)
           z == Routed(p, n, x)
           c == Showing(p, n, x, view)
           e == Evidence(p, n, x, view)
<1>3. r \in vs.routes /\ z \in r.completions
  BY ProjectionIs, RouteIs DEF Projected
<1>4. c \in vs.cases
  BY ProjectionIs DEF Projected
<1>5. a = Assignment(r, z, view, e)
  BY <1>2 DEF Assigning
<1>6. a.view = view /\ a.evidence = e
  BY <1>2, AssigningIs
<1>7. c.template = r.template /\ c.view = view /\ c.evidence = e
  BY ShowingIs, RouteIs
<1>8. e.manifest = r.manifest
  BY EvidenceObserves, RouteIs
<1>9. z.evidence[view] = e
  BY RoutedShows
<1> HIDE DEF vs, r, z, c, e
<1>10. /\ a = Assignment(r, z, a.view, c.evidence) /\ a.evidence = z.evidence[a.view]
       /\ c.template = r.template /\ c.view = a.view /\ c.evidence.manifest = r.manifest
  BY <1>5, <1>6, <1>7, <1>8, <1>9
<1>11. Joined(a, vs)
  BY <1>3, <1>4, <1>10 DEF Joined
<1>12. QED BY <1>11 DEF vs

\* A case is assigned to the completions that cannot be told apart in its view.
LEMMA AssignedToSeen ==
  ASSUME Generated, NEW n, NEW p \in corpus, NEW x \in p.completions, NEW view \in ViewKinds
  PROVE  \A a : a \in Projected(n).assignments /\ a.evidence = Evidence(p, n, x, view)
                  <=> \E y \in Seen(p, x, view) : a = Assigning(p, n, y, view)
<1>1. \A a : a \in Projected(n).assignments <=>
               \E q \in corpus, w \in ViewKinds : \E y \in q.completions : a = Assigning(q, n, y, w)
  BY ProjectionIs DEF Projected
<1>2. \A q, y, w : Assigning(q, n, y, w).evidence = Evidence(q, n, y, w)
  BY AssigningIs
<1>3. ASSUME NEW a \in Projected(n).assignments, a.evidence = Evidence(p, n, x, view)
      PROVE  \E y \in Seen(p, x, view) : a = Assigning(p, n, y, view)
  <2>1. PICK q \in corpus, w \in ViewKinds : \E y \in q.completions : a = Assigning(q, n, y, w)
    BY <1>1
  <2>2. PICK y \in q.completions : a = Assigning(q, n, y, w)
    BY <2>1
  <2>3. Evidence(p, n, x, view) = Evidence(q, n, y, w)
    BY <1>2, <1>3, <2>2
  <2>4. p = q /\ view = w /\ y \in Seen(p, x, view)
    BY <2>3, EvidenceTells
  <2>5. QED BY <2>2, <2>4
<1>4. ASSUME NEW a, NEW y \in Seen(p, x, view), a = Assigning(p, n, y, view)
      PROVE  a \in Projected(n).assignments /\ a.evidence = Evidence(p, n, x, view)
  <2>1. y \in p.completions /\ Evidence(p, n, y, view) = Evidence(p, n, x, view)
    BY SeenShare
  <2>2. QED BY <1>1, <1>2, <1>4, <2>1
<1>5. QED BY <1>3, <1>4

\* These are two in a shared view and one in any other, all of one pair.
LEMMA SeenCounted ==
  ASSUME Generated, NEW p \in corpus, NEW x \in p.completions, NEW view
  PROVE  /\ IsFiniteSet(Seen(p, x, view)) /\ Seen(p, x, view) \in SUBSET p.completions
         /\ Cardinality(Seen(p, x, view)) = IF view \in SharedViews THEN 2 ELSE 1
<1>1. CASE view \in SharedViews
  <2>1. PICK a, b : TwinFacts(p, a, b)
    BY TwinsOfPair
  <2>2. p.completions = {a, b} /\ a # b
    BY <2>1 DEF TwinFacts
  <2>3. IsFiniteSet({a, b}) /\ Cardinality({a, b}) = 2
    BY <2>2, TwoOf
  <2>4. QED BY <1>1, <2>2, <2>3 DEF Seen
<1>2. CASE view \notin SharedViews
  <2>1. IsFiniteSet({x}) /\ Cardinality({x}) = 1
    BY FS_Singleton
  <2>2. QED BY <1>2, <2>1 DEF Seen
<1>3. QED BY <1>1, <1>2

\* A case is assigned to one completion, or in a shared view to both twins.
LEMMA CaseMultiplicity ==
  ASSUME Generated, NEW n, NEW c \in Projected(n).cases
  PROVE  Multiplicity(Projected(n), c)
<1>1. PICK p \in corpus, view \in ViewKinds : \E x \in p.completions : c = Showing(p, n, x, view)
  BY ProjectionIs DEF Projected
<1>2. PICK x \in p.completions : c = Showing(p, n, x, view)
  BY <1>1
<1> DEFINE S == Seen(p, x, view)
           T == AssignedTo(Projected(n), c)
           f == [y \in S |-> Assigning(p, n, y, view)]
<1>3. c.evidence = Evidence(p, n, x, view) /\ c.view = view
  BY <1>2, ShowingIs
<1>4. \A a : a \in T <=> \E y \in S : a = Assigning(p, n, y, view)
  <2>1. \A a : a \in T <=> a \in Projected(n).assignments /\ a.evidence = Evidence(p, n, x, view)
    BY <1>3 DEF AssignedTo
  <2> HIDE DEF S, T
  <2>2. QED BY <2>1, AssignedToSeen DEF S
<1>5. \A y : /\ Assigning(p, n, y, view).pair = p.id /\ Assigning(p, n, y, view).task = p.task
             /\ Assigning(p, n, y, view).episode = y.episode
  BY AssigningIs
<1>6. IsFiniteSet(S) /\ S \in SUBSET p.completions /\ Cardinality(S) = IF view \in SharedViews THEN 2 ELSE 1
  BY SeenCounted
<1> HIDE DEF S, T
<1>7. \A a, b \in T : a.pair = b.pair /\ a.task = b.task
  BY <1>4, <1>5
<1>8. \A y, z \in S : f[y] = f[z] => y = z
  <2>1. \A y, z \in p.completions : y.episode = z.episode => y = z
    BY CorpusTells
  <2>2. QED BY <1>5, <1>6, <2>1
<1>9. f \in [S -> T] /\ \A a \in T : \E y \in S : f[y] = a
  BY <1>4
<1> HIDE DEF f
<1>10. Cardinality(T) = Cardinality(S)
  BY <1>6, <1>8, <1>9, SameSize
<1>11. QED BY <1>3, <1>6, <1>7, <1>10 DEF Multiplicity, T

\* Every completion is assigned once in every view.
LEMMA OnceInEveryView ==
  ASSUME Generated, NEW n
  PROVE  EverywhereOnce(Projected(n))
<1> DEFINE vs == Projected(n)
<1>1. /\ vs.routes = {RouteOf(p, n) : p \in corpus}
      /\ \A a : a \in vs.assignments <=>
                  \E p \in corpus, view \in ViewKinds : \E x \in p.completions : a = Assigning(p, n, x, view)
  BY ProjectionIs DEF Projected
<1> HIDE DEF vs
<1>2. SUFFICES ASSUME NEW r \in vs.routes, NEW view \in ViewKinds, NEW z \in r.completions
               PROVE  Cardinality({a \in vs.assignments : a.episode = z.episode /\ a.view = view}) = 1
  BY DEF EverywhereOnce, vs
<1>3. PICK p \in corpus : r = RouteOf(p, n)
  BY <1>1
<1>4. PICK x \in p.completions : z = Routed(p, n, x)
  BY <1>3, RouteIs
<1>5. \A q, y, w : Assigning(q, n, y, w).episode = y.episode /\ Assigning(q, n, y, w).view = w
  BY AssigningIs
<1>6. ASSUME NEW a \in vs.assignments, a.episode = z.episode, a.view = view PROVE a = Assigning(p, n, x, view)
  <2>1. PICK q \in corpus, w \in ViewKinds : \E y \in q.completions : a = Assigning(q, n, y, w)
    BY <1>1
  <2>2. PICK y \in q.completions : a = Assigning(q, n, y, w)
    BY <2>1
  <2>3. y.episode = x.episode /\ w = view
    BY <1>4, <1>5, <1>6, <2>2, RoutedIs
  <2>4. p = q /\ x = y
    BY <2>3, CorpusTells
  <2>5. QED BY <2>2, <2>3, <2>4
<1>7. /\ Assigning(p, n, x, view) \in vs.assignments
      /\ Assigning(p, n, x, view).episode = z.episode /\ Assigning(p, n, x, view).view = view
  BY <1>1, <1>4, <1>5, RoutedIs
<1>8. {a \in vs.assignments : a.episode = z.episode /\ a.view = view} = {Assigning(p, n, x, view)}
  BY <1>6, <1>7
<1>9. QED BY <1>8, FS_Singleton

-----------------------------------------------------------------------------
(* The counts a set of views is held to *)

ClearViews == {"epoch_probe", "refresh_receipt"}

\* Two of the four views show twins alike, two tell them apart.
LEMMA ViewsCounted ==
  /\ IsFiniteSet(ViewKinds) /\ Cardinality(ViewKinds) = 4
  /\ IsFiniteSet(SharedViews) /\ Cardinality(SharedViews) = 2
  /\ IsFiniteSet(ClearViews) /\ Cardinality(ClearViews) = 2
  /\ ViewKinds = SharedViews \cup ClearViews /\ SharedViews \cap ClearViews = {}
<1>1. IsFiniteSet(SharedViews) /\ Cardinality(SharedViews) = 2
  BY TwoOf DEF SharedViews
<1>2. IsFiniteSet(ClearViews) /\ Cardinality(ClearViews) = 2
  BY TwoOf DEF ClearViews
<1>3. ViewKinds = SharedViews \cup ClearViews /\ SharedViews \cap ClearViews = {}
  BY DEF ViewKinds, SharedViews, ClearViews
<1>4. IsFiniteSet(ViewKinds) /\ Cardinality(ViewKinds) = 4
  <2>1. {"trace_only", "owner_probe"} \cap {"epoch_probe", "refresh_receipt"} = {}
    OBVIOUS
  <2>2. QED BY <2>1, FourOf DEF ViewKinds
<1>5. QED BY <1>1, <1>2, <1>3, <1>4

\* A completion shows as many records as it has views.
LEMMA RowCounted ==
  ASSUME Generated, NEW n, NEW p \in corpus, NEW x \in p.completions, NEW W \in SUBSET ViewKinds
  PROVE  LET T == {Evidence(p, n, x, w) : w \in W}
         IN  IsFiniteSet(T) /\ Cardinality(T) = Cardinality(W)
<1> DEFINE T == {Evidence(p, n, x, w) : w \in W}
           f == [w \in W |-> Evidence(p, n, x, w)]
<1>1. IsFiniteSet(W)
  BY ViewsCounted, FS_Subset
<1>2. \A v, w \in W : f[v] = f[w] => v = w
  <2>1. \A v, w \in ViewKinds : Evidence(p, n, x, v) = Evidence(p, n, x, w) => v = w
    BY EvidenceTells
  <2>2. QED BY <2>1
<1>3. f \in [W -> T] /\ \A e \in T : \E w \in W : f[w] = e
  OBVIOUS
<1> HIDE DEF f, T
<1>4. IsFiniteSet(T) /\ Cardinality(T) = Cardinality(W)
  BY <1>1, <1>2, <1>3, SameSize
<1>5. QED BY <1>4 DEF T

\* The twins show one record in a shared view and two in any other.
LEMMA ColumnCounted ==
  ASSUME Generated, NEW n, NEW p \in corpus, NEW view \in ViewKinds
  PROVE  LET T == {Evidence(p, n, x, view) : x \in p.completions}
         IN  IsFiniteSet(T) /\ Cardinality(T) = IF view \in SharedViews THEN 1 ELSE 2
<1> DEFINE e(x) == Evidence(p, n, x, view)
           T == {e(x) : x \in p.completions}
<1>1. PICK a, b : TwinFacts(p, a, b)
  BY TwinsOfPair
<1>2. p.completions = {a, b} /\ a # b /\ a \in p.completions /\ b \in p.completions
  BY <1>1 DEF TwinFacts
<1>3. T = {e(a), e(b)}
  BY <1>2
<1>4. CASE view \in SharedViews
  <2>1. b \in Seen(p, a, view)
    BY <1>2, <1>4 DEF Seen
  <2>2. e(a) = e(b)
    BY <1>2, <2>1, SeenShare
  <2> HIDE DEF e, T
  <2>3. T = {e(a)}
    BY <1>3, <2>2
  <2>4. IsFiniteSet({e(a)}) /\ Cardinality({e(a)}) = 1
    BY FS_Singleton
  <2>5. IsFiniteSet(T) /\ Cardinality(T) = 1
    BY <2>3, <2>4
  <2>6. QED BY <1>4, <2>5 DEF T, e
<1>5. CASE view \notin SharedViews
  <2>1. b \notin Seen(p, a, view)
    BY <1>2, <1>5 DEF Seen
  <2>2. e(a) # e(b)
    BY <1>2, <2>1, EvidenceTells
  <2> HIDE DEF e, T
  <2>3. IsFiniteSet(T) /\ Cardinality(T) = 2
    BY <1>3, <2>2, TwoOf
  <2>4. QED BY <1>5, <2>3 DEF T, e
<1>6. QED BY <1>4, <1>5

\* Together they show six.
LEMMA SixRecords ==
  ASSUME Generated, NEW n, NEW p \in corpus
  PROVE  LET T == {Evidence(p, n, x, w) : x \in p.completions, w \in ViewKinds}
         IN  IsFiniteSet(T) /\ Cardinality(T) = 6
<1> DEFINE A == [w \in ViewKinds |-> {Evidence(p, n, x, w) : x \in p.completions}]
           T == {Evidence(p, n, x, w) : x \in p.completions, w \in ViewKinds}
           K == UNION {A[w] : w \in SharedViews}
           L == UNION {A[w] : w \in ClearViews}
<1>1. \A w \in ViewKinds : IsFiniteSet(A[w]) /\ Cardinality(A[w]) = IF w \in SharedViews THEN 1 ELSE 2
  <2>1. SUFFICES ASSUME NEW w \in ViewKinds
                 PROVE  IsFiniteSet(A[w]) /\ Cardinality(A[w]) = IF w \in SharedViews THEN 1 ELSE 2
    OBVIOUS
  <2>2. A[w] = {Evidence(p, n, x, w) : x \in p.completions}
    OBVIOUS
  <2> HIDE DEF A
  <2>3. QED BY <2>2, ColumnCounted
<1>2. \A v, w \in ViewKinds : \A e : e \in A[v] /\ e \in A[w] => v = w
  <2>1. \A x, y \in p.completions : \A v, w \in ViewKinds : Evidence(p, n, x, v) = Evidence(p, n, y, w) => v = w
    BY EvidenceTells
  <2>2. QED BY <2>1
<1>3. T = UNION {A[w] : w \in ViewKinds}
  OBVIOUS
<1> HIDE DEF A, T
<1>4. SharedViews \subseteq ViewKinds /\ ClearViews \subseteq ViewKinds /\ ClearViews \cap SharedViews = {}
  BY ViewsCounted
<1>5. IsFiniteSet(K) /\ Cardinality(K) = 2
  <2>1. \A w \in SharedViews : IsFiniteSet(A[w]) /\ Cardinality(A[w]) = 1
    BY <1>1, <1>4
  <2>2. \A v, w \in SharedViews : \A e : e \in A[v] /\ e \in A[w] => v = w
    BY <1>2, <1>4
  <2> DEFINE m == 1
  <2>3. m \in Nat /\ m = 1
    OBVIOUS
  <2> HIDE DEF m
  <2>4. \A w \in SharedViews : IsFiniteSet(A[w]) /\ Cardinality(A[w]) = m
    BY <2>1, <2>3
  <2>5. IsFiniteSet(SharedViews) /\ m \in Nat
    BY <2>3, ViewsCounted
  <2>6. IsFiniteSet(K) /\ Cardinality(K) = Cardinality(SharedViews) * m
    BY <2>2, <2>4, <2>5, EqualParts
  <2> HIDE DEF K
  <2>7. QED BY <2>3, <2>6, ViewsCounted
<1>6. IsFiniteSet(L) /\ Cardinality(L) = 4
  <2>1. \A w \in ClearViews : IsFiniteSet(A[w]) /\ Cardinality(A[w]) = 2
    BY <1>1, <1>4
  <2>2. \A v, w \in ClearViews : \A e : e \in A[v] /\ e \in A[w] => v = w
    BY <1>2, <1>4
  <2>3. IsFiniteSet(L) /\ Cardinality(L) = Cardinality(ClearViews) * 2
    BY <2>1, <2>2, ViewsCounted, EqualParts
  <2> HIDE DEF L
  <2>4. QED BY <2>3, ViewsCounted
<1>7. K \cap L = {}
  BY <1>2, <1>4
<1>8. T = K \cup L
  BY <1>3, ViewsCounted
<1> HIDE DEF K, L
<1>9. IsFiniteSet(K \cup L) /\ Cardinality(K \cup L) = Cardinality(K) + Cardinality(L) - Cardinality(K \cap L)
  BY <1>5, <1>6, FS_Union
<1>10. Cardinality(K \cap L) = 0
  BY <1>7, FS_EmptySet
<1>11. IsFiniteSet(T) /\ Cardinality(T) = 6
  BY <1>5, <1>6, <1>8, <1>9, <1>10
<1>12. QED BY <1>11 DEF T

\* One route for each pair.
LEMMA RoutesCounted ==
  ASSUME Generated, corpus # {}, NEW n
  PROVE  Cardinality(Projected(n).routes) = PerTemplate * Cardinality(TemplateIds)
<1> DEFINE R == Projected(n).routes
           f == [p \in corpus |-> RouteOf(p, n)]
<1>1. R = {RouteOf(p, n) : p \in corpus}
  BY ProjectionIs DEF Projected
<1>2. \A p, q \in corpus : f[p] = f[q] => p = q
  <2>1. \A p, q \in corpus : RouteOf(p, n) = RouteOf(q, n) => p.id = q.id
    BY RouteIs
  <2>2. QED BY <2>1 DEF Generated, ValidCorpus
<1>3. f \in [corpus -> R] /\ \A r \in R : \E p \in corpus : f[p] = r
  BY <1>1
<1> HIDE DEF f, R
<1>4. IsFiniteSet(corpus) /\ Cardinality(corpus) = PerTemplate * Cardinality(TemplateIds)
  BY CorpusCounted
<1>5. Cardinality(R) = Cardinality(corpus)
  BY <1>2, <1>3, <1>4, SameSize
<1>6. QED BY <1>4, <1>5 DEF R

\* Eight assignments for each pair.
LEMMA AssignmentsCounted ==
  ASSUME Generated, corpus # {}, NEW n
  PROVE  Cardinality(Projected(n).assignments) = 8 * (PerTemplate * Cardinality(TemplateIds))
<1> DEFINE S == Projected(n).assignments
           A == [p \in corpus |-> {Assigning(p, n, x, w) : x \in p.completions, w \in ViewKinds}]
<1>1. \A a : a \in S <=> \E p \in corpus, w \in ViewKinds : \E x \in p.completions : a = Assigning(p, n, x, w)
  BY ProjectionIs DEF Projected
<1>2. \A q, y, w : /\ Assigning(q, n, y, w).episode = y.episode /\ Assigning(q, n, y, w).view = w
                   /\ Assigning(q, n, y, w).pair = q.id
  BY AssigningIs
<1> HIDE DEF S
<1>3. ASSUME NEW p \in corpus PROVE IsFiniteSet(A[p]) /\ Cardinality(A[p]) = 8
  <2> DEFINE X == p.completions
             I == X \X ViewKinds
             f == [u \in I |-> Assigning(p, n, u[1], u[2])]
             T == A[p]
  <2>1. PICK a, b : TwinFacts(p, a, b)
    BY TwinsOfPair
  <2>2. X = {a, b} /\ a # b
    BY <2>1 DEF TwinFacts
  <2>3. IsFiniteSet(X) /\ Cardinality(X) = 2
    <3> HIDE DEF X
    <3>1. QED BY <2>2, TwoOf
  <2>4. T = {Assigning(p, n, x, w) : x \in X, w \in ViewKinds}
    OBVIOUS
  <2>5. \A x, y \in X : x.episode = y.episode => x = y
    BY CorpusTells
  <2> HIDE DEF X, T
  <2>6. \A u, v \in I : f[u] = f[v] => u = v
    <3>1. SUFFICES ASSUME NEW u \in I, NEW v \in I, f[u] = f[v] PROVE u = v
      OBVIOUS
    <3>2. Assigning(p, n, u[1], u[2]) = Assigning(p, n, v[1], v[2])
      BY <3>1
    <3>3. u[1].episode = v[1].episode /\ u[2] = v[2]
      BY <1>2, <3>2
    <3>4. u[1] = v[1]
      BY <2>5, <3>3
    <3>5. u = <<u[1], u[2]>> /\ v = <<v[1], v[2]>>
      OBVIOUS
    <3>6. QED BY <3>3, <3>4, <3>5
  <2>7. f \in [I -> T] /\ \A t \in T : \E u \in I : f[u] = t
    <3>1. \A u \in I : f[u] = Assigning(p, n, u[1], u[2]) /\ u[1] \in X /\ u[2] \in ViewKinds
      OBVIOUS
    <3>2. f \in [I -> T]
      BY <2>4, <3>1
    <3>3. ASSUME NEW t \in T PROVE \E u \in I : f[u] = t
      <4>1. PICK x \in X, w \in ViewKinds : t = Assigning(p, n, x, w)
        BY <2>4
      <4>2. <<x, w>> \in I /\ f[<<x, w>>] = t
        BY <4>1
      <4>3. QED BY <4>2
    <3>4. QED BY <3>2, <3>3
  <2>8. IsFiniteSet(I) /\ Cardinality(I) = Cardinality(X) * Cardinality(ViewKinds)
    BY <2>3, ViewsCounted, FS_Product
  <2> HIDE DEF f, I
  <2>9. IsFiniteSet(T) /\ Cardinality(T) = Cardinality(I)
    BY <2>6, <2>7, <2>8, SameSize
  <2>10. Cardinality(I) = 8
    BY <2>3, <2>8, ViewsCounted
  <2>11. QED BY <2>9, <2>10 DEF T
<1>4. \A p, q \in corpus : \A u : u \in A[p] /\ u \in A[q] => p = q
  <2>1. SUFFICES ASSUME NEW p \in corpus, NEW q \in corpus, NEW u, u \in A[p], u \in A[q] PROVE p = q
    OBVIOUS
  <2>2. u.pair = p.id /\ u.pair = q.id
    BY <1>2, <2>1
  <2>3. QED BY <2>2 DEF Generated, ValidCorpus
<1>5. S = UNION {A[p] : p \in corpus}
  BY <1>1
<1> HIDE DEF A
<1>6. IsFiniteSet(corpus) /\ Cardinality(corpus) = PerTemplate * Cardinality(TemplateIds)
  BY CorpusCounted
<1>7. Cardinality(S) = Cardinality(corpus) * 8
  BY <1>3, <1>4, <1>5, <1>6, EqualParts
<1>8. PerTemplate \in Nat /\ Cardinality(TemplateIds) \in Nat
  BY CatalogAssumption, FS_CardinalityType
<1>9. (PerTemplate * Cardinality(TemplateIds)) * 8 = 8 * (PerTemplate * Cardinality(TemplateIds))
  BY <1>8
<1>10. QED BY <1>6, <1>7, <1>9 DEF S

\* In every view a template has a case for each pair, or one for each completion.
LEMMA CasesCounted ==
  ASSUME Generated, corpus # {}, NEW n, NEW t \in TemplateIds, NEW view \in ViewKinds
  PROVE  Cardinality({c \in Projected(n).cases : c.template = t /\ c.view = view}) =
           IF view \in SharedViews THEN PerTemplate ELSE 2 * PerTemplate
<1> DEFINE P == {p \in corpus : p.template = t}
           A == [p \in P |-> {Showing(p, n, x, view) : x \in p.completions}]
           T == {c \in Projected(n).cases : c.template = t /\ c.view = view}
           k == IF view \in SharedViews THEN 1 ELSE 2
<1>1. \A c : c \in Projected(n).cases <=>
               \E p \in corpus, w \in ViewKinds : \E x \in p.completions : c = Showing(p, n, x, w)
  BY ProjectionIs DEF Projected
<1>2. \A q, y, w : /\ Showing(q, n, y, w).template = q.template /\ Showing(q, n, y, w).view = w
                   /\ Showing(q, n, y, w).evidence = Evidence(q, n, y, w)
                   /\ Showing(q, n, y, w) = [template |-> q.template, view |-> w, evidence |-> Evidence(q, n, y, w)]
  BY ShowingIs
<1>3. ASSUME NEW p \in P PROVE IsFiniteSet(A[p]) /\ Cardinality(A[p]) = k
  <2> DEFINE E == {Evidence(p, n, x, view) : x \in p.completions}
             f == [e \in E |-> [template |-> t, view |-> view, evidence |-> e]]
             U == A[p]
  <2>1. IsFiniteSet(E) /\ Cardinality(E) = k
    BY ColumnCounted
  <2>2. \A d, e \in E : f[d] = f[e] => d = e
    <3> HIDE DEF E
    <3>1. \A e \in E : f[e].evidence = e
      OBVIOUS
    <3>2. QED BY <3>1
  <2>3. U = {Showing(p, n, x, view) : x \in p.completions} /\ p.template = t
    OBVIOUS
  <2> HIDE DEF U
  <2>4. \A x : Showing(p, n, x, view) = [template |-> t, view |-> view, evidence |-> Evidence(p, n, x, view)]
    BY <1>2, <2>3
  <2>5. f \in [E -> U] /\ \A c \in U : \E e \in E : f[e] = c
    BY <2>3, <2>4
  <2> HIDE DEF E, f, k
  <2>6. IsFiniteSet(U) /\ Cardinality(U) = k
    BY <2>1, <2>2, <2>5, SameSize
  <2>7. QED BY <2>6 DEF U
<1>4. \A p, q \in P : \A u : u \in A[p] /\ u \in A[q] => p = q
  <2>1. SUFFICES ASSUME NEW p \in P, NEW q \in P, NEW u, u \in A[p], u \in A[q] PROVE p = q
    OBVIOUS
  <2>2. PICK x \in p.completions : u = Showing(p, n, x, view)
    BY <2>1
  <2>3. PICK y \in q.completions : u = Showing(q, n, y, view)
    BY <2>1
  <2>4. Showing(p, n, x, view).evidence = Evidence(p, n, x, view)
    BY <1>2
  <2>5. Showing(q, n, y, view).evidence = Evidence(q, n, y, view)
    BY <1>2
  <2>6. p \in corpus /\ q \in corpus
    OBVIOUS
  <2> HIDE DEF A, P, T
  <2>7. Evidence(p, n, x, view) = Evidence(q, n, y, view)
    BY <2>2, <2>3, <2>4, <2>5
  <2>8. QED BY <2>6, <2>7, EvidenceTells
<1>5. T = UNION {A[p] : p \in P}
  <2>1. ASSUME NEW c \in T PROVE \E p \in P : c \in A[p]
    <3>1. PICK p \in corpus, w \in ViewKinds : \E x \in p.completions : c = Showing(p, n, x, w)
      BY <1>1
    <3>2. p \in P /\ w = view
      BY <1>2, <3>1
    <3>3. QED BY <3>1, <3>2
  <2>2. ASSUME NEW p \in P, NEW c \in A[p] PROVE c \in T
    <3>1. PICK x \in p.completions : c = Showing(p, n, x, view)
      OBVIOUS
    <3>2. QED BY <1>1, <1>2, <3>1
  <2> HIDE DEF A, P, T
  <2>3. QED BY <2>1, <2>2
<1>6. IsFiniteSet(P) /\ Cardinality(P) = PerTemplate
  BY CorpusCounted
<1>7. k \in Nat
  OBVIOUS
<1>8. PerTemplate * k = IF view \in SharedViews THEN PerTemplate ELSE 2 * PerTemplate
  BY CatalogAssumption
<1> HIDE DEF A, P, T, k
<1>9. \A p \in P : IsFiniteSet(A[p]) /\ Cardinality(A[p]) = k
  BY <1>3
<1>10. Cardinality(UNION {A[p] : p \in P}) = Cardinality(P) * k
  BY <1>4, <1>6, <1>7, <1>9, EqualParts
<1>11. Cardinality(T) = Cardinality(P) * k
  BY <1>5, <1>10
<1>12. QED BY <1>6, <1>8, <1>11 DEF T, k

\* Every pair is shown in six records.
LEMMA RecordsOfRoute ==
  ASSUME Generated, NEW n, NEW r \in Projected(n).routes
  PROVE  Cardinality({a.evidence : a \in {b \in Projected(n).assignments : b.pair = r.id}}) = 6
<1>1. /\ Projected(n).routes = {RouteOf(p, n) : p \in corpus}
      /\ \A a : a \in Projected(n).assignments <=>
                  \E p \in corpus, w \in ViewKinds : \E x \in p.completions : a = Assigning(p, n, x, w)
  BY ProjectionIs DEF Projected
<1>2. PICK p \in corpus : r = RouteOf(p, n)
  BY <1>1
<1>3. r.id = p.id
  BY <1>2, RouteIs
<1>4. \A q, y, w : Assigning(q, n, y, w).pair = q.id /\ Assigning(q, n, y, w).evidence = Evidence(q, n, y, w)
  BY AssigningIs
<1> DEFINE B == {b \in Projected(n).assignments : b.pair = r.id}
<1>5. \A b : b \in B <=> \E w \in ViewKinds : \E x \in p.completions : b = Assigning(p, n, x, w)
  <2>1. \A q \in corpus : q.id = p.id => q = p
    BY DEF Generated, ValidCorpus
  <2>2. \A b : b \in B <=> \E q \in corpus, w \in ViewKinds : \E x \in q.completions :
                             b = Assigning(q, n, x, w) /\ b.pair = p.id
    BY <1>1, <1>3
  <2> HIDE DEF B
  <2>3. QED BY <1>4, <2>1, <2>2
<1> HIDE DEF B
<1>6. {a.evidence : a \in B} = {Evidence(p, n, x, w) : x \in p.completions, w \in ViewKinds}
  BY <1>4, <1>5
<1> DEFINE U == {Evidence(p, n, x, w) : x \in p.completions, w \in ViewKinds}
           D == {a.evidence : a \in B}
<1>7. Cardinality(U) = 6
  BY SixRecords
<1>8. D = U
  BY <1>6
<1> HIDE DEF U, D
<1>9. Cardinality(D) = 6
  BY <1>7, <1>8
<1>10. QED BY <1>9 DEF D, B

\* So the views of a corpus always pass their own validation.
LEMMA ViewsAreValid ==
  ASSUME Generated, corpus # {}, NEW n
  PROVE  ValidViews(Projected(n))
<1>1. \A r \in Projected(n).routes : ValidRoute(r)
  BY ProjectionIs, RouteIsValid DEF Projected
<1>2. Counted(Projected(n))
  BY RoutesCounted, AssignmentsCounted, CasesCounted, RecordsOfRoute DEF Counted
<1>3. QED
  BY <1>1, <1>2, CasesTell, RoutesTell, AssignmentsJoin, CaseMultiplicity, OnceInEveryView DEF ValidViews

-----------------------------------------------------------------------------
(* Authoring from the views of the very corpus, pinned by the very installation *)

Matched == Generated /\ corpus # {} /\ Matching

RouteNow(p) == RouteOf(p, installed.adapter)
RecordOf(p, x, view) == Evidence(p, installed.adapter, x, view)
ShownNow(p, x, view) == Showing(p, installed.adapter, x, view)
Keyed(p, x, view) == TruthCase(RouteNow(p), ShownNow(p, x, view))

\* The views at hand, record by record.
LEMMA ViewsAtHand ==
  ASSUME Matched
  PROVE  /\ views = Projected(installed.adapter)
         /\ views.routes = {RouteNow(p) : p \in corpus}
         /\ \A c : c \in views.cases <=>
               \E p \in corpus, view \in ViewKinds : \E x \in p.completions : c = ShownNow(p, x, view)
         /\ \A a : a \in views.assignments <=>
               \E p \in corpus, view \in ViewKinds : \E x \in p.completions :
                  a = Assigning(p, installed.adapter, x, view)
<1>1. views = Project(Materials(corpus, installed.adapter))
  BY DEF Matched, Matching, Verified
<1>2. views.routes = {RouteOf(p, installed.adapter) : p \in corpus}
  BY <1>1, ProjectionIs
<1>3. \A c : c \in views.cases <=>
         \E p \in corpus, view \in ViewKinds : \E x \in p.completions : c = Showing(p, installed.adapter, x, view)
  BY <1>1, ProjectionIs
<1>4. \A a : a \in views.assignments <=>
         \E p \in corpus, view \in ViewKinds : \E x \in p.completions : a = Assigning(p, installed.adapter, x, view)
  BY <1>1, ProjectionIs
<1>5. QED BY <1>1, <1>2, <1>3, <1>4 DEF Projected, RouteNow, ShownNow

\* The fields of a route and of a case at hand.
LEMMA RouteAtHand ==
  ASSUME NEW p
  PROVE  /\ RouteNow(p).id = p.id /\ RouteNow(p).template = p.template
         /\ RouteNow(p).manifest = Manifest(p, installed.adapter)
         /\ RouteNow(p).completions = {Routed(p, installed.adapter, x) : x \in p.completions}
BY RouteIs DEF RouteNow

\* The fields of a registry manifest.
LEMMA ManifestIs ==
  ASSUME NEW p, NEW n
  PROVE  /\ Manifest(p, n).task = p.task /\ Manifest(p, n).template = p.template
         /\ Manifest(p, n).adapter = n /\ Manifest(p, n).commitments = CommitmentsOf(p.completions)
BY DEF Manifest

\* The fields of a published case.
LEMMA CaseAtHand ==
  ASSUME NEW p, NEW x, NEW view
  PROVE  ShownNow(p, x, view) = [template |-> p.template, view |-> view, evidence |-> RecordOf(p, x, view)]
BY ShowingIs DEF ShownNow, RecordOf

\* A record is bound to the registry of its pair and observes what can be observed.
LEMMA RecordAtHand ==
  ASSUME NEW p, NEW x, NEW view
  PROVE  /\ RecordOf(p, x, view).manifest = Manifest(p, installed.adapter)
         /\ RecordOf(p, x, view).manifest.commitments = CommitmentsOf(p.completions)
         /\ DOMAIN RecordOf(p, x, view).probes \subseteq Probes
         /\ DOMAIN RecordOf(p, x, view).replies \subseteq SUBSET Atoms
<1>1. /\ RecordOf(p, x, view).manifest = Manifest(p, installed.adapter)
      /\ DOMAIN RecordOf(p, x, view).probes = ProbesShown(view)
      /\ DOMAIN RecordOf(p, x, view).replies = RepliesShown(view)
  BY EvidenceObserves DEF RecordOf
<1>2. ProbesShown(view) \subseteq Probes /\ RepliesShown(view) \subseteq SUBSET Atoms
  BY DEF ProbesShown, RepliesShown, Probes, Atoms
<1>3. QED BY <1>1, <1>2, ManifestIs

\* What a record at hand tells.
LEMMA RecordTells ==
  ASSUME Generated, NEW p \in corpus, NEW q \in corpus, NEW x \in p.completions, NEW y \in q.completions,
         NEW view \in ViewKinds, NEW w \in ViewKinds, RecordOf(p, x, view) = RecordOf(q, y, w)
  PROVE  p = q /\ view = w /\ y \in Seen(p, x, view)
BY EvidenceTells DEF RecordOf

\* Completions that are not told apart share the record.
LEMMA RecordShared ==
  ASSUME Generated, NEW p \in corpus, NEW x \in p.completions, NEW view \in ViewKinds, NEW y \in Seen(p, x, view)
  PROVE  y \in p.completions /\ RecordOf(p, y, view) = RecordOf(p, x, view)
BY SeenShare DEF RecordOf

\* The pair and the anchor of a route are its own.
LEMMA PairOfRoute ==
  ASSUME Generated, NEW p \in corpus
  PROVE  PairFor(RouteNow(p)) = p
<1>1. RouteNow(p).id = p.id
  BY RouteAtHand
<1>2. \A q \in corpus : q.id = p.id => q = p
  BY DEF Generated, ValidCorpus
<1>3. QED BY <1>1, <1>2 DEF PairFor

\* The anchors at hand are those of the registries of the corpus.
LEMMA AnchorsAtHand ==
  ASSUME Matched
  PROVE  anchors = {AnchorOf(Manifest(p, installed.adapter)) : p \in corpus}
<1>1. anchors = {AnchorOf(r.manifest) : r \in views.routes}
  BY DEF Matched, Matching, AnchorsFor
<1>2. views.routes = {RouteNow(p) : p \in corpus}
  BY ViewsAtHand
<1>3. \A p : RouteNow(p).manifest = Manifest(p, installed.adapter)
  BY RouteAtHand
<1>4. QED BY <1>1, <1>2, <1>3

\* The fields of an anchor.
LEMMA AnchorIs ==
  ASSUME NEW m
  PROVE  AnchorOf(m).registry = m /\ AnchorOf(m).adapter = m.adapter /\ AnchorOf(m).verifier = installed.verifier
BY DEF AnchorOf

\* The anchor found for a route is that of its registry.
LEMMA AnchorOfRoute ==
  ASSUME Matched, NEW p \in corpus
  PROVE  AnchorFor(RouteNow(p)) = AnchorOf(Manifest(p, installed.adapter))
<1> DEFINE k == Manifest(p, installed.adapter)
<1>1. RouteNow(p).manifest = k
  BY RouteAtHand
<1>2. AnchorOf(k) \in anchors
  BY AnchorsAtHand
<1>3. \A a \in anchors : \E m : a = AnchorOf(m)
  BY AnchorsAtHand
<1>4. \A a \in anchors : a.registry = k => a = AnchorOf(k)
  BY <1>3, AnchorIs
<1>5. AnchorOf(k).registry = k
  BY AnchorIs
<1> DEFINE z == AnchorOf(k)
<1>6. AnchorFor(RouteNow(p)) = CHOOSE a \in anchors : a.registry = k
  BY <1>1 DEF AnchorFor
<1> HIDE DEF k, z
<1>7. z \in anchors /\ z.registry = k /\ \A a \in anchors : a.registry = k => a = z
  BY <1>2, <1>4, <1>5 DEF z
<1>8. (CHOOSE a \in anchors : a.registry = k) = z
  BY <1>7
<1>9. QED BY <1>6, <1>8 DEF z, k

\* The anchors match the registries of the views one to one.
LEMMA AnchorsPinned ==
  ASSUME Matched
  PROVE  Pinned
<1>1. \A a \in anchors : \E m : a = AnchorOf(m)
  BY AnchorsAtHand
<1>2. {a.registry : a \in anchors} = {r.manifest : r \in views.routes}
  <2>1. anchors = {AnchorOf(r.manifest) : r \in views.routes}
    BY DEF Matched, Matching, AnchorsFor
  <2>2. \A m : AnchorOf(m).registry = m
    BY AnchorIs
  <2>3. QED BY <2>1, <2>2
<1>3. \A a, b \in anchors : a.registry = b.registry => a = b
  BY <1>1, AnchorIs
<1>4. \A a \in anchors : a.verifier = installed.verifier
  BY <1>1, AnchorIs
<1>5. QED BY <1>2, <1>3, <1>4 DEF Pinned

\* A route names the sources of its pair.
LEMMA RouteHasProvenance ==
  ASSUME Generated, NEW p \in corpus
  PROVE  Provenance(RouteNow(p))
<1> DEFINE r == RouteNow(p)
           n == installed.adapter
<1>1. r.manifest.task = p.task /\ r.template = p.template /\ PairFor(r) = p
  BY RouteAtHand, ManifestIs, PairOfRoute
<1>2. r.completions = {Routed(p, n, x) : x \in p.completions}
  BY RouteAtHand
<1>3. \A x : /\ Routed(p, n, x).episode = x.episode /\ Routed(p, n, x).commitment = x.commitment
             /\ Routed(p, n, x).snapshot = x.record
  BY RoutedIs
<1> HIDE DEF r
<1>4. {<<z.episode, z.commitment, z.snapshot>> : z \in r.completions} =
        {<<x.episode, x.commitment, x.record>> : x \in p.completions}
  BY <1>2, <1>3
<1>5. Provenance(r)
  BY <1>1, <1>4 DEF Provenance
<1>6. QED BY <1>5 DEF r

\* Its cases are what its completions show.
LEMMA CasesOfRoute ==
  ASSUME Matched, NEW p \in corpus
  PROVE  \A c : c \in CasesOf(RouteNow(p)) <=>
                  \E view \in ViewKinds : \E x \in p.completions : c = ShownNow(p, x, view)
<1> DEFINE r == RouteNow(p)
           n == installed.adapter
<1>1. Generated
  BY DEF Matched
<1>2. r.completions = {Routed(p, n, x) : x \in p.completions}
  BY RouteAtHand
<1>3. \A x : \A view \in ViewKinds : Routed(p, n, x).evidence[view] = RecordOf(p, x, view)
  BY RoutedShows DEF RecordOf
<1>4. \A q, y, w : ShownNow(q, y, w).view = w /\ ShownNow(q, y, w).evidence = RecordOf(q, y, w)
  BY CaseAtHand
<1>5. \A c : c \in views.cases <=>
         \E q \in corpus, view \in ViewKinds : \E x \in q.completions : c = ShownNow(q, x, view)
  BY ViewsAtHand
<1> HIDE DEF r
<1>6. ASSUME NEW c \in CasesOf(r)
      PROVE  \E view \in ViewKinds : \E x \in p.completions : c = ShownNow(p, x, view)
  <2>1. c \in views.cases
    BY DEF CasesOf
  <2>2. PICK q \in corpus, view \in ViewKinds : \E y \in q.completions : c = ShownNow(q, y, view)
    BY <1>5, <2>1
  <2>3. PICK y \in q.completions : c = ShownNow(q, y, view)
    BY <2>2
  <2>4. PICK z \in r.completions : z.evidence[c.view] = c.evidence
    BY DEF CasesOf
  <2>5. PICK x \in p.completions : z = Routed(p, n, x)
    BY <1>2, <2>4
  <2>6. RecordOf(p, x, view) = RecordOf(q, y, view)
    BY <1>3, <1>4, <2>3, <2>4, <2>5
  <2>7. p = q
    BY <1>1, <2>6, RecordTells
  <2>8. QED BY <2>3, <2>7
<1>7. ASSUME NEW view \in ViewKinds, NEW x \in p.completions
      PROVE  ShownNow(p, x, view) \in CasesOf(r)
  <2>1. Routed(p, n, x) \in r.completions
    BY <1>2
  <2>2. ShownNow(p, x, view) \in views.cases
    BY <1>5
  <2>3. Routed(p, n, x).evidence[ShownNow(p, x, view).view] = ShownNow(p, x, view).evidence
    BY <1>3, <1>4
  <2> HIDE DEF n
  <2>4. QED BY <2>1, <2>2, <2>3 DEF CasesOf
<1>8. QED BY <1>6, <1>7 DEF r

-----------------------------------------------------------------------------
(* The registry's answer to each record *)

\* Behind a record are the completions it does not tell apart.
LEMMA BehindIsSeen ==
  ASSUME Generated, NEW p \in corpus, NEW x \in p.completions, NEW view \in ViewKinds
  PROVE  Behind(RecordOf(p, x, view)) = Seen(p, x, view)
<1> DEFINE e == RecordOf(p, x, view)
<1>1. e.manifest.commitments = CommitmentsOf(p.completions)
  BY RecordAtHand
<1>2. \A y : y \in Behind(e) <=> y \in p.completions /\ Shows(y.record, e)
  <2>1. p.completions \subseteq CompletionsOf(corpus)
    BY DEF CompletionsOf
  <2>2. \A y \in CompletionsOf(corpus) : y.commitment \in CommitmentsOf(p.completions) => y \in p.completions
    BY <2>1, CommitmentNamesOne DEF CommitmentsOf
  <2>3. QED BY <1>1, <2>1, <2>2 DEF Behind, CommitmentsOf
<1>3. ASSUME NEW y \in Behind(e) PROVE y \in Seen(p, x, view)
  <2>1. y \in p.completions /\ Shows(y.record, RecordOf(p, x, view))
    BY <1>2
  <2>2. RecordOf(p, y, view) = RecordOf(p, x, view)
    BY <2>1, SameEvidence DEF RecordOf
  <2>3. QED BY <2>1, <2>2, RecordTells
<1>4. ASSUME NEW y \in Seen(p, x, view) PROVE y \in Behind(e)
  <2>1. y \in p.completions /\ RecordOf(p, y, view) = e
    BY RecordShared
  <2>2. Shows(y.record, RecordOf(p, y, view))
    BY EvidenceFields DEF RecordOf
  <2>3. QED BY <1>2, <2>1, <2>2
<1>5. QED BY <1>3, <1>4

\* The verdict on a record.
VerdictOn(p, e) == Search(p, e)!Judge(Search(p, e)!Compatible(e))

\* What the registry finds compatible with a record are the completions not told apart.
LEMMA CompatibleAreSeen ==
  ASSUME Generated, NEW p \in corpus, NEW x \in p.completions, NEW view \in ViewKinds,
         NEW e, e = RecordOf(p, x, view)
  PROVE  Search(p, e)!Compatible(e) = CommitmentsOf(Seen(p, x, view))
<1>1. /\ e.manifest.commitments = CommitmentsOf(p.completions)
      /\ DOMAIN e.probes \subseteq Probes /\ DOMAIN e.replies \subseteq SUBSET Atoms
  BY RecordAtHand
<1>2. Search(p, e)!Compatible(e) = CommitmentsOf(Behind(e))
  BY <1>1, CompatibleAreBehind
<1>3. QED BY <1>2, BehindIsSeen

\* On a record that one completion shows: its target.
LEMMA JudgedAlone ==
  ASSUME Generated, NEW p \in corpus, NEW x \in p.completions, NEW e,
         DOMAIN e.probes \subseteq Probes, DOMAIN e.replies \subseteq SUBSET Atoms,
         Search(p, e)!Compatible(e) = {x.commitment}
  PROVE  /\ VerdictOn(p, e).kind = "identified_singleton" /\ VerdictOn(p, e).family = FamilyBehind(x)
         /\ VerdictOn(p, e).compatible = {x.commitment}
         /\ VerdictOn(p, e).left = 0 /\ VerdictOn(p, e).right = 0
<1> DEFINE c == x.commitment
           ws == {c}
           left == Search(p, e)!Least(ws)
           profile(w) == Search(p, e)!Profile(w)
           others == {w \in ws : profile(w) # profile(left)}
           v == Search(p, e)!Judge(ws)
<1>1. profile(c) = FamilyBehind(x)
  BY SearchSees
<1>2. left = c
  <2>1. c \in Nat
    BY CommitmentNamesOne DEF CompletionsOf
  <2>2. \E w \in ws : \A u \in ws : w <= u
    BY <2>1
  <2>3. left \in ws
    BY <2>2 DEF Search!Least
  <2>4. QED BY <2>3
<1>3. others = {}
  BY <1>2
<1>4. /\ v.kind = Search(p, e)!VerdictKind(profile(left)) /\ v.compatible = ws /\ v.family = profile(left)
      /\ v.left = 0 /\ v.right = 0
  BY <1>3 DEF Search!Judge
<1>5. FamilyBehind(x) = {{"environment"}} \/ FamilyBehind(x) = {{"policy"}}
  <2>1. PICK a, b : TwinFacts(p, a, b)
    BY TwinsOfPair
  <2>2. QED BY <2>1 DEF TwinFacts
<1>6. \A t : Search(p, e)!VerdictKind({{t}}) = "identified_singleton"
  BY DEF Search!VerdictKind
<1>7. Search(p, e)!VerdictKind(FamilyBehind(x)) = "identified_singleton"
  BY <1>5, <1>6
<1>8. VerdictOn(p, e) = v
  BY DEF VerdictOn
<1> HIDE DEF v, profile, left, ws
<1>9. QED BY <1>1, <1>2, <1>4, <1>7, <1>8 DEF ws, c

\* On a record that both twins show: neither, and both are named.
LEMMA JudgedTogether ==
  ASSUME Generated, NEW p \in corpus, NEW e,
         DOMAIN e.probes \subseteq Probes, DOMAIN e.replies \subseteq SUBSET Atoms,
         Search(p, e)!Compatible(e) = CommitmentsOf(p.completions)
  PROVE  /\ VerdictOn(p, e).kind = "ambiguous_worlds" /\ VerdictOn(p, e).family = {}
         /\ VerdictOn(p, e).compatible = CommitmentsOf(p.completions)
         /\ {VerdictOn(p, e).left, VerdictOn(p, e).right} = CommitmentsOf(p.completions)
<1>1. PICK a, b : TwinFacts(p, a, b)
  BY TwinsOfPair
<1> DEFINE k == a.commitment
           m == b.commitment
           ws == {k, m}
           left == Search(p, e)!Least(ws)
           profile(w) == Search(p, e)!Profile(w)
           others == {w \in ws : profile(w) # profile(left)}
           right == Search(p, e)!Least(others)
           v == Search(p, e)!Judge(ws)
<1>2. a \in p.completions /\ b \in p.completions /\ p.completions = {a, b}
  BY <1>1 DEF TwinFacts
<1>3. CommitmentsOf(p.completions) = ws
  BY <1>2 DEF CommitmentsOf
<1>4. profile(k) = FamilyBehind(a) /\ profile(m) = FamilyBehind(b)
  BY <1>2, SearchSees
<1>5. FamilyBehind(a) # FamilyBehind(b)
  <2>1. FamilyBehind(a) = {{"environment"}} /\ FamilyBehind(b) = {{"policy"}}
    BY <1>1 DEF TwinFacts
  <2>2. QED BY <2>1
<1>6. k \in Nat /\ m \in Nat
  BY <1>2, CommitmentNamesOne DEF CompletionsOf
<1>7. profile(k) # profile(m)
  BY <1>4, <1>5
<1> HIDE DEF profile, k, m
<1>8. left \in ws
  <2>1. \E w \in ws : \A u \in ws : w <= u
    <3>1. k <= m \/ m <= k
      BY <1>6
    <3>2. k <= k /\ m <= m
      BY <1>6
    <3>3. QED BY <3>1, <3>2
  <2>2. QED BY <2>1 DEF Search!Least
<1> HIDE DEF left
<1>9. PICK o : others = {o} /\ ws = {left, o}
  <2>1. CASE left = k
    <3>1. others = {m}
      BY <1>7, <2>1
    <3>2. QED BY <2>1, <3>1
  <2>2. CASE left = m
    <3>1. others = {k}
      BY <1>7, <2>2
    <3>2. QED BY <2>2, <3>1
  <2>3. QED BY <1>8, <2>1, <2>2
<1> HIDE DEF others
<1>10. right = o
  <2>1. o \in Nat
    BY <1>6, <1>9
  <2>2. \E w \in others : \A u \in others : w <= u
    BY <1>9, <2>1
  <2>3. right \in others
    BY <2>2 DEF Search!Least
  <2>4. QED BY <1>9, <2>3
<1>11. others # {}
  BY <1>9
<1>12. /\ v.kind = "ambiguous_worlds" /\ v.family = {} /\ v.compatible = ws
       /\ v.left = left /\ v.right = right
  BY <1>11 DEF Search!Judge, others, left, profile
<1>13. VerdictOn(p, e) = v
  BY <1>3 DEF VerdictOn
<1> HIDE DEF v, right, ws
<1>14. QED BY <1>3, <1>9, <1>10, <1>12, <1>13

-----------------------------------------------------------------------------
(* The cases of the truth set *)

\* No commitment is the number that stands for none.
LEMMA CommitmentIsNumber ==
  ASSUME Generated, NEW p \in corpus
  PROVE  0 \notin CommitmentsOf(p.completions)
<1>1. ASSUME NEW x \in p.completions PROVE x.commitment # 0
  <2>1. PICK s \in Seeds, r \in Authored : x = Seal(s, r)
    BY PairsAreTwins
  <2>2. x.commitment = Commit(s, r)
    BY <2>1 DEF Seal
  <2>3. QED BY <2>2, CommitAssumption
<1>2. QED BY <1>1 DEF CommitmentsOf

\* A registry over a record at hand: alone or together.
LEMMA JudgedClear ==
  ASSUME Generated, NEW p \in corpus, NEW x \in p.completions, NEW view \in ViewKinds, view \notin SharedViews,
         NEW v, v = VerdictOn(p, RecordOf(p, x, view))
  PROVE  /\ v.kind = "identified_singleton" /\ v.family = FamilyBehind(x)
         /\ v.compatible = {x.commitment} /\ {v.left, v.right} \ {0} = {}
<1> DEFINE e == RecordOf(p, x, view)
<1>1. DOMAIN e.probes \subseteq Probes /\ DOMAIN e.replies \subseteq SUBSET Atoms
  BY RecordAtHand
<1>2. Search(p, e)!Compatible(e) = CommitmentsOf(Seen(p, x, view))
  BY CompatibleAreSeen
<1>3. CommitmentsOf(Seen(p, x, view)) = {x.commitment}
  BY DEF Seen, CommitmentsOf
<1>4. v = VerdictOn(p, e)
  OBVIOUS
<1> HIDE DEF e
<1>5. /\ VerdictOn(p, e).kind = "identified_singleton" /\ VerdictOn(p, e).family = FamilyBehind(x)
      /\ VerdictOn(p, e).compatible = {x.commitment}
      /\ VerdictOn(p, e).left = 0 /\ VerdictOn(p, e).right = 0
  BY <1>1, <1>2, <1>3, JudgedAlone
<1>6. QED BY <1>4, <1>5

\* In a view that shows twins alike: ambiguous, and both are named.
LEMMA JudgedShared ==
  ASSUME Generated, NEW p \in corpus, NEW x \in p.completions, NEW view \in SharedViews,
         NEW v, v = VerdictOn(p, RecordOf(p, x, view))
  PROVE  /\ v.kind = "ambiguous_worlds" /\ v.family = {}
         /\ v.compatible = CommitmentsOf(p.completions)
         /\ {v.left, v.right} \ {0} = CommitmentsOf(p.completions)
<1> DEFINE e == RecordOf(p, x, view)
<1>1. DOMAIN e.probes \subseteq Probes /\ DOMAIN e.replies \subseteq SUBSET Atoms
  BY RecordAtHand
<1>2. view \in ViewKinds
  BY DEF SharedViews, ViewKinds
<1>3. Search(p, e)!Compatible(e) = CommitmentsOf(Seen(p, x, view))
  BY <1>2, CompatibleAreSeen
<1>4. Seen(p, x, view) = p.completions
  BY DEF Seen
<1>5. v = VerdictOn(p, e)
  OBVIOUS
<1> HIDE DEF e
<1>6. /\ VerdictOn(p, e).kind = "ambiguous_worlds" /\ VerdictOn(p, e).family = {}
      /\ VerdictOn(p, e).compatible = CommitmentsOf(p.completions)
      /\ {VerdictOn(p, e).left, VerdictOn(p, e).right} = CommitmentsOf(p.completions)
  BY <1>1, <1>3, <1>4, JudgedTogether
<1>7. QED BY <1>5, <1>6, CommitmentIsNumber

\* Either way what is compatible are the completions that are not told apart.
LEMMA JudgedCompatible ==
  ASSUME Generated, NEW p \in corpus, NEW x \in p.completions, NEW view \in ViewKinds,
         NEW v, v = VerdictOn(p, RecordOf(p, x, view))
  PROVE  v.compatible = CommitmentsOf(Seen(p, x, view))
<1>1. CASE view \in SharedViews
  <2>1. v.compatible = CommitmentsOf(p.completions)
    BY <1>1, JudgedShared
  <2>2. QED BY <1>1, <2>1 DEF Seen
<1>2. CASE view \notin SharedViews
  <2>1. v.compatible = {x.commitment}
    BY <1>2, JudgedClear
  <2>2. QED BY <1>2, <2>1 DEF Seen, CommitmentsOf
<1>3. QED BY <1>1, <1>2

\* The panels a certificate carries, with the marks of the compatible ones.
PanelsOf(p, C) == {<<x.commitment, Panel(x.record), x.commitment \in C>> : x \in p.completions}

\* The fields of the certificate about a record.
LEMMA CertificateIs ==
  ASSUME Matched, NEW p \in corpus, NEW e, NEW k, k = Certificate(RouteNow(p), e)
  PROVE  /\ k.registry = Manifest(p, installed.adapter) /\ k.evidence = e
         /\ k.adapter = installed.adapter /\ k.verifier = installed.verifier
         /\ k.anchor = AnchorOf(Manifest(p, installed.adapter))
         /\ k.panels = PanelsOf(p, VerdictOn(p, e).compatible)
         /\ k.kind = VerdictOn(p, e).kind /\ k.family = VerdictOn(p, e).family
         /\ k.compatible = VerdictOn(p, e).compatible
         /\ k.ambiguity = {VerdictOn(p, e).left, VerdictOn(p, e).right} \ {0}
<1> DEFINE r == RouteNow(p)
           v == Search(p, e)!Judge(Search(p, e)!Compatible(e))
<1>1. r.manifest = Manifest(p, installed.adapter) /\ r.manifest.adapter = installed.adapter
  BY RouteAtHand, ManifestIs
<1>2. PairFor(r) = p /\ AnchorFor(r) = AnchorOf(Manifest(p, installed.adapter))
  BY PairOfRoute, AnchorOfRoute DEF Matched
<1>3. Search(PairFor(r), e)!Judge(Search(PairFor(r), e)!Compatible(e)) = v
  BY <1>2
<1>4. v = VerdictOn(p, e)
  BY DEF VerdictOn
<1> HIDE DEF r, v
<1>5. /\ k.registry = r.manifest /\ k.evidence = e /\ k.adapter = r.manifest.adapter
      /\ k.verifier = installed.verifier /\ k.anchor = AnchorFor(r)
      /\ k.panels = {<<x.commitment, Panel(x.record), x.commitment \in v.compatible>> : x \in p.completions}
      /\ k.kind = v.kind /\ k.family = v.family /\ k.compatible = v.compatible
      /\ k.ambiguity = {v.left, v.right} \ {0}
  BY <1>2, <1>3 DEF Certificate, r
<1>6. QED BY <1>1, <1>2, <1>4, <1>5 DEF PanelsOf

\* The sources a route expects behind a record.
Expected(p, x, view) == {z \in RouteNow(p).completions : z.evidence[view] = RecordOf(p, x, view)}

\* They are the sources of the completions that are not told apart.
LEMMA ExpectedAreSeen ==
  ASSUME Generated, NEW p \in corpus, NEW x \in p.completions, NEW view \in ViewKinds
  PROVE  Expected(p, x, view) = {Routed(p, installed.adapter, y) : y \in Seen(p, x, view)}
<1> DEFINE n == installed.adapter
           S == Seen(p, x, view)
<1>1. RouteNow(p).completions = {Routed(p, n, y) : y \in p.completions}
  BY RouteAtHand
<1>2. \A y : Routed(p, n, y).evidence[view] = RecordOf(p, y, view)
  BY RoutedShows DEF RecordOf
<1>3. \A y \in S : y \in p.completions /\ RecordOf(p, y, view) = RecordOf(p, x, view)
  BY RecordShared
<1>4. \A y \in p.completions : RecordOf(p, y, view) = RecordOf(p, x, view) => y \in S
  BY RecordTells
<1> HIDE DEF n, S
<1>5. {z \in RouteNow(p).completions : z.evidence[view] = RecordOf(p, x, view)} = {Routed(p, n, y) : y \in S}
  BY <1>1, <1>2, <1>3, <1>4
<1>6. QED BY <1>5 DEF Expected, n, S

\* They have their commitments and their episodes.
LEMMA ExpectedShow ==
  ASSUME Generated, NEW p \in corpus, NEW x \in p.completions, NEW view \in ViewKinds
  PROVE  /\ CommitmentsOf(Expected(p, x, view)) = CommitmentsOf(Seen(p, x, view))
         /\ {z.episode : z \in Expected(p, x, view)} = {y.episode : y \in Seen(p, x, view)}
<1> DEFINE n == installed.adapter
           S == Seen(p, x, view)
           E == Expected(p, x, view)
<1>1. E = {Routed(p, n, y) : y \in S}
  BY ExpectedAreSeen
<1>2. \A y : Routed(p, n, y).episode = y.episode /\ Routed(p, n, y).commitment = y.commitment
  BY RoutedIs
<1> HIDE DEF n, S, E
<1>3. CommitmentsOf(E) = CommitmentsOf(S)
  BY <1>1, <1>2 DEF CommitmentsOf
<1>4. {z.episode : z \in E} = {y.episode : y \in S}
  BY <1>1, <1>2
<1>5. QED BY <1>3, <1>4 DEF S, E

\* The episodes assigned to a record.
LEMMA AssignedAreSeen ==
  ASSUME Matched, NEW p \in corpus, NEW x \in p.completions, NEW view \in ViewKinds
  PROVE  Assigned(RecordOf(p, x, view)) = {y.episode : y \in Seen(p, x, view)}
<1> DEFINE n == installed.adapter
           S == Seen(p, x, view)
           e == RecordOf(p, x, view)
           B == {b \in views.assignments : b.evidence = e}
<1>1. views = Projected(n) /\ e = Evidence(p, n, x, view)
  BY ViewsAtHand DEF RecordOf
<1>2. Generated
  BY DEF Matched
<1>3. \A a : a \in B <=> \E y \in S : a = Assigning(p, n, y, view)
  <2>1. \A a : a \in Projected(n).assignments /\ a.evidence = Evidence(p, n, x, view)
                 <=> \E y \in Seen(p, x, view) : a = Assigning(p, n, y, view)
    BY <1>2, AssignedToSeen
  <2>2. QED BY <1>1, <2>1
<1>4. \A y : Assigning(p, n, y, view).episode = y.episode
  BY AssigningIs
<1> HIDE DEF n, S, B
<1>5. {a.episode : a \in B} = {y.episode : y \in S}
  BY <1>3, <1>4
<1>6. QED BY <1>5 DEF Assigned, B, S

\* The fields of a case.
LEMMA KeyedIs ==
  ASSUME Matched, NEW p \in corpus, NEW x \in p.completions, NEW view \in ViewKinds, NEW k, k = Keyed(p, x, view)
  PROVE  /\ k.id = Opaque("wgc", RecordOf(p, x, view)) /\ k.pair = p.id /\ k.task = p.task
         /\ k.template = p.template /\ k.view = view /\ k.evidence = RecordOf(p, x, view)
         /\ k.episodes = {y.episode : y \in Seen(p, x, view)}
         /\ k.route = TruthRoute(RouteNow(p)) /\ k.public = ShownNow(p, x, view)
         /\ k.certificate = Certificate(RouteNow(p), RecordOf(p, x, view))
<1> DEFINE r == RouteNow(p)
           c == ShownNow(p, x, view)
           e == RecordOf(p, x, view)
<1>1. c.template = p.template /\ c.view = view /\ c.evidence = e
  BY CaseAtHand
<1>2. r.id = p.id /\ r.manifest.task = p.task
  BY RouteAtHand, ManifestIs
<1>3. Assigned(e) = {y.episode : y \in Seen(p, x, view)}
  BY AssignedAreSeen
<1>4. k = TruthCase(r, c)
  BY DEF Keyed
<1> HIDE DEF r, c, e
<1>5. /\ k.id = Opaque("wgc", c.evidence) /\ k.pair = r.id /\ k.task = r.manifest.task
      /\ k.template = c.template /\ k.view = c.view /\ k.evidence = c.evidence
      /\ k.episodes = Assigned(c.evidence) /\ k.route = TruthRoute(r) /\ k.public = c
      /\ k.certificate = Certificate(r, c.evidence)
  BY <1>4 DEF TruthCase
<1>6. QED BY <1>1, <1>2, <1>3, <1>5 DEF r, c, e

\* The witnesses of a case are the repairs of its source.
LEMMA KeyedWitnesses ==
  ASSUME Generated, NEW p \in corpus, NEW x \in p.completions, NEW view \in ViewKinds
  PROVE  Keyed(p, x, view).witnesses = IF view \in SharedViews THEN {} ELSE Repairs(x)
<1> DEFINE r == RouteNow(p)
           c == ShownNow(p, x, view)
           k == TruthCase(r, c)
           expected == {z \in r.completions : z.evidence[c.view] = c.evidence}
           source == CHOOSE y \in PairFor(r).completions : y.commitment \in CommitmentsOf(expected)
<1>1. c.view = view /\ c.evidence = RecordOf(p, x, view)
  BY CaseAtHand
<1>2. PairFor(r) = p
  BY PairOfRoute
<1>3. expected = Expected(p, x, view)
  BY <1>1 DEF Expected
<1>4. k.witnesses = IF c.view \in SharedViews THEN {} ELSE Witnesses(Panel(source.record))
  BY DEF TruthCase
<1>5. Keyed(p, x, view) = k
  BY DEF Keyed
<1>6. ASSUME view \notin SharedViews PROVE Witnesses(Panel(source.record)) = Repairs(x)
  <2>1. CommitmentsOf(expected) = {x.commitment}
    <3>1. Seen(p, x, view) = {x}
      BY <1>6 DEF Seen
    <3>2. CommitmentsOf(Expected(p, x, view)) = CommitmentsOf({x})
      BY <3>1, ExpectedShow
    <3>3. CommitmentsOf({x}) = {x.commitment}
      BY DEF CommitmentsOf
    <3>4. QED BY <1>3, <3>2, <3>3
  <2>2. \A y \in p.completions : y.commitment = x.commitment => y = x
    BY CorpusTells
  <2> HIDE DEF expected
  <2>3. source = x
    BY <1>2, <2>1, <2>2
  <2>4. Witnesses(Panel(x.record)) = Minimal(Succeeding(x.record))
    BY PanelIs
  <2>5. Minimal(Succeeding(x.record)) = Repairs(x)
    BY DEF Repairs, Succeeding
  <2> HIDE DEF source
  <2>6. QED BY <2>3, <2>4, <2>5
<1> HIDE DEF k, source, expected, r, c
<1>7. QED BY <1>1, <1>4, <1>5, <1>6

\* A completion that is not told apart has the very same case.
LEMMA KeyedShared ==
  ASSUME Generated, NEW p \in corpus, NEW x \in p.completions, NEW view \in ViewKinds, NEW y \in Seen(p, x, view)
  PROVE  y \in p.completions /\ Keyed(p, y, view) = Keyed(p, x, view)
<1>1. y \in p.completions /\ RecordOf(p, y, view) = RecordOf(p, x, view)
  BY RecordShared
<1>2. ShownNow(p, y, view) = ShownNow(p, x, view)
  BY <1>1, CaseAtHand
<1>3. QED BY <1>1, <1>2 DEF Keyed

\* The truth set holds one case for each record.
LEMMA KeyIs ==
  ASSUME Matched
  PROVE  /\ AuthoredTruth.routes = {TruthRoute(RouteNow(p)) : p \in corpus}
         /\ \A k : k \in AuthoredTruth.cases <=>
               \E p \in corpus, view \in ViewKinds : \E x \in p.completions : k = Keyed(p, x, view)
<1>1. views.routes = {RouteNow(p) : p \in corpus}
  BY ViewsAtHand
<1>2. AuthoredTruth.routes = {TruthRoute(r) : r \in views.routes}
  BY DEF AuthoredTruth
<1>3. \A k : k \in AuthoredTruth.cases <=> \E r \in views.routes : \E c \in CasesOf(r) : k = TruthCase(r, c)
  BY DEF AuthoredTruth
<1>4. \A p \in corpus : \A c : c \in CasesOf(RouteNow(p)) <=>
         \E view \in ViewKinds : \E x \in p.completions : c = ShownNow(p, x, view)
  BY CasesOfRoute
<1>5. AuthoredTruth.routes = {TruthRoute(RouteNow(p)) : p \in corpus}
  BY <1>1, <1>2
<1>6. ASSUME NEW k \in AuthoredTruth.cases
      PROVE  \E p \in corpus, view \in ViewKinds : \E x \in p.completions : k = Keyed(p, x, view)
  <2>1. PICK r \in views.routes : \E c \in CasesOf(r) : k = TruthCase(r, c)
    BY <1>3
  <2>2. PICK c \in CasesOf(r) : k = TruthCase(r, c)
    BY <2>1
  <2>3. PICK p \in corpus : r = RouteNow(p)
    BY <1>1
  <2>4. PICK view \in ViewKinds, x \in p.completions : c = ShownNow(p, x, view)
    BY <1>4, <2>3
  <2>5. k = Keyed(p, x, view)
    BY <2>2, <2>3, <2>4 DEF Keyed
  <2>6. QED BY <2>5
<1>7. ASSUME NEW p \in corpus, NEW view \in ViewKinds, NEW x \in p.completions
      PROVE  Keyed(p, x, view) \in AuthoredTruth.cases
  <2>1. RouteNow(p) \in views.routes /\ ShownNow(p, x, view) \in CasesOf(RouteNow(p))
    BY <1>1, <1>4
  <2>2. QED BY <1>3, <2>1 DEF Keyed
<1>8. QED BY <1>5, <1>6, <1>7

-----------------------------------------------------------------------------
(* They pass the validation of the truth set *)

\* A completion has one repair, and the target it acts on.
LEMMA RepairOfOne ==
  ASSUME Generated, NEW p \in corpus, NEW x \in p.completions
  PROVE  \E a \in Atoms : FamilyBehind(x) = {{target[a]}} /\ Repairs(x) = {{a}}
<1>1. PICK a, b : TwinFacts(p, a, b)
  BY TwinsOfPair
<1>2. "refresh" \in Atoms /\ "repair" \in Atoms /\ target["refresh"] = "environment" /\ target["repair"] = "policy"
  BY DEF Atoms, target
<1>3. CASE x = a
  BY <1>1, <1>2, <1>3 DEF TwinFacts
<1>4. CASE x = b
  BY <1>1, <1>2, <1>4 DEF TwinFacts
<1>5. QED BY <1>1, <1>3, <1>4 DEF TwinFacts

\* The fields of a route of the truth set.
LEMMA TruthRouteIs ==
  ASSUME Matched, NEW p \in corpus, NEW r, r = TruthRoute(RouteNow(p))
  PROVE  /\ r.id = p.id /\ r.task = p.task /\ r.template = p.template
         /\ r.manifest = Manifest(p, installed.adapter)
         /\ r.anchor = AnchorOf(Manifest(p, installed.adapter))
         /\ r.sources = RouteNow(p).completions
<1> DEFINE q == RouteNow(p)
<1>1. q.id = p.id /\ q.template = p.template /\ q.manifest = Manifest(p, installed.adapter)
  BY RouteAtHand
<1>2. Manifest(p, installed.adapter).task = p.task
  BY ManifestIs
<1>3. AnchorFor(q) = AnchorOf(Manifest(p, installed.adapter))
  BY AnchorOfRoute
<1>4. r = TruthRoute(q)
  OBVIOUS
<1> HIDE DEF q
<1>5. /\ r.id = q.id /\ r.task = q.manifest.task /\ r.template = q.template /\ r.manifest = q.manifest
      /\ r.anchor = AnchorFor(q) /\ r.sources = q.completions
  BY <1>4 DEF TruthRoute
<1>6. QED BY <1>1, <1>2, <1>3, <1>5 DEF q

\* The sources of a route are committed to as the completions of its pair.
LEMMA SourcesOf ==
  ASSUME Generated, NEW p \in corpus
  PROVE  /\ CommitmentsOf(RouteNow(p).completions) = CommitmentsOf(p.completions)
         /\ p.id = PairId(CommitmentsOf(p.completions))
<1>1. ValidRoute(RouteNow(p))
  BY RouteIsValid DEF RouteNow
<1>2. /\ CommitmentsOf(RouteNow(p).completions) = RouteNow(p).manifest.commitments
      /\ RouteNow(p).id = PairId(RouteNow(p).manifest.commitments)
  BY <1>1 DEF ValidRoute
<1>3. RouteNow(p).manifest.commitments = CommitmentsOf(p.completions) /\ RouteNow(p).id = p.id
  BY RouteAtHand, ManifestIs
<1>4. QED BY <1>2, <1>3

\* Every route is valid, and no two share a registry or an anchor.
LEMMA TruthRouteIsValid ==
  ASSUME Matched, NEW p \in corpus
  PROVE  ValidTruthRoute(TruthRoute(RouteNow(p)))
<1> DEFINE r == TruthRoute(RouteNow(p))
           m == Manifest(p, installed.adapter)
<1>1. /\ r.id = p.id /\ r.task = p.task /\ r.template = p.template /\ r.manifest = m
      /\ r.anchor = AnchorOf(m) /\ r.sources = RouteNow(p).completions
  BY TruthRouteIs
<1>2. m.task = p.task /\ m.template = p.template /\ m.commitments = CommitmentsOf(p.completions)
  BY ManifestIs
<1>3. AnchorOf(m).registry = m /\ AnchorOf(m).adapter = m.adapter
  BY AnchorIs
<1>4. CommitmentsOf(r.sources) = CommitmentsOf(p.completions) /\ r.id = PairId(CommitmentsOf(p.completions))
  BY <1>1, SourcesOf DEF Matched
<1> HIDE DEF r, m
<1>5. ValidTruthRoute(r)
  BY <1>1, <1>2, <1>3, <1>4 DEF ValidTruthRoute
<1>6. QED BY <1>5 DEF r

\* No two pairs have the same registry.
LEMMA ManifestsTell ==
  ASSUME Generated, NEW p \in corpus, NEW q \in corpus, NEW n, Manifest(p, n) = Manifest(q, n)
  PROVE  p = q
<1>1. CommitmentsOf(p.completions) = CommitmentsOf(q.completions)
  BY ManifestIs
<1>2. PICK a, b : TwinFacts(p, a, b)
  BY TwinsOfPair
<1>3. a \in p.completions
  BY <1>2 DEF TwinFacts
<1>4. PICK z \in q.completions : z.commitment = a.commitment
  BY <1>1, <1>3 DEF CommitmentsOf
<1>5. QED BY <1>3, <1>4, CorpusTells

\* So no two routes of the truth set share a registry or an anchor.
LEMMA TruthRoutesTell ==
  ASSUME Matched, NEW r \in AuthoredTruth.routes, NEW q \in AuthoredTruth.routes,
         r.manifest = q.manifest \/ r.anchor = q.anchor
  PROVE  r = q
<1>1. PICK p \in corpus : r = TruthRoute(RouteNow(p))
  BY KeyIs
<1>2. PICK s \in corpus : q = TruthRoute(RouteNow(s))
  BY KeyIs
<1>3. r.manifest = Manifest(p, installed.adapter) /\ r.anchor = AnchorOf(Manifest(p, installed.adapter))
  BY <1>1, TruthRouteIs
<1>4. q.manifest = Manifest(s, installed.adapter) /\ q.anchor = AnchorOf(Manifest(s, installed.adapter))
  BY <1>2, TruthRouteIs
<1>5. Manifest(p, installed.adapter) = Manifest(s, installed.adapter)
  BY <1>3, <1>4, AnchorIs
<1>6. p = s
  BY <1>5, ManifestsTell DEF Matched
<1>7. QED BY <1>1, <1>2, <1>6

\* Nor do two sources share an episode, a commitment or a snapshot.
LEMMA TruthSourcesTell ==
  ASSUME Matched, NEW x \in SourcesIn(AuthoredTruth), NEW y \in SourcesIn(AuthoredTruth),
         x.episode = y.episode \/ x.commitment = y.commitment \/ x.snapshot = y.snapshot
  PROVE  x = y
<1> DEFINE n == installed.adapter
<1>1. ASSUME NEW z \in SourcesIn(AuthoredTruth)
      PROVE  \E p \in corpus : \E k \in p.completions : z = Routed(p, n, k)
  <2>1. PICK r \in AuthoredTruth.routes : z \in r.sources
    BY DEF SourcesIn
  <2>2. PICK p \in corpus : r = TruthRoute(RouteNow(p))
    BY <2>1, KeyIs
  <2>3. r.sources = {Routed(p, n, k) : k \in p.completions}
    BY <2>2, TruthRouteIs, RouteAtHand
  <2>4. QED BY <2>1, <2>3
<1>2. PICK p \in corpus : \E k \in p.completions : x = Routed(p, n, k)
  BY <1>1
<1>3. PICK k \in p.completions : x = Routed(p, n, k)
  BY <1>2
<1>4. PICK q \in corpus : \E l \in q.completions : y = Routed(q, n, l)
  BY <1>1
<1>5. PICK l \in q.completions : y = Routed(q, n, l)
  BY <1>4
<1>6. k.episode = l.episode \/ k.commitment = l.commitment \/ k.record = l.record
  BY <1>3, <1>5, RoutedIs
<1>7. p = q /\ k = l
  BY <1>6, CorpusTells DEF Matched
<1>8. QED BY <1>3, <1>5, <1>7

-----------------------------------------------------------------------------

\* A case has two episodes in a view that shows both twins, and one in any other.
LEMMA EpisodesCounted ==
  ASSUME Generated, NEW p \in corpus, NEW x \in p.completions, NEW view
  PROVE  Cardinality({y.episode : y \in Seen(p, x, view)}) = IF view \in SharedViews THEN 2 ELSE 1
<1> DEFINE S == Seen(p, x, view)
           T == {y.episode : y \in S}
           f == [y \in S |-> y.episode]
<1>1. /\ IsFiniteSet(S) /\ S \in SUBSET p.completions
      /\ Cardinality(S) = IF view \in SharedViews THEN 2 ELSE 1
  BY SeenCounted
<1>2. \A y, z \in p.completions : y.episode = z.episode => y = z
  BY CorpusTells
<1> HIDE DEF S
<1>3. f \in [S -> T] /\ \A t \in T : \E y \in S : f[y] = t
  OBVIOUS
<1>4. \A y, z \in S : f[y] = f[z] => y = z
  BY <1>1, <1>2
<1> HIDE DEF f, T
<1>5. Cardinality(T) = Cardinality(S)
  BY <1>1, <1>3, <1>4, SameSize
<1>6. QED BY <1>1, <1>5 DEF T, S

\* A pair has two commitments.
LEMMA CommitmentsCounted ==
  ASSUME Generated, NEW p \in corpus
  PROVE  Cardinality(CommitmentsOf(p.completions)) = 2
<1>1. PICK a, b : TwinFacts(p, a, b)
  BY TwinsOfPair
<1>2. p.completions = {a, b} /\ a # b /\ a \in p.completions /\ b \in p.completions
  BY <1>1 DEF TwinFacts
<1>3. a.commitment # b.commitment
  BY <1>2, CorpusTells
<1>4. CommitmentsOf(p.completions) = {a.commitment, b.commitment}
  BY <1>2 DEF CommitmentsOf
<1>5. Cardinality({a.commitment, b.commitment}) = 2
  BY <1>3, TwoOf
<1>6. QED BY <1>4, <1>5

\* The verdict of a case has the shape of its kind.
LEMMA SharedCaseIsValid ==
  ASSUME Matched, NEW p \in corpus, NEW x \in p.completions, NEW view \in SharedViews
  PROVE  ValidTruthCase(Keyed(p, x, view))
<1> DEFINE k == Keyed(p, x, view)
           e == RecordOf(p, x, view)
           v == VerdictOn(p, e)
           h == k.certificate
<1>1. Generated /\ view \in ViewKinds
  BY DEF Matched, SharedViews, ViewKinds
<1>2. /\ k.id = Opaque("wgc", e) /\ k.template = p.template /\ k.view = view /\ k.evidence = e
      /\ k.episodes = {y.episode : y \in Seen(p, x, view)} /\ k.public = ShownNow(p, x, view)
      /\ k.certificate = Certificate(RouteNow(p), e)
  BY <1>1, KeyedIs
<1>3. ShownNow(p, x, view) = [template |-> p.template, view |-> view, evidence |-> e]
  BY CaseAtHand
<1>4. ValidCase(k.public)
  <2>1. ShownNow(p, x, view) \in views.cases /\ views = Projected(installed.adapter)
    BY <1>1, ViewsAtHand
  <2>2. QED BY <1>1, <1>2, <2>1, CasesTell
<1>5. Cardinality(k.episodes) = 2
  BY <1>1, <1>2, EpisodesCounted
<1>6. k.witnesses = {}
  BY <1>1, KeyedWitnesses
<1>7. /\ v.kind = "ambiguous_worlds" /\ v.family = {} /\ v.compatible = CommitmentsOf(p.completions)
      /\ {v.left, v.right} \ {0} = CommitmentsOf(p.completions)
  BY <1>1, JudgedShared
<1>8. /\ h.evidence = e /\ h.kind = v.kind /\ h.family = v.family /\ h.compatible = v.compatible
      /\ h.ambiguity = {v.left, v.right} \ {0}
  BY <1>2, CertificateIs
<1>9. Cardinality(CommitmentsOf(p.completions)) = 2
  BY <1>1, CommitmentsCounted
<1>10. CommitmentsOf(p.completions) # {}
  BY <1>9, FS_EmptySet
<1> HIDE DEF k, e, v
<1>11. Shaped(k.certificate)
  BY <1>7, <1>8, <1>9, <1>10 DEF Shaped
<1>12. ValidTruthCase(k)
  BY <1>2, <1>3, <1>4, <1>5, <1>6, <1>7, <1>8, <1>11 DEF ValidTruthCase
<1>13. QED BY <1>12 DEF k

\* The case of one completion has the shape of an identified singleton.
LEMMA ClearCaseIsValid ==
  ASSUME Matched, NEW p \in corpus, NEW x \in p.completions, NEW view \in ViewKinds, view \notin SharedViews
  PROVE  ValidTruthCase(Keyed(p, x, view))
<1> DEFINE k == Keyed(p, x, view)
           e == RecordOf(p, x, view)
           v == VerdictOn(p, e)
           h == k.certificate
<1>1. Generated
  BY DEF Matched
<1>2. /\ k.id = Opaque("wgc", e) /\ k.template = p.template /\ k.view = view /\ k.evidence = e
      /\ k.episodes = {y.episode : y \in Seen(p, x, view)} /\ k.public = ShownNow(p, x, view)
      /\ k.certificate = Certificate(RouteNow(p), e)
  BY KeyedIs
<1>3. ShownNow(p, x, view) = [template |-> p.template, view |-> view, evidence |-> e]
  BY CaseAtHand
<1>4. ValidCase(k.public)
  <2>1. ShownNow(p, x, view) \in views.cases /\ views = Projected(installed.adapter)
    BY ViewsAtHand
  <2>2. QED BY <1>1, <1>2, <2>1, CasesTell
<1>5. Cardinality(k.episodes) = 1
  BY <1>1, <1>2, EpisodesCounted
<1>6. k.witnesses = Repairs(x)
  BY <1>1, KeyedWitnesses
<1>7. PICK a \in Atoms : FamilyBehind(x) = {{target[a]}} /\ Repairs(x) = {{a}}
  BY <1>1, RepairOfOne
<1>8. /\ v.kind = "identified_singleton" /\ v.family = FamilyBehind(x)
      /\ v.compatible = {x.commitment} /\ {v.left, v.right} \ {0} = {}
  BY <1>1, JudgedClear
<1>9. /\ h.evidence = e /\ h.kind = v.kind /\ h.family = v.family /\ h.compatible = v.compatible
      /\ h.ambiguity = {v.left, v.right} \ {0}
  BY <1>2, CertificateIs
<1>10. target[a] \in Targets
  BY DEF target, Targets, Atoms
<1> HIDE DEF k, e, v
<1>11. Shaped(k.certificate)
  BY <1>7, <1>8, <1>9, <1>10 DEF Shaped
<1>12. ValidTruthCase(k)
  BY <1>2, <1>3, <1>4, <1>5, <1>6, <1>7, <1>8, <1>9, <1>11 DEF ValidTruthCase
<1>13. QED BY <1>12 DEF k

-----------------------------------------------------------------------------
(* They are bound to their routes *)

\* A certificate is bound to the anchor and the registry of its route.
LEMMA CertificateIsBound ==
  ASSUME Matched, NEW p \in corpus, NEW e
  PROVE  /\ CertificateBound(Certificate(RouteNow(p), e), TruthRoute(RouteNow(p)).anchor)
         /\ Certificate(RouteNow(p), e).registry = TruthRoute(RouteNow(p)).manifest
<1> DEFINE k == Certificate(RouteNow(p), e)
           r == TruthRoute(RouteNow(p))
           m == Manifest(p, installed.adapter)
<1>1. /\ k.registry = m /\ k.adapter = installed.adapter /\ k.verifier = installed.verifier
      /\ k.anchor = AnchorOf(m)
  BY CertificateIs
<1>2. r.manifest = m /\ r.anchor = AnchorOf(m)
  BY TruthRouteIs
<1>3. AnchorOf(m).registry = m /\ AnchorOf(m).adapter = m.adapter /\ AnchorOf(m).verifier = installed.verifier
  BY AnchorIs
<1>4. m.adapter = installed.adapter
  BY ManifestIs
<1> HIDE DEF k, r, m
<1>5. CertificateBound(k, r.anchor) /\ k.registry = r.manifest
  BY <1>1, <1>2, <1>3, <1>4 DEF CertificateBound
<1>6. QED BY <1>5 DEF k, r

\* A case is bound to its route, and to what the route expects behind the record.
LEMMA CaseIsBound ==
  ASSUME Matched, NEW p \in corpus, NEW x \in p.completions, NEW view \in ViewKinds
  PROVE  CaseBound(Keyed(p, x, view), TruthRoute(RouteNow(p)))
<1> DEFINE k == Keyed(p, x, view)
           r == TruthRoute(RouteNow(p))
           e == RecordOf(p, x, view)
           v == VerdictOn(p, e)
           h == k.certificate
           expected == Expected(p, x, view)
<1>1. Generated
  BY DEF Matched
<1>2. /\ k.pair = p.id /\ k.task = p.task /\ k.template = p.template /\ k.view = view /\ k.evidence = e
      /\ k.episodes = {y.episode : y \in Seen(p, x, view)} /\ k.route = r
      /\ k.certificate = Certificate(RouteNow(p), e)
  BY KeyedIs
<1>3. r.id = p.id /\ r.task = p.task /\ r.template = p.template /\ r.sources = RouteNow(p).completions
  BY TruthRouteIs
<1>4. {z \in r.sources : z.evidence[k.view] = k.evidence} = expected
  BY <1>2, <1>3 DEF Expected
<1>5. k.episodes = {z.episode : z \in expected} /\ CommitmentsOf(expected) = CommitmentsOf(Seen(p, x, view))
  BY <1>1, <1>2, ExpectedShow
<1>6. /\ h.kind = v.kind /\ h.family = v.family /\ h.compatible = v.compatible
      /\ h.ambiguity = {v.left, v.right} \ {0}
  BY <1>2, CertificateIs
<1>7. h.compatible = CommitmentsOf(expected)
  BY <1>1, <1>5, <1>6, JudgedCompatible
<1>8. CertificateBound(h, r.anchor) /\ h.registry = r.manifest
  BY <1>2, CertificateIsBound
<1>9. ASSUME view \in SharedViews PROVE expected = r.sources /\ h.ambiguity = CommitmentsOf(r.sources)
  <2>1. Seen(p, x, view) = p.completions
    BY <1>9 DEF Seen
  <2>2. expected = {Routed(p, installed.adapter, y) : y \in Seen(p, x, view)}
    BY <1>1, ExpectedAreSeen
  <2>3. RouteNow(p).completions = {Routed(p, installed.adapter, y) : y \in p.completions}
    BY RouteAtHand
  <2>4. {v.left, v.right} \ {0} = CommitmentsOf(p.completions)
    BY <1>1, <1>9, JudgedShared
  <2>5. CommitmentsOf(RouteNow(p).completions) = CommitmentsOf(p.completions)
    BY <1>1, SourcesOf
  <2> HIDE DEF expected, r, h, v
  <2>6. QED BY <1>3, <1>6, <2>1, <2>2, <2>3, <2>4, <2>5
<1>10. ASSUME view \notin SharedViews
       PROVE  Cardinality(expected) = 1 /\ \E a \in Atoms : h.family = {{target[a]}} /\ k.witnesses = {{a}}
  <2>1. Seen(p, x, view) = {x}
    BY <1>10 DEF Seen
  <2>2. expected = {Routed(p, installed.adapter, y) : y \in Seen(p, x, view)}
    BY <1>1, ExpectedAreSeen
  <2>3. expected = {Routed(p, installed.adapter, x)}
    BY <2>1, <2>2
  <2>4. Cardinality(expected) = 1
    BY <2>3, FS_Singleton
  <2>5. PICK a \in Atoms : FamilyBehind(x) = {{target[a]}} /\ Repairs(x) = {{a}}
    BY <1>1, RepairOfOne
  <2>6. v.family = FamilyBehind(x)
    BY <1>1, <1>10, JudgedClear
  <2>7. k.witnesses = Repairs(x)
    BY <1>1, <1>10, KeyedWitnesses
  <2> HIDE DEF expected, k, v
  <2>8. QED BY <1>6, <2>4, <2>5, <2>6, <2>7
<1> HIDE DEF k, r, e, v, expected
<1>11. CaseBound(k, r)
  BY <1>2, <1>3, <1>4, <1>5, <1>7, <1>8, <1>9, <1>10 DEF CaseBound
<1>12. QED BY <1>11 DEF k, r

-----------------------------------------------------------------------------
(* The views a truth set claims to be the truth of are those it was authored from *)

\* A route read back from the truth set is the route of the views.
LEMMA RouteRestored ==
  ASSUME Matched, NEW p \in corpus, NEW r, r = TruthRoute(RouteNow(p))
  PROVE  [id |-> r.id, template |-> r.template, manifest |-> r.manifest, completions |-> r.sources] = RouteNow(p)
<1> DEFINE q == RouteNow(p)
<1>1. /\ r.id = q.id /\ r.template = q.template /\ r.manifest = q.manifest /\ r.sources = q.completions
  BY TruthRouteIs, RouteAtHand
<1>2. q = [id |-> q.id, template |-> q.template, manifest |-> q.manifest, completions |-> q.completions]
  BY DEF RouteNow, RouteOf, Route
<1> HIDE DEF q
<1>3. QED BY <1>1, <1>2 DEF q

\* A case read back assigns its record to all that share it.
LEMMA AssignmentsRestored ==
  ASSUME Matched, NEW p \in corpus, NEW x \in p.completions, NEW view \in ViewKinds, NEW k, k = Keyed(p, x, view)
  PROVE  {[pair |-> k.pair, task |-> k.task, episode |-> e, template |-> k.template,
           view |-> k.view, evidence |-> k.evidence] : e \in k.episodes} =
         {Assigning(p, installed.adapter, y, view) : y \in Seen(p, x, view)}
<1> DEFINE n == installed.adapter
           S == Seen(p, x, view)
           d == RecordOf(p, x, view)
           A(y) == Assigning(p, n, y, view)
<1>1. /\ k.pair = p.id /\ k.task = p.task /\ k.template = p.template /\ k.view = view /\ k.evidence = d
      /\ k.episodes = {y.episode : y \in S}
  BY KeyedIs
<1>2. \A y \in S : RecordOf(p, y, view) = d
  BY RecordShared DEF Matched
<1>3. \A y : A(y) = [pair |-> p.id, task |-> p.task, episode |-> y.episode, template |-> p.template,
                     view |-> view, evidence |-> RecordOf(p, y, view)]
  BY AssigningIs DEF RecordOf
<1> HIDE DEF S, d, A
<1>4. \A y \in S : A(y) = [pair |-> p.id, task |-> p.task, episode |-> y.episode, template |-> p.template,
                           view |-> view, evidence |-> d]
  BY <1>2, <1>3
<1>5. {[pair |-> p.id, task |-> p.task, episode |-> e, template |-> p.template,
        view |-> view, evidence |-> d] : e \in {y.episode : y \in S}} = {A(y) : y \in S}
  BY <1>4
<1>6. QED BY <1>1, <1>5 DEF A, S

\* So the views read back are the views at hand.
LEMMA ViewsRestored ==
  ASSUME Matched
  PROVE  Reconstructed(AuthoredTruth) = views
<1> DEFINE t == AuthoredTruth
           vs == Reconstructed(t)
           n == installed.adapter
<1>1. /\ t.routes = {TruthRoute(RouteNow(p)) : p \in corpus}
      /\ \A k : k \in t.cases <=>
            \E p \in corpus, view \in ViewKinds : \E x \in p.completions : k = Keyed(p, x, view)
  BY KeyIs
<1> HIDE DEF t
<1>2. vs.routes = views.routes
  <2>1. vs.routes = {[id |-> r.id, template |-> r.template, manifest |-> r.manifest,
                      completions |-> r.sources] : r \in t.routes}
    BY DEF Reconstructed
  <2>2. \A p \in corpus : \A r : r = TruthRoute(RouteNow(p)) =>
          [id |-> r.id, template |-> r.template, manifest |-> r.manifest, completions |-> r.sources] = RouteNow(p)
    BY RouteRestored
  <2>3. views.routes = {RouteNow(p) : p \in corpus}
    BY ViewsAtHand
  <2> HIDE DEF vs
  <2>4. \A r : r \in vs.routes => r \in views.routes
    BY <1>1, <2>1, <2>2, <2>3
  <2>5. \A r : r \in views.routes => r \in vs.routes
    BY <1>1, <2>1, <2>2, <2>3
  <2>6. QED BY <2>4, <2>5
<1>3. vs.assignments = views.assignments
  <2> DEFINE B(k) == {[pair |-> k.pair, task |-> k.task, episode |-> e, template |-> k.template,
                       view |-> k.view, evidence |-> k.evidence] : e \in k.episodes}
  <2>1. vs.assignments = UNION {B(k) : k \in t.cases}
    BY DEF Reconstructed
  <2>2. \A p \in corpus, view \in ViewKinds : \A x \in p.completions : \A k : k = Keyed(p, x, view) =>
          B(k) = {Assigning(p, n, y, view) : y \in Seen(p, x, view)}
    BY AssignmentsRestored
  <2>3. \A a : a \in views.assignments <=>
           \E p \in corpus, view \in ViewKinds : \E x \in p.completions : a = Assigning(p, n, x, view)
    BY ViewsAtHand
  <2>4. \A p \in corpus, view \in ViewKinds : \A x \in p.completions :
          x \in Seen(p, x, view) /\ Seen(p, x, view) \subseteq p.completions
    BY DEF Seen
  <2> HIDE DEF vs, B, n
  <2>5. ASSUME NEW a \in vs.assignments PROVE a \in views.assignments
    <3>1. PICK k \in t.cases : a \in B(k)
      BY <2>1
    <3>2. PICK p \in corpus, view \in ViewKinds : \E x \in p.completions : k = Keyed(p, x, view)
      BY <1>1
    <3>3. PICK x \in p.completions : k = Keyed(p, x, view)
      BY <3>2
    <3>4. PICK y \in Seen(p, x, view) : a = Assigning(p, n, y, view)
      BY <2>2, <3>1, <3>3
    <3>5. y \in p.completions
      BY <2>4
    <3>6. QED BY <2>3, <3>4, <3>5
  <2>6. ASSUME NEW a \in views.assignments PROVE a \in vs.assignments
    <3>1. PICK p \in corpus, view \in ViewKinds : \E x \in p.completions : a = Assigning(p, n, x, view)
      BY <2>3
    <3>2. PICK x \in p.completions : a = Assigning(p, n, x, view)
      BY <3>1
    <3>3. Keyed(p, x, view) \in t.cases
      BY <1>1
    <3>4. a \in B(Keyed(p, x, view))
      BY <2>2, <2>4, <3>2
    <3>5. QED BY <2>1, <3>3, <3>4
  <2>7. QED BY <2>5, <2>6
<1>4. vs.cases = views.cases
  <2>1. vs.cases = {k.public : k \in t.cases}
    BY DEF Reconstructed
  <2>2. \A p \in corpus, view \in ViewKinds : \A x \in p.completions :
           Keyed(p, x, view).public = ShownNow(p, x, view)
    BY KeyedIs
  <2>3. \A c : c \in views.cases <=>
           \E p \in corpus, view \in ViewKinds : \E x \in p.completions : c = ShownNow(p, x, view)
    BY ViewsAtHand
  <2> HIDE DEF vs
  <2>4. \A c : c \in vs.cases <=> c \in views.cases
    BY <1>1, <2>1, <2>2, <2>3
  <2>5. QED BY <2>4
<1>5. views = [routes |-> views.routes, assignments |-> views.assignments, cases |-> views.cases]
  <2>1. views = Project(Materials(corpus, n))
    BY ViewsAtHand DEF Projected
  <2>2. QED BY <2>1 DEF Project
<1>6. vs = [routes |-> vs.routes, assignments |-> vs.assignments, cases |-> vs.cases]
  BY DEF Reconstructed
<1> HIDE DEF vs
<1>7. vs = views
  BY <1>2, <1>3, <1>4, <1>5, <1>6
<1>8. QED BY <1>7 DEF vs, t

\* The roots of the truth set are those of the views it was authored from.
LEMMA ProjectionIsBound ==
  ASSUME Matched
  PROVE  ProjectionBound(AuthoredTruth)
<1>1. Reconstructed(AuthoredTruth) = views
  BY ViewsRestored
<1>2. ValidViews(views)
  BY ViewsAtHand, ViewsAreValid DEF Matched
<1>3. /\ AuthoredTruth.assignmentRoot = AssignmentRoot(views) /\ AuthoredTruth.evidenceRoot = views.cases
      /\ AuthoredTruth.projectionRoot = <<AssignmentRoot(views), views.cases>>
  BY DEF AuthoredTruth
<1> DEFINE t == AuthoredTruth
<1> HIDE DEF t
<1>4. ProjectionBound(t)
  BY <1>1, <1>2, <1>3 DEF ProjectionBound, t
<1>5. QED BY <1>4 DEF t

-----------------------------------------------------------------------------
(* The counts a truth set is held to *)

\* Records told apart by their evidence are as many as the evidence.
LEMMA ByEvidence ==
  ASSUME NEW D, NEW T, T = {c.evidence : c \in D}, IsFiniteSet(T),
         \A c, d \in D : c.evidence = d.evidence => c = d
  PROVE  IsFiniteSet(D) /\ Cardinality(D) = Cardinality(T)
<1> DEFINE f == [e \in T |-> CHOOSE c \in D : c.evidence = e]
<1>1. \A e \in T : f[e] \in D /\ f[e].evidence = e
  OBVIOUS
<1>2. f \in [T -> D]
  BY <1>1
<1>3. \A d, e \in T : f[d] = f[e] => d = e
  BY <1>1
<1>4. \A c \in D : \E e \in T : f[e] = c
  <2>1. SUFFICES ASSUME NEW c \in D PROVE f[c.evidence] = c /\ c.evidence \in T
    OBVIOUS
  <2>2. c.evidence \in T
    OBVIOUS
  <2> HIDE DEF f
  <2>3. f[c.evidence] \in D /\ f[c.evidence].evidence = c.evidence
    BY <1>1, <2>2
  <2>4. QED BY <2>2, <2>3
<1> HIDE DEF f
<1>5. QED BY <1>2, <1>3, <1>4, SameSize

\* Cases with the same evidence are the same case.
LEMMA KeyTells ==
  ASSUME Matched, NEW k \in AuthoredTruth.cases, NEW h \in AuthoredTruth.cases, k.evidence = h.evidence
  PROVE  k = h
<1>1. PICK p \in corpus, view \in ViewKinds : \E x \in p.completions : k = Keyed(p, x, view)
  BY KeyIs
<1>2. PICK x \in p.completions : k = Keyed(p, x, view)
  BY <1>1
<1>3. PICK q \in corpus, w \in ViewKinds : \E y \in q.completions : h = Keyed(q, y, w)
  BY KeyIs
<1>4. PICK y \in q.completions : h = Keyed(q, y, w)
  BY <1>3
<1>5. k.evidence = RecordOf(p, x, view)
  BY <1>2, KeyedIs
<1>6. h.evidence = RecordOf(q, y, w)
  BY <1>4, KeyedIs
<1>7. RecordOf(p, x, view) = RecordOf(q, y, w) /\ Generated
  BY <1>5, <1>6 DEF Matched
<1>8. p = q /\ view = w /\ y \in Seen(p, x, view)
  BY <1>7, RecordTells
<1>9. QED BY <1>2, <1>4, <1>7, <1>8, KeyedShared

\* The identifiers and the certificates tell them as well.
LEMMA KeyNamesTell ==
  ASSUME Matched, NEW k \in AuthoredTruth.cases, NEW h \in AuthoredTruth.cases,
         k.id = h.id \/ k.certificate = h.certificate
  PROVE  k = h
<1>1. ASSUME NEW m \in AuthoredTruth.cases
      PROVE  /\ m.certificate.evidence = m.evidence /\ m.id = Opaque("wgc", m.evidence)
             /\ \E c \in views.cases : c.evidence = m.evidence
  <2>1. PICK p \in corpus, view \in ViewKinds : \E x \in p.completions : m = Keyed(p, x, view)
    BY KeyIs
  <2>2. PICK x \in p.completions : m = Keyed(p, x, view)
    BY <2>1
  <2>3. /\ m.evidence = RecordOf(p, x, view) /\ m.id = Opaque("wgc", RecordOf(p, x, view))
        /\ m.certificate = Certificate(RouteNow(p), RecordOf(p, x, view))
    BY <2>2, KeyedIs
  <2>4. m.certificate.evidence = RecordOf(p, x, view)
    BY <2>3, CertificateIs
  <2>5. ShownNow(p, x, view) \in views.cases /\ ShownNow(p, x, view).evidence = RecordOf(p, x, view)
    BY ViewsAtHand, CaseAtHand
  <2>6. QED BY <2>3, <2>4, <2>5
<1>2. \A c, d \in views.cases : Opaque("wgc", c.evidence) = Opaque("wgc", d.evidence) => c = d
  BY DEF Matched, Matching
<1>3. k.evidence = h.evidence
  <2>1. CASE k.certificate = h.certificate
    BY <1>1, <2>1
  <2>2. CASE k.id = h.id
    <3>1. PICK c \in views.cases : c.evidence = k.evidence
      BY <1>1
    <3>2. PICK d \in views.cases : d.evidence = h.evidence
      BY <1>1
    <3>3. Opaque("wgc", c.evidence) = Opaque("wgc", d.evidence)
      BY <1>1, <2>2, <3>1, <3>2
    <3>4. c = d
      BY <1>2, <3>3
    <3>5. QED BY <3>1, <3>2, <3>4
  <2>3. QED BY <2>1, <2>2
<1>4. QED BY <1>3, KeyTells

\* The cases of a completion in some views are as many as the views.
LEMMA RowOfCases ==
  ASSUME Matched, NEW p \in corpus, NEW x \in p.completions, NEW W \in SUBSET ViewKinds, NEW D,
         \A k : k \in D <=> \E w \in W : k = Keyed(p, x, w)
  PROVE  Cardinality(D) = Cardinality(W)
<1> DEFINE T == {Evidence(p, installed.adapter, x, w) : w \in W}
<1>1. IsFiniteSet(T) /\ Cardinality(T) = Cardinality(W)
  BY RowCounted DEF Matched
<1>2. \A w \in W : Keyed(p, x, w).evidence = Evidence(p, installed.adapter, x, w)
  BY KeyedIs DEF RecordOf
<1>3. T = {k.evidence : k \in D}
  BY <1>2
<1>4. D \subseteq AuthoredTruth.cases
  BY KeyIs
<1>5. \A k, h \in D : k.evidence = h.evidence => k = h
  BY <1>4, KeyTells
<1> HIDE DEF T
<1>6. Cardinality(D) = Cardinality(T)
  BY <1>1, <1>3, <1>5, ByEvidence
<1>7. QED BY <1>1, <1>6

-----------------------------------------------------------------------------

\* What the counts are taken over: the verdict and the marks of a case.
LEMMA MarksOfCase ==
  ASSUME Matched, NEW p \in corpus, NEW x \in p.completions, NEW view \in ViewKinds, NEW k, k = Keyed(p, x, view)
  PROVE  /\ k.pair = p.id /\ k.view = view
         /\ k.certificate.compatible = CommitmentsOf(Seen(p, x, view))
         /\ k.certificate.panels = PanelsOf(p, CommitmentsOf(Seen(p, x, view)))
         /\ k.certificate.family = IF view \in SharedViews THEN {} ELSE FamilyBehind(x)
<1> DEFINE e == RecordOf(p, x, view)
           v == VerdictOn(p, e)
           h == k.certificate
<1>1. Generated
  BY DEF Matched
<1>2. k.pair = p.id /\ k.view = view /\ k.certificate = Certificate(RouteNow(p), e)
  BY KeyedIs
<1>3. h.panels = PanelsOf(p, v.compatible) /\ h.family = v.family /\ h.compatible = v.compatible
  BY <1>2, CertificateIs
<1>4. v.compatible = CommitmentsOf(Seen(p, x, view))
  BY <1>1, JudgedCompatible
<1>5. view \in SharedViews => v.family = {}
  BY <1>1, JudgedShared
<1>6. view \notin SharedViews => v.family = FamilyBehind(x)
  BY <1>1, JudgedClear
<1> HIDE DEF e, v, h
<1>7. h.family = IF view \in SharedViews THEN {} ELSE FamilyBehind(x)
  BY <1>3, <1>5, <1>6
<1>8. QED BY <1>2, <1>3, <1>4, <1>7 DEF h

\* Marked panels tell the pair and what is marked.
LEMMA PanelsTell ==
  ASSUME Generated, NEW p \in corpus, NEW q \in corpus,
         NEW C \in SUBSET CommitmentsOf(p.completions), NEW D \in SUBSET CommitmentsOf(q.completions),
         PanelsOf(p, C) = PanelsOf(q, D)
  PROVE  p = q /\ C = D
<1>1. \A x \in p.completions : \E y \in q.completions :
         x.commitment = y.commitment /\ (x.commitment \in C <=> y.commitment \in D)
  <2>1. SUFFICES ASSUME NEW x \in p.completions
                 PROVE  \E y \in q.completions :
                           x.commitment = y.commitment /\ (x.commitment \in C <=> y.commitment \in D)
    OBVIOUS
  <2>2. <<x.commitment, Panel(x.record), x.commitment \in C>> \in PanelsOf(q, D)
    BY DEF PanelsOf
  <2>3. PICK y \in q.completions :
          <<x.commitment, Panel(x.record), x.commitment \in C>> = <<y.commitment, Panel(y.record), y.commitment \in D>>
    BY <2>2 DEF PanelsOf
  <2>4. x.commitment = y.commitment
    BY <2>3
  <2>5. (x.commitment \in C) = (y.commitment \in D)
    BY <2>3
  <2>6. QED BY <2>4, <2>5
<1>2. PICK a, b : TwinFacts(p, a, b)
  BY TwinsOfPair
<1>3. a \in p.completions
  BY <1>2 DEF TwinFacts
<1>4. p = q
  <2>1. PICK y \in q.completions : a.commitment = y.commitment
    BY <1>1, <1>3
  <2>2. QED BY <1>3, <2>1, CorpusTells
<1>5. \A x \in p.completions : x.commitment \in C <=> x.commitment \in D
  BY <1>1
<1>6. \A c \in C : \E x \in p.completions : c = x.commitment
  BY DEF CommitmentsOf
<1>7. \A c \in D : \E x \in p.completions : c = x.commitment
  BY <1>4 DEF CommitmentsOf
<1>8. C = D
  BY <1>5, <1>6, <1>7
<1>9. QED BY <1>4, <1>8

\* What is not told apart tells the completion and whether the view is shared.
LEMMA SeenTells ==
  ASSUME Generated, NEW p \in corpus, NEW x \in p.completions, NEW y \in p.completions,
         NEW view \in ViewKinds, NEW w \in ViewKinds
  PROVE  /\ CommitmentsOf(Seen(p, x, view)) \in SUBSET CommitmentsOf(p.completions)
         /\ CommitmentsOf(Seen(p, x, view)) = CommitmentsOf(Seen(p, y, w)) <=>
               (view \in SharedViews /\ w \in SharedViews) \/ (view \notin SharedViews /\ w \notin SharedViews /\ x = y)
         /\ x.commitment \in CommitmentsOf(Seen(p, y, w)) <=> w \in SharedViews \/ x = y
<1>1. PICK a, b : TwinFacts(p, a, b)
  BY TwinsOfPair
<1>2. p.completions = {a, b} /\ a # b
  BY <1>1 DEF TwinFacts
<1>3. \A u, z \in p.completions : u.commitment = z.commitment => u = z
  BY CorpusTells
<1>4. \A u \in p.completions : u.commitment \in CommitmentsOf(p.completions) /\ CommitmentsOf({u}) = {u.commitment}
  BY DEF CommitmentsOf
<1>5. \A z \in p.completions : CommitmentsOf(p.completions) # {z.commitment}
  <2>1. SUFFICES ASSUME NEW z \in p.completions, CommitmentsOf(p.completions) = {z.commitment} PROVE FALSE
    OBVIOUS
  <2>2. a.commitment = z.commitment /\ b.commitment = z.commitment
    BY <1>2, <1>4, <2>1
  <2>3. QED BY <1>2, <1>3, <2>2
<1>6. /\ Seen(p, x, view) = IF view \in SharedViews THEN p.completions ELSE {x}
      /\ Seen(p, y, w) = IF w \in SharedViews THEN p.completions ELSE {y}
  BY DEF Seen
<1>7. CASE view \in SharedViews
  <2>1. CommitmentsOf(Seen(p, x, view)) = CommitmentsOf(p.completions)
    BY <1>6, <1>7
  <2>2. CASE w \in SharedViews
    BY <1>4, <1>6, <1>7, <2>1, <2>2
  <2>3. CASE w \notin SharedViews
    <3>1. CommitmentsOf(Seen(p, y, w)) = {y.commitment}
      BY <1>4, <1>6, <2>3
    <3>2. x.commitment \in {y.commitment} <=> x = y
      BY <1>3
    <3>3. QED BY <1>5, <1>7, <2>1, <2>3, <3>1, <3>2
  <2>4. QED BY <2>2, <2>3
<1>8. CASE view \notin SharedViews
  <2>1. CommitmentsOf(Seen(p, x, view)) = {x.commitment} /\ {x.commitment} \in SUBSET CommitmentsOf(p.completions)
    BY <1>4, <1>6, <1>8
  <2>2. CASE w \in SharedViews
    <3>1. CommitmentsOf(Seen(p, y, w)) = CommitmentsOf(p.completions)
      BY <1>6, <2>2
    <3>2. QED BY <1>4, <1>5, <1>8, <2>1, <2>2, <3>1
  <2>3. CASE w \notin SharedViews
    <3>1. CommitmentsOf(Seen(p, y, w)) = {y.commitment}
      BY <1>4, <1>6, <2>3
    <3>2. {x.commitment} = {y.commitment} <=> x = y
      BY <1>3
    <3>3. x.commitment \in {y.commitment} <=> x = y
      BY <1>3
    <3>4. QED BY <1>8, <2>1, <2>3, <3>1, <3>2, <3>3
  <2>4. QED BY <2>2, <2>3
<1>9. QED BY <1>7, <1>8

-----------------------------------------------------------------------------

\* The cases of one pair.
CasesOfPair(p) == {k \in AuthoredTruth.cases : k.pair = p.id}

\* They are what its completions show.
LEMMA PairCases ==
  ASSUME Matched, NEW p \in corpus
  PROVE  \A k : k \in CasesOfPair(p) <=> \E view \in ViewKinds : \E x \in p.completions : k = Keyed(p, x, view)
<1>1. \A k : k \in AuthoredTruth.cases <=>
         \E q \in corpus, view \in ViewKinds : \E x \in q.completions : k = Keyed(q, x, view)
  BY KeyIs
<1>2. \A q \in corpus, view \in ViewKinds : \A x \in q.completions : Keyed(q, x, view).pair = q.id
  BY MarksOfCase
<1>3. \A q \in corpus : q.id = p.id => q = p
  BY DEF Matched, Generated, ValidCorpus
<1>4. QED BY <1>1, <1>2, <1>3 DEF CasesOfPair

\* Six for every pair.
LEMMA PairHasSix ==
  ASSUME Matched, NEW p \in corpus
  PROVE  Cardinality(CasesOfPair(p)) = 6
<1> DEFINE n == installed.adapter
           T == {Evidence(p, n, x, w) : x \in p.completions, w \in ViewKinds}
           D == CasesOfPair(p)
<1>1. IsFiniteSet(T) /\ Cardinality(T) = 6
  BY SixRecords DEF Matched
<1>2. \A k : k \in D <=> \E view \in ViewKinds : \E x \in p.completions : k = Keyed(p, x, view)
  BY PairCases
<1>3. \A view \in ViewKinds : \A x \in p.completions : Keyed(p, x, view).evidence = Evidence(p, n, x, view)
  BY KeyedIs DEF RecordOf
<1>4. \A k, h \in D : k.evidence = h.evidence => k = h
  BY KeyTells DEF CasesOfPair
<1> HIDE DEF D, n
<1>5. T = {k.evidence : k \in D}
  BY <1>2, <1>3
<1> HIDE DEF T
<1>6. Cardinality(D) = Cardinality(T)
  BY <1>1, <1>4, <1>5, ByEvidence
<1>7. QED BY <1>1, <1>6 DEF D

\* One or two in every view.
LEMMA PairHasInView ==
  ASSUME Matched, NEW p \in corpus, NEW view \in ViewKinds
  PROVE  Cardinality({k \in CasesOfPair(p) : k.view = view}) = IF view \in SharedViews THEN 1 ELSE 2
<1> DEFINE n == installed.adapter
           T == {Evidence(p, n, x, view) : x \in p.completions}
           D == {k \in CasesOfPair(p) : k.view = view}
           c == IF view \in SharedViews THEN 1 ELSE 2
<1>1. IsFiniteSet(T) /\ Cardinality(T) = c
  BY ColumnCounted DEF Matched
<1>2. \A k : k \in CasesOfPair(p) <=> \E w \in ViewKinds : \E x \in p.completions : k = Keyed(p, x, w)
  BY PairCases
<1>3. \A w \in ViewKinds : \A x \in p.completions :
         Keyed(p, x, w).evidence = Evidence(p, n, x, w) /\ Keyed(p, x, w).view = w
  BY KeyedIs DEF RecordOf
<1>4. \A k : k \in D <=> \E x \in p.completions : k = Keyed(p, x, view)
  BY <1>2, <1>3
<1>5. \A k, h \in D : k.evidence = h.evidence => k = h
  BY KeyTells DEF CasesOfPair
<1> HIDE DEF D, n
<1>6. T = {k.evidence : k \in D}
  BY <1>3, <1>4
<1> HIDE DEF T, c
<1>7. Cardinality(D) = Cardinality(T)
  BY <1>1, <1>5, <1>6, ByEvidence
<1>8. QED BY <1>1, <1>7 DEF D, c

-----------------------------------------------------------------------------

\* Two name no target, two the environment and two the policy.
LEMMA PairNames ==
  ASSUME Matched, NEW p \in corpus
  PROVE  /\ Cardinality({k \in CasesOfPair(p) : k.certificate.family = {}}) = 2
         /\ Cardinality({k \in CasesOfPair(p) : k.certificate.family = {{"environment"}}}) = 2
         /\ Cardinality({k \in CasesOfPair(p) : k.certificate.family = {{"policy"}}}) = 2
<1>1. Generated
  BY DEF Matched
<1>2. PICK a, b : TwinFacts(p, a, b)
  BY <1>1, TwinsOfPair
<1>3. /\ p.completions = {a, b} /\ a \in p.completions /\ b \in p.completions
      /\ FamilyBehind(a) = {{"environment"}} /\ FamilyBehind(b) = {{"policy"}}
  BY <1>2 DEF TwinFacts
<1>4. \A k : k \in CasesOfPair(p) <=> \E w \in ViewKinds : \E x \in p.completions : k = Keyed(p, x, w)
  BY PairCases
<1>5. \A w \in ViewKinds : \A x \in p.completions :
         Keyed(p, x, w).certificate.family = IF w \in SharedViews THEN {} ELSE FamilyBehind(x)
  BY MarksOfCase
<1>6. /\ \A w : w \in ClearViews <=> w \in ViewKinds /\ w \notin SharedViews
      /\ SharedViews \in SUBSET ViewKinds /\ ClearViews \in SUBSET ViewKinds
      /\ Cardinality(SharedViews) = 2 /\ Cardinality(ClearViews) = 2
  BY ViewsCounted
<1>7. /\ {{"environment"}} # {} /\ {{"policy"}} # {} /\ {{"environment"}} # {{"policy"}}
  OBVIOUS
<1>8. Cardinality({k \in CasesOfPair(p) : k.certificate.family = {}}) = 2
  <2> DEFINE D == {k \in CasesOfPair(p) : k.certificate.family = {}}
  <2>1. \A w \in SharedViews : Keyed(p, b, w) = Keyed(p, a, w)
    <3>1. \A w \in SharedViews : b \in Seen(p, a, w) /\ w \in ViewKinds
      BY <1>3, <1>6 DEF Seen
    <3>2. QED BY <1>1, <1>3, <3>1, KeyedShared
  <2>2. ASSUME NEW k \in D PROVE \E w \in SharedViews : k = Keyed(p, a, w)
    <3>1. PICK w \in ViewKinds, x \in p.completions : k = Keyed(p, x, w)
      BY <1>4
    <3>2. w \in SharedViews
      <4>1. k.certificate.family = {}
        OBVIOUS
      <4>2. w \notin SharedViews => FamilyBehind(x) = {}
        BY <1>5, <3>1, <4>1
      <4>3. FamilyBehind(x) # {}
        BY <1>3, <1>7
      <4>4. QED BY <4>2, <4>3
    <3>3. QED BY <1>3, <2>1, <3>1, <3>2
  <2>3. ASSUME NEW w \in SharedViews PROVE Keyed(p, a, w) \in D
    BY <1>3, <1>4, <1>5, <1>6
  <2> HIDE DEF D
  <2>4. Cardinality(D) = Cardinality(SharedViews)
    BY <1>3, <1>6, <2>2, <2>3, RowOfCases
  <2>5. QED BY <1>6, <2>4 DEF D
<1>9. ASSUME NEW x \in p.completions, NEW f, FamilyBehind(x) = f
      PROVE  Cardinality({k \in CasesOfPair(p) : k.certificate.family = f}) = 2
  <2> DEFINE D == {k \in CasesOfPair(p) : k.certificate.family = f}
  <2>1. f # {} /\ \A y \in p.completions : FamilyBehind(y) = f => y = x
    <3>1. f # {}
      BY <1>3, <1>7, <1>9
    <3>2. QED BY <1>1, <1>9, <3>1, TwinsDiffer
  <2>2. ASSUME NEW k \in D PROVE \E w \in ClearViews : k = Keyed(p, x, w)
    <3>1. PICK w \in ViewKinds, y \in p.completions : k = Keyed(p, y, w)
      BY <1>4
    <3>2. k.certificate.family = f
      OBVIOUS
    <3>3. w \notin SharedViews
      BY <1>5, <2>1, <3>1, <3>2
    <3>4. FamilyBehind(y) = f
      BY <1>5, <3>1, <3>2, <3>3
    <3>5. QED BY <1>6, <2>1, <3>1, <3>3, <3>4
  <2>3. ASSUME NEW w \in ClearViews PROVE Keyed(p, x, w) \in D
    <3>1. w \in ViewKinds /\ w \notin SharedViews
      BY <1>6
    <3>2. Keyed(p, x, w).certificate.family = f
      BY <1>5, <1>9, <3>1
    <3>3. QED BY <1>4, <3>1, <3>2
  <2> HIDE DEF D
  <2>4. Cardinality(D) = Cardinality(ClearViews)
    BY <1>6, <2>2, <2>3, RowOfCases
  <2>5. QED BY <1>6, <2>4 DEF D
<1>10. Cardinality({k \in CasesOfPair(p) : k.certificate.family = {{"environment"}}}) = 2
  <2> DEFINE f == {{"environment"}}
  <2>1. FamilyBehind(a) = f /\ a \in p.completions
    BY <1>3
  <2> HIDE DEF f
  <2>2. Cardinality({k \in CasesOfPair(p) : k.certificate.family = f}) = 2
    BY <1>9, <2>1
  <2>3. QED BY <2>2 DEF f
<1>11. Cardinality({k \in CasesOfPair(p) : k.certificate.family = {{"policy"}}}) = 2
  <2> DEFINE f == {{"policy"}}
  <2>1. FamilyBehind(b) = f /\ b \in p.completions
    BY <1>3
  <2> HIDE DEF f
  <2>2. Cardinality({k \in CasesOfPair(p) : k.certificate.family = f}) = 2
    BY <1>9, <2>1
  <2>3. QED BY <2>2 DEF f
<1>12. QED BY <1>8, <1>10, <1>11

\* The cases of a pair carry three different sets of marks.
LEMMA PairHasThreeMarks ==
  ASSUME Matched, NEW p \in corpus
  PROVE  Cardinality({k.certificate.panels : k \in CasesOfPair(p)}) = 3
<1> DEFINE U == {k.certificate.panels : k \in CasesOfPair(p)}
           P(x, w) == PanelsOf(p, CommitmentsOf(Seen(p, x, w)))
<1>1. Generated
  BY DEF Matched
<1>2. PICK a, b : TwinFacts(p, a, b)
  BY <1>1, TwinsOfPair
<1>3. p.completions = {a, b} /\ a # b /\ a \in p.completions /\ b \in p.completions
  BY <1>2 DEF TwinFacts
<1>4. \A k : k \in CasesOfPair(p) <=> \E w \in ViewKinds : \E x \in p.completions : k = Keyed(p, x, w)
  BY PairCases
<1>5. \A w \in ViewKinds : \A x \in p.completions : Keyed(p, x, w).certificate.panels = P(x, w)
  BY MarksOfCase
<1>6. \A w, v \in ViewKinds : \A x, y \in p.completions :
         P(x, w) = P(y, v) <=> \/ w \in SharedViews /\ v \in SharedViews
                               \/ w \notin SharedViews /\ v \notin SharedViews /\ x = y
  <2>1. SUFFICES ASSUME NEW w \in ViewKinds, NEW v \in ViewKinds, NEW x \in p.completions, NEW y \in p.completions
                 PROVE  P(x, w) = P(y, v) <=> \/ w \in SharedViews /\ v \in SharedViews
                                              \/ w \notin SharedViews /\ v \notin SharedViews /\ x = y
    OBVIOUS
  <2> DEFINE C == CommitmentsOf(Seen(p, x, w))
             D == CommitmentsOf(Seen(p, y, v))
  <2>2. C \in SUBSET CommitmentsOf(p.completions) /\ D \in SUBSET CommitmentsOf(p.completions)
    BY <1>1, SeenTells
  <2>3. C = D <=> \/ w \in SharedViews /\ v \in SharedViews
                  \/ w \notin SharedViews /\ v \notin SharedViews /\ x = y
    BY <1>1, SeenTells
  <2> HIDE DEF C, D
  <2>4. PanelsOf(p, C) = PanelsOf(p, D) => C = D
    BY <1>1, <2>2, PanelsTell
  <2>5. PanelsOf(p, C) = PanelsOf(p, D) <=> C = D
    BY <2>4
  <2>6. QED BY <2>3, <2>5 DEF C, D
<1> HIDE DEF P
<1>7. /\ "trace_only" \in ViewKinds /\ "epoch_probe" \in ViewKinds
      /\ "trace_only" \in SharedViews /\ "epoch_probe" \notin SharedViews
  BY DEF ViewKinds, SharedViews
<1> DEFINE t == P(a, "trace_only")
           c == P(a, "epoch_probe")
           d == P(b, "epoch_probe")
<1>8. t # c /\ t # d /\ c # d
  BY <1>3, <1>6, <1>7
<1>9. ASSUME NEW u \in U PROVE u \in {t, c, d}
  <2>1. PICK k \in CasesOfPair(p) : u = k.certificate.panels
    OBVIOUS
  <2>2. PICK w \in ViewKinds, x \in p.completions : k = Keyed(p, x, w)
    BY <1>4
  <2>3. u = P(x, w)
    BY <1>5, <2>1, <2>2
  <2>4. CASE w \in SharedViews
    BY <1>3, <1>6, <1>7, <2>3, <2>4
  <2>5. CASE w \notin SharedViews
    BY <1>3, <1>6, <1>7, <2>3, <2>5
  <2>6. QED BY <2>4, <2>5
<1>10. ASSUME NEW w \in ViewKinds, NEW x \in p.completions PROVE P(x, w) \in U
  <2>1. Keyed(p, x, w) \in CasesOfPair(p) /\ Keyed(p, x, w).certificate.panels = P(x, w)
    BY <1>4, <1>5
  <2>2. QED BY <2>1
<1>11. U = {t, c, d}
  <2>1. t \in U /\ c \in U /\ d \in U
    BY <1>3, <1>7, <1>10
  <2> HIDE DEF U, t, c, d
  <2>2. QED BY <1>9, <2>1
<1> HIDE DEF U, t, c, d
<1>12. Cardinality({t, c, d}) = 3
  <2>1. IsFiniteSet({t, c}) /\ Cardinality({t, c}) = 2
    BY <1>8, TwoOf
  <2>2. d \notin {t, c} /\ {t, c, d} = {t, c} \cup {d}
    BY <1>8
  <2>3. Cardinality({t, c} \cup {d}) = Cardinality({t, c}) + 1
    BY <2>1, <2>2, FS_AddElement
  <2>4. QED BY <2>1, <2>2, <2>3
<1>13. QED BY <1>11, <1>12 DEF U

\* Each of them two cases.
LEMMA MarksHaveTwo ==
  ASSUME Matched, NEW k \in AuthoredTruth.cases
  PROVE  Cardinality({h \in AuthoredTruth.cases : h.certificate.panels = k.certificate.panels}) = 2
<1> DEFINE D == {h \in AuthoredTruth.cases : h.certificate.panels = k.certificate.panels}
<1>1. Generated
  BY DEF Matched
<1>2. \A h : h \in AuthoredTruth.cases <=>
         \E p \in corpus, view \in ViewKinds : \E x \in p.completions : h = Keyed(p, x, view)
  BY KeyIs
<1>3. PICK p \in corpus, view \in ViewKinds : \E x \in p.completions : k = Keyed(p, x, view)
  BY <1>2
<1>4. PICK x \in p.completions : k = Keyed(p, x, view)
  BY <1>3
<1> DEFINE W == IF view \in SharedViews THEN SharedViews ELSE ClearViews
<1>5. /\ \A w : w \in ClearViews <=> w \in ViewKinds /\ w \notin SharedViews
      /\ W \in SUBSET ViewKinds /\ Cardinality(W) = 2
      /\ \A w \in ViewKinds : w \in W <=> (w \in SharedViews <=> view \in SharedViews)
  BY ViewsCounted
<1> HIDE DEF W
<1>6. \A q \in corpus, w \in ViewKinds : \A y \in q.completions :
         Keyed(q, y, w).certificate.panels = PanelsOf(q, CommitmentsOf(Seen(q, y, w)))
  BY MarksOfCase
<1>7. ASSUME NEW h \in D PROVE \E w \in W : h = Keyed(p, x, w)
  <2>1. h \in AuthoredTruth.cases /\ h.certificate.panels = k.certificate.panels
    OBVIOUS
  <2>2. PICK q \in corpus, w \in ViewKinds : \E y \in q.completions : h = Keyed(q, y, w)
    BY <1>2, <2>1
  <2>3. PICK y \in q.completions : h = Keyed(q, y, w)
    BY <2>2
  <2> DEFINE C == CommitmentsOf(Seen(p, x, view))
             E == CommitmentsOf(Seen(q, y, w))
  <2>4. PanelsOf(p, C) = PanelsOf(q, E)
    BY <1>4, <1>6, <2>1, <2>3
  <2>5. C \in SUBSET CommitmentsOf(p.completions) /\ E \in SUBSET CommitmentsOf(q.completions)
    BY <1>1, SeenTells
  <2>6. p = q /\ C = E
    <3> HIDE DEF C, E
    <3>1. QED BY <1>1, <2>4, <2>5, PanelsTell
  <2>7. y \in p.completions /\ CommitmentsOf(Seen(p, x, view)) = CommitmentsOf(Seen(p, y, w))
    BY <2>6
  <2>8. \/ view \in SharedViews /\ w \in SharedViews
        \/ view \notin SharedViews /\ w \notin SharedViews /\ x = y
    BY <1>1, <2>7, SeenTells
  <2>9. w \in W
    BY <1>5, <2>8
  <2>10. h = Keyed(p, x, w)
    <3>1. CASE w \in SharedViews
      <4>1. y \in Seen(p, x, w)
        BY <2>7, <3>1 DEF Seen
      <4>2. QED BY <1>1, <2>3, <2>6, <4>1, KeyedShared
    <3>2. CASE w \notin SharedViews
      BY <2>3, <2>6, <2>8, <3>2
    <3>3. QED BY <3>1, <3>2
  <2>11. QED BY <2>9, <2>10
<1>8. ASSUME NEW w \in W PROVE Keyed(p, x, w) \in D
  <2>1. w \in ViewKinds /\ (w \in SharedViews <=> view \in SharedViews)
    BY <1>5
  <2>2. CommitmentsOf(Seen(p, x, view)) = CommitmentsOf(Seen(p, x, w))
    BY <1>1, <2>1, SeenTells
  <2>3. Keyed(p, x, w) \in AuthoredTruth.cases
    BY <1>2, <2>1
  <2>4. Keyed(p, x, w).certificate.panels = k.certificate.panels
    BY <1>4, <1>6, <2>1, <2>2
  <2>5. QED BY <2>3, <2>4
<1> HIDE DEF D
<1>9. Cardinality(D) = Cardinality(W)
  BY <1>5, <1>7, <1>8, RowOfCases
<1>10. QED BY <1>5, <1>9 DEF D

\* Every completion is compatible with four.
LEMMA CompatibleWithFour ==
  ASSUME Matched, NEW p \in corpus, NEW x \in p.completions
  PROVE  Cardinality({k \in AuthoredTruth.cases : x.commitment \in k.certificate.compatible}) = 4
<1> DEFINE D == {k \in AuthoredTruth.cases : x.commitment \in k.certificate.compatible}
<1>1. Generated
  BY DEF Matched
<1>2. \A h : h \in AuthoredTruth.cases <=>
         \E q \in corpus, view \in ViewKinds : \E y \in q.completions : h = Keyed(q, y, view)
  BY KeyIs
<1>3. \A q \in corpus, w \in ViewKinds : \A y \in q.completions :
         Keyed(q, y, w).certificate.compatible = CommitmentsOf(Seen(q, y, w))
  BY MarksOfCase
<1>4. ASSUME NEW h \in D PROVE \E w \in ViewKinds : h = Keyed(p, x, w)
  <2>1. h \in AuthoredTruth.cases /\ x.commitment \in h.certificate.compatible
    OBVIOUS
  <2>2. PICK q \in corpus, w \in ViewKinds : \E y \in q.completions : h = Keyed(q, y, w)
    BY <1>2, <2>1
  <2>3. PICK y \in q.completions : h = Keyed(q, y, w)
    BY <2>2
  <2>4. x.commitment \in CommitmentsOf(Seen(q, y, w))
    BY <1>3, <2>1, <2>3
  <2>5. PICK z \in Seen(q, y, w) : z.commitment = x.commitment
    BY <2>4 DEF CommitmentsOf
  <2>6. z \in q.completions
    BY <1>1, <2>5, RecordShared
  <2>7. p = q /\ x = z
    BY <1>1, <2>5, <2>6, CorpusTells
  <2>8. Keyed(p, x, w) = Keyed(p, y, w)
    BY <1>1, <2>5, <2>7, KeyedShared
  <2>9. QED BY <2>3, <2>7, <2>8
<1>5. ASSUME NEW w \in ViewKinds PROVE Keyed(p, x, w) \in D
  <2>1. x.commitment \in CommitmentsOf(Seen(p, x, w))
    BY DEF Seen, CommitmentsOf
  <2>2. Keyed(p, x, w) \in AuthoredTruth.cases /\ Keyed(p, x, w).certificate.compatible = CommitmentsOf(Seen(p, x, w))
    BY <1>2, <1>3
  <2>3. QED BY <2>1, <2>2
<1> HIDE DEF D
<1>6. Cardinality(D) = Cardinality(ViewKinds)
  BY <1>4, <1>5, RowOfCases
<1>7. QED BY <1>6, ViewsCounted DEF D

-----------------------------------------------------------------------------

\* The truth set passes all of its counts.
LEMMA KeyIsCounted ==
  ASSUME Matched
  PROVE  TruthCounted(AuthoredTruth)
<1> DEFINE t == AuthoredTruth
<1>1. Generated
  BY DEF Matched
<1>2. t.routes = {TruthRoute(RouteNow(p)) : p \in corpus}
  BY KeyIs
<1>3. \A p \in corpus : /\ TruthRoute(RouteNow(p)).id = p.id
                        /\ TruthRoute(RouteNow(p)).sources = RouteNow(p).completions
  BY TruthRouteIs
<1>4. \A c, d \in t.cases : c.id = d.id \/ c.certificate = d.certificate => c = d
  BY KeyNamesTell
<1>5. \A p \in corpus : CasesOfPair(p) = {c \in t.cases : c.pair = p.id}
  BY DEF CasesOfPair
<1>6. ASSUME NEW r \in t.routes
      PROVE  LET of == {c \in t.cases : c.pair = r.id}
             IN  /\ Cardinality(of) = 6
                 /\ \A view \in ViewKinds : Cardinality({c \in of : c.view = view}) =
                      IF view \in SharedViews THEN 1 ELSE 2
                 /\ Cardinality({c \in of : c.certificate.family = {}}) = 2
                 /\ Cardinality({c \in of : c.certificate.family = {{"environment"}}}) = 2
                 /\ Cardinality({c \in of : c.certificate.family = {{"policy"}}}) = 2
                 /\ Cardinality({c.certificate.panels : c \in of}) = 3
  <2>1. PICK p \in corpus : r = TruthRoute(RouteNow(p))
    BY <1>2
  <2>2. {c \in t.cases : c.pair = r.id} = CasesOfPair(p)
    BY <1>3, <1>5, <2>1
  <2>3. Cardinality(CasesOfPair(p)) = 6
    BY PairHasSix
  <2>4. \A view \in ViewKinds : Cardinality({c \in CasesOfPair(p) : c.view = view}) =
           IF view \in SharedViews THEN 1 ELSE 2
    BY PairHasInView
  <2>5. /\ Cardinality({c \in CasesOfPair(p) : c.certificate.family = {}}) = 2
        /\ Cardinality({c \in CasesOfPair(p) : c.certificate.family = {{"environment"}}}) = 2
        /\ Cardinality({c \in CasesOfPair(p) : c.certificate.family = {{"policy"}}}) = 2
    BY PairNames
  <2>6. Cardinality({c.certificate.panels : c \in CasesOfPair(p)}) = 3
    BY PairHasThreeMarks
  <2> HIDE DEF t
  <2>7. QED BY <2>2, <2>3, <2>4, <2>5, <2>6
<1>7. \A c \in t.cases : Cardinality({d \in t.cases : d.certificate.panels = c.certificate.panels}) = 2
  BY MarksHaveTwo
<1>8. ASSUME NEW r \in t.routes, NEW z \in r.sources
      PROVE  Cardinality({c \in t.cases : z.commitment \in c.certificate.compatible}) = 4
  <2>1. PICK p \in corpus : r = TruthRoute(RouteNow(p))
    BY <1>2
  <2>2. z \in RouteNow(p).completions
    BY <1>3, <2>1
  <2>3. PICK x \in p.completions : z = Routed(p, installed.adapter, x)
    BY <2>2, RouteAtHand
  <2>4. z.commitment = x.commitment
    BY <2>3, RoutedIs
  <2>5. Cardinality({c \in t.cases : x.commitment \in c.certificate.compatible}) = 4
    BY CompatibleWithFour
  <2>6. QED BY <2>4, <2>5
<1> HIDE DEF t
<1>9. TruthCounted(t)
  BY <1>4, <1>6, <1>7, <1>8 DEF TruthCounted
<1>10. QED BY <1>9 DEF t

\* So a truth set is authored whenever the views are those of the corpus, the anchors are of
\* those views and this installation, and the identifiers of the cases do not coincide.
LEMMA MatchedIsAuthorable ==
  ASSUME Matched
  PROVE  Authorable
<1>1. Generated
  BY DEF Matched
<1>2. views.routes = {RouteNow(p) : p \in corpus}
  BY ViewsAtHand
<1>3. {p.id : p \in corpus} = {r.id : r \in views.routes}
  <2>1. \A p : RouteNow(p).id = p.id
    BY RouteAtHand
  <2>2. QED BY <1>2, <2>1
<1>4. ASSUME NEW p \in corpus PROVE Attributable(RouteNow(p))
  <2> DEFINE r == RouteNow(p)
             n == installed.adapter
  <2>1. PairFor(r) = p /\ AnchorFor(r) = AnchorOf(Manifest(p, n)) /\ r.manifest = Manifest(p, n)
    BY <1>1, PairOfRoute, AnchorOfRoute, RouteAtHand
  <2>2. /\ AnchorOf(Manifest(p, n)).adapter = Manifest(p, n).adapter /\ Manifest(p, n).adapter = n
        /\ Manifest(p, n).commitments = CommitmentsOf(p.completions)
    BY AnchorIs, ManifestIs
  <2>3. ASSUME NEW c \in CasesOf(r)
        PROVE  c.evidence.manifest = r.manifest /\ Search(p, c.evidence)!Compatible(c.evidence) # {}
    <3>1. PICK view \in ViewKinds, x \in p.completions : c = ShownNow(p, x, view)
      BY CasesOfRoute
    <3>2. c.evidence = RecordOf(p, x, view)
      BY <3>1, CaseAtHand
    <3>3. RecordOf(p, x, view).manifest = Manifest(p, n)
      BY RecordAtHand
    <3>4. Search(p, c.evidence)!Compatible(c.evidence) = CommitmentsOf(Seen(p, x, view))
      BY <1>1, <3>2, CompatibleAreSeen
    <3>5. x.commitment \in CommitmentsOf(Seen(p, x, view))
      BY DEF Seen, CommitmentsOf
    <3>6. c.evidence.manifest = r.manifest
      BY <2>1, <3>2, <3>3
    <3>7. QED BY <3>4, <3>5, <3>6
  <2> HIDE DEF r
  <2>4. Attributable(r)
    BY <2>1, <2>2, <2>3 DEF Attributable
  <2>5. QED BY <2>4 DEF r
<1>5. ASSUME NEW p \in corpus PROVE Cardinality(CasesOf(RouteNow(p))) = 6
  <2> DEFINE n == installed.adapter
             T == {Evidence(p, n, x, w) : x \in p.completions, w \in ViewKinds}
             D == CasesOf(RouteNow(p))
  <2>1. IsFiniteSet(T) /\ Cardinality(T) = 6
    BY <1>1, SixRecords
  <2>2. \A k : k \in D <=> \E view \in ViewKinds : \E x \in p.completions : k = ShownNow(p, x, view)
    BY CasesOfRoute
  <2>3. \A view, x : ShownNow(p, x, view).evidence = Evidence(p, n, x, view)
    BY CaseAtHand DEF RecordOf
  <2>4. \A k, h \in D : k.evidence = h.evidence => k = h
    <3>1. D \subseteq views.cases /\ views = Projected(n)
      BY ViewsAtHand DEF CasesOf
    <3>2. \A k, h \in Projected(n).cases : k.evidence = h.evidence => k = h
      BY <1>1, CasesTell
    <3> HIDE DEF D
    <3>3. QED BY <3>1, <3>2
  <2> HIDE DEF D, n
  <2>5. T = {k.evidence : k \in D}
    BY <2>2, <2>3
  <2> HIDE DEF T
  <2>6. Cardinality(D) = Cardinality(T)
    BY <2>1, <2>4, <2>5, ByEvidence
  <2>7. QED BY <2>1, <2>6 DEF D
<1>6. \A r \in views.routes : Provenance(r) /\ Attributable(r) /\ Cardinality(CasesOf(r)) = 6
  <2>1. \A p \in corpus : Provenance(RouteNow(p))
    BY <1>1, RouteHasProvenance
  <2>2. QED BY <1>2, <1>4, <1>5, <2>1
<1>7. ValidTruth(AuthoredTruth)
  <2> DEFINE t == AuthoredTruth
  <2>1. /\ t.routes = {TruthRoute(RouteNow(p)) : p \in corpus}
        /\ \A k : k \in t.cases <=>
              \E p \in corpus, view \in ViewKinds : \E x \in p.completions : k = Keyed(p, x, view)
    BY KeyIs
  <2>2. \A r \in t.routes : ValidTruthRoute(r)
    BY <2>1, TruthRouteIsValid
  <2>3. \A r, q \in t.routes : r.manifest = q.manifest \/ r.anchor = q.anchor => r = q
    BY TruthRoutesTell
  <2>4. ASSUME NEW k \in t.cases PROVE ValidTruthCase(k) /\ \E r \in t.routes : CaseBound(k, r)
    <3>1. PICK p \in corpus, view \in ViewKinds : \E x \in p.completions : k = Keyed(p, x, view)
      BY <2>1
    <3>2. PICK x \in p.completions : k = Keyed(p, x, view)
      BY <3>1
    <3>3. ValidTruthCase(k)
      BY <3>2, SharedCaseIsValid, ClearCaseIsValid
    <3>4. TruthRoute(RouteNow(p)) \in t.routes /\ CaseBound(k, TruthRoute(RouteNow(p)))
      BY <2>1, <3>2, CaseIsBound
    <3>5. QED BY <3>3, <3>4
  <2>5. ProjectionBound(t) /\ TruthCounted(t)
    BY ProjectionIsBound, KeyIsCounted
  <2>6. \A x, y \in SourcesIn(t) :
          (x.episode = y.episode \/ x.commitment = y.commitment \/ x.snapshot = y.snapshot) => x = y
    BY TruthSourcesTell
  <2> HIDE DEF t
  <2>7. ValidTruth(t)
    BY <2>2, <2>3, <2>4, <2>5, <2>6 DEF ValidTruth
  <2>8. QED BY <2>7 DEF t
<1>8. QED BY <1>3, <1>6, <1>7, AnchorsPinned DEF Authorable

-----------------------------------------------------------------------------
(* The invariant *)

\* Nothing is refused at first.
LEMMA InitDeserved == Init => OnlyMismatchRefused
BY DEF Init, OnlyMismatchRefused

\* A valid catalog is refused only where identifiers coincide.
LEMMA GenerateDeserved ==
  ASSUME IInv, NEW with \in Seeds, Generate(with)
  PROVE  OnlyMismatchRefused'
<1>1. seed' = with /\ catalog' = catalog /\ status' \in {"generated", "not generated"} /\ catalog \in Catalogs
  BY DEF Generate, IInv, Generated
<1>2. ASSUME status' = "not generated" PROVE ~ ValidCatalog(catalog) \/ Coincide(Corpus(with, catalog))
  <2>1. ~ (ValidCatalog(catalog) /\ ValidCorpus(Corpus(with, catalog), catalog))
    BY <1>2 DEF Generate
  <2>2. QED BY <1>1, <2>1, CorpusIsValid
<1>3. QED BY <1>1, <1>2 DEF OnlyMismatchRefused

\* The corpus always projects.
LEMMA BuildViewsDeserved ==
  ASSUME IInv, BuildViews
  PROVE  OnlyMismatchRefused'
<1>1. Generated /\ corpus # {}
  BY DEF IInv, BuildViews
<1>2. ValidMaterials(Materials(corpus, installed.adapter))
  BY <1>1, MaterialsAreValid
<1>3. ValidViews(Projected(installed.adapter))
  BY <1>1, ViewsAreValid
<1>4. status' = "projected"
  BY <1>2, <1>3 DEF BuildViews, Verified, Projected
<1>5. QED BY <1>4 DEF OnlyMismatchRefused

\* Anchors are refused only for views of another adapter.
LEMMA PinDeserved ==
  ASSUME Pin
  PROVE  OnlyMismatchRefused'
<1>1. UNCHANGED <<installed, corpus, views>> /\ status' \in {"pinned", "not pinned"}
  BY DEF Pin
<1>2. ASSUME status' = "not pinned" PROVE views # Project(Verified(corpus))
  <2>1. PICK r \in views.routes : r.manifest.adapter # installed.adapter
    BY <1>2 DEF Pin
  <2>2. SUFFICES ASSUME views = Project(Materials(corpus, installed.adapter)) PROVE FALSE
    BY DEF Verified
  <2>3. PICK p \in corpus : r = RouteOf(p, installed.adapter)
    BY <2>1, <2>2, ProjectionIs
  <2>4. r.manifest.adapter = installed.adapter
    BY <2>3, RouteIs, ManifestIs
  <2>5. QED BY <2>1, <2>4
<1>3. Verified(corpus)' = Verified(corpus)
  BY <1>1 DEF Verified
<1>4. QED BY <1>1, <1>2, <1>3 DEF OnlyMismatchRefused

\* A truth set is refused only where the arguments do not match.
LEMMA AuthorDeserved ==
  ASSUME IInv, Author
  PROVE  OnlyMismatchRefused'
<1>1. UNCHANGED <<installed, corpus, views, anchors>> /\ status' \in {"authored", "not authored"} /\ corpus # {}
  BY DEF Author, release
<1>2. ASSUME status' = "not authored" PROVE ~ Matching
  <2>1. ~ Authorable
    BY <1>2 DEF Author
  <2>2. QED BY <1>1, <2>1, MatchedIsAuthorable DEF Matched, IInv
<1>3. Matching' = Matching
  BY <1>1 DEF Matching, Verified, AnchorsFor, AnchorOf
<1>4. QED BY <1>1, <1>2, <1>3 DEF OnlyMismatchRefused

\* What was stored and left alone is accepted.
LEMMA LoadDeserved ==
  ASSUME Kept, Load
  PROVE  OnlyMismatchRefused'
<1>1. status = "stored" /\ status' \in {"loaded", "not loaded"} /\ edit' = edit
  BY DEF Load
<1>2. ASSUME edit = "none" PROVE Accepted
  <2>1. ValidTruth(truth) /\ file = [truth |-> truth, seal |-> truth]
    BY <1>1, <1>2 DEF Kept
  <2>2. QED BY <2>1 DEF Accepted
<1>3. status' = "not loaded" => ~ Accepted
  BY DEF Load
<1>4. QED BY <1>1, <1>2, <1>3 DEF OnlyMismatchRefused

\* No other call refuses anything.
LEMMA OtherDeserved ==
  ASSUME Mispair \/ Store \/ EditRecord \/ ExchangeTwins \/ \E part \in {"adapter", "verifier"} : Upgrade(part)
  PROVE  OnlyMismatchRefused'
<1>1. status' \in {"mispaired", "stored", "upgraded"}
  <2>1. CASE EditRecord
    BY <2>1 DEF EditRecord, AsStored, ChangeFile
  <2>2. CASE ExchangeTwins
    BY <2>2 DEF ExchangeTwins, AsStored, ChangeFile
  <2>3. QED BY <2>1, <2>2 DEF Mispair, Store, Upgrade
<1>2. QED BY <1>1 DEF OnlyMismatchRefused

\* Nothing is refused by doing nothing.
LEMMA StutterDeserved ==
  ASSUME OnlyMismatchRefused, UNCHANGED vars
  PROVE  OnlyMismatchRefused'
BY DEF OnlyMismatchRefused, Matching, Verified, AnchorsFor, AnchorOf, vars

\* So every step refuses only what deserves it.
LEMMA NextDeserved == IInv /\ Kept /\ OnlyMismatchRefused /\ [Next]_vars => OnlyMismatchRefused'
<1> SUFFICES ASSUME IInv, Kept, OnlyMismatchRefused, [Next]_vars PROVE OnlyMismatchRefused'
  OBVIOUS
<1>1. CASE Over \/ UNCHANGED vars
  BY <1>1, StutterDeserved DEF Over
<1>2. QED
  BY <1>1, GenerateDeserved, BuildViewsDeserved, PinDeserved, AuthorDeserved, LoadDeserved, OtherDeserved DEF Next

\* A call is refused only when its arguments deserve it: a valid catalog generates under every
\* seed whose identifiers do not coincide, the corpus always projects, views of the very corpus
\* under the very installation are pinned and then authored, and what was stored and not
\* changed loads.
THEOREM TruthOnlyMismatchRefused == Spec => []OnlyMismatchRefused
<1>1. QED BY InitIInv, NextIInv, InitKept, NextKept, InitDeserved, NextDeserved, PTL DEF Spec
=============================================================================
