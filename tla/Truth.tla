-------------------------------- MODULE Truth --------------------------------
(***************************************************************************)
(* The road of one release from the authored catalog to the truth the      *)
(* scorer grades by: a corpus is generated from a seed (generation.py),    *)
(* its views are projected (views.py), the registries of the views are     *)
(* pinned in trust anchors (trust.py), and truth.py replays every sealed   *)
(* source to author the truth set, which is stored and parsed back.        *)
(*                                                                         *)
(* These are separate calls with separate arguments.  Between any two of   *)
(* them another seed may have been used, the installed adapter or verifier *)
(* replaced, or the views replaced by some that no completion shows; the   *)
(* stored truth may have been changed and its digests computed anew.       *)
(***************************************************************************)
EXTENDS Baselines

CONSTANTS MaxUpgrades   \* bound: replacements of the adapter or the verifier

ASSUME TruthAssumption == MaxUpgrades \in Nat

VARIABLES
  catalog,    \* the authored catalog
  seed,       \* the release seed last used
  installed,  \* the adapter and the verifier in use
  corpus,     \* the generated pairs
  views,      \* the evidence views at hand
  anchors,    \* the trust anchors at hand
  truth,      \* the truth set authored
  file,       \* the stored truth
  loaded,     \* the truth parsed from it
  edit,       \* history: what was done to the stored truth
  status      \* the last call and how it ended

vars == <<catalog, seed, installed, corpus, views, anchors, truth, file, loaded, edit, status>>
release == <<catalog, seed, installed, corpus, views, anchors>>
stored == <<file, loaded, edit>>

NoViews == [routes |-> {}, assignments |-> {}, cases |-> {}]
NoTruth == [corpusRoot |-> {}, assignmentRoot |-> <<>>, evidenceRoot |-> {},
            projectionRoot |-> <<>>, routes |-> {}, cases |-> {}]
NoFile == [truth |-> NoTruth, seal |-> NoTruth]

AnchorOf(manifest) ==
  [registry |-> manifest, adapter |-> manifest.adapter, verifier |-> installed.verifier]
AnchorsFor(vs) == {AnchorOf(r.manifest) : r \in vs.routes}

Init ==
  /\ catalog \in Catalogs /\ seed \in Seeds
  /\ installed = [adapter |-> 1, verifier |-> 1]
  /\ corpus = {} /\ views = NoViews /\ anchors = {}
  /\ truth = NoTruth /\ file = NoFile /\ loaded = NoTruth
  /\ edit = "none" /\ status = "new"

-----------------------------------------------------------------------------
(* Authoring a truth set from a corpus, views and anchors. *)

\* _normalize_anchor_collection: one anchor for each registry of the views, all of the
\* installed verifier.
Pinned ==
  /\ {a.registry : a \in anchors} = {r.manifest : r \in views.routes}
  /\ \A a, b \in anchors : a.registry = b.registry => a = b
  /\ \A a \in anchors : a.verifier = installed.verifier

PairFor(r) == CHOOSE p \in corpus : p.id = r.id
AnchorFor(r) == CHOOSE a \in anchors : a.registry = r.manifest

\* _author_truth_route: the route names the very sources of the pair.
Provenance(r) ==
  LET p == PairFor(r)
  IN  /\ p.task = r.manifest.task /\ p.template = r.template
      /\ {<<x.episode, x.commitment, x.record>> : x \in p.completions} =
         {<<x.episode, x.commitment, x.snapshot>> : x \in r.completions}

TruthRoute(r) ==
  [id |-> r.id, task |-> r.manifest.task, template |-> r.template, manifest |-> r.manifest,
   anchor |-> AnchorFor(r), sources |-> r.completions]

CasesOf(r) == {c \in views.cases : \E x \in r.completions : x.evidence[c.view] = c.evidence}

\* The registry of a pair (module Registry); module Verifier is the replay behind it, and
\* run "verifier" checks that the two agree.
Candidates(p) ==
  [c \in CommitmentsOf(p.completions) |->
     LET x == CHOOSE y \in p.completions : y.commitment = c
     IN  [result |-> Panel(x.record), probe |-> [q \in Probes |-> ProbeOf(x.record, q)],
          contract |-> "workspace", undeclared |-> FALSE]]
AllCommitments == {Commit(s, r) : s \in Seeds, r \in Authored}
Search(p, e) == INSTANCE Registry WITH
  World <- AllCommitments, Commitments <- AllCommitments,
  Commitment <- [c \in AllCommitments |-> c],
  ProbeValues <- {}, Traces <- {}, Completions <- {}, Families <- {},
  completion <- Candidates(p), registry <- CommitmentsOf(p.completions),
  sealed <- 0, evidence <- e, verdict <- 0, genuine <- TRUE

\* What verify_registry_attributions demands of one pair.
Attributable(r) ==
  LET p == PairFor(r)
      a == AnchorFor(r)
  IN  /\ a.adapter = r.manifest.adapter /\ r.manifest.adapter = installed.adapter
      /\ CommitmentsOf(p.completions) = r.manifest.commitments
      /\ \A c \in CasesOf(r) :
           c.evidence.manifest = r.manifest /\ Search(p, c.evidence)!Compatible(c.evidence) # {}

\* _finalize_attribution
Certificate(r, e) ==
  LET p == PairFor(r)
      v == Search(p, e)!Judge(Search(p, e)!Compatible(e))
  IN  [registry |-> r.manifest, evidence |-> e, adapter |-> r.manifest.adapter,
       verifier |-> installed.verifier, anchor |-> AnchorFor(r),
       panels |-> {<<x.commitment, Panel(x.record), x.commitment \in v.compatible>> : x \in p.completions},
       kind |-> v.kind, family |-> v.family, compatible |-> v.compatible,
       ambiguity |-> {v.left, v.right} \ {0}]

Assigned(e) == {a.episode : a \in {b \in views.assignments : b.evidence = e}}

\* _author_truth_case: an ambiguous view has no witnesses, any other those of its source.
TruthCase(r, c) ==
  LET expected == {x \in r.completions : x.evidence[c.view] = c.evidence}
      source == CHOOSE x \in PairFor(r).completions : x.commitment \in CommitmentsOf(expected)
  IN  [id |-> Opaque("wgc", c.evidence), pair |-> r.id, task |-> r.manifest.task,
       template |-> c.template, view |-> c.view, evidence |-> c.evidence,
       episodes |-> Assigned(c.evidence), route |-> TruthRoute(r), public |-> c,
       certificate |-> Certificate(r, c.evidence),
       witnesses |-> IF c.view \in SharedViews THEN {} ELSE Witnesses(Panel(source.record))]

AssignmentRoot(vs) == <<vs.assignments, vs.routes>>

AuthoredTruth ==
  [corpusRoot |-> corpus, assignmentRoot |-> AssignmentRoot(views),
   evidenceRoot |-> views.cases, projectionRoot |-> <<AssignmentRoot(views), views.cases>>,
   routes |-> {TruthRoute(r) : r \in views.routes},
   cases |-> UNION {{TruthCase(r, c) : c \in CasesOf(r)} : r \in views.routes}]

-----------------------------------------------------------------------------
(* Validation of a truth set, authored or parsed. *)

\* _validate_verdict_shape
Shaped(v) ==
  /\ v.compatible # {}
  /\ v.ambiguity # {} <=> v.kind = "ambiguous_worlds"
  /\ \/ v.kind = "ambiguous_worlds" /\ v.family = {} /\ Cardinality(v.ambiguity) = 2 /\ v.ambiguity \subseteq v.compatible
     \/ v.kind = "no_repair" /\ v.family = {}
     \/ v.kind = "identified_singleton" /\ \E t \in Targets : v.family = {{t}}
     \/ v.kind = "identified_compound" /\ v.family = {Targets}
     \/ v.kind = "alternative_minimal_repairs" /\ v.family = {{t} : t \in Targets}

\* TruthCaseRecord.validate
ValidTruthCase(c) ==
  /\ c.id = Opaque("wgc", c.evidence)
  /\ ValidCase(c.public) /\ Shaped(c.certificate) /\ c.certificate.evidence = c.evidence
  /\ c.public = [template |-> c.template, view |-> c.view, evidence |-> c.evidence]
  /\ IF c.view \in SharedViews
     THEN /\ Cardinality(c.episodes) = 2
          /\ c.certificate.kind = "ambiguous_worlds" /\ c.witnesses = {}
     ELSE /\ Cardinality(c.episodes) = 1
          /\ c.certificate.kind = "identified_singleton" /\ \E a \in Atoms : c.witnesses = {{a}}

\* _validate_truth_route_identity and _validate_truth_route_sources
ValidTruthRoute(r) ==
  /\ r.template = r.manifest.template /\ r.task = r.manifest.task
  /\ r.anchor.registry = r.manifest /\ r.anchor.adapter = r.manifest.adapter
  /\ CommitmentsOf(r.sources) = r.manifest.commitments
  /\ r.id = PairId(r.manifest.commitments)

\* _reconstruct_public_views: the views a truth set claims to be the truth of.
Reconstructed(t) ==
  [routes |-> {[id |-> r.id, template |-> r.template, manifest |-> r.manifest,
                completions |-> r.sources] : r \in t.routes},
   assignments |-> UNION {{[pair |-> c.pair, task |-> c.task, episode |-> e, template |-> c.template,
                            view |-> c.view, evidence |-> c.evidence] : e \in c.episodes} : c \in t.cases},
   cases |-> {c.public : c \in t.cases}]

\* _validate_projection_binding
ProjectionBound(t) ==
  LET vs == Reconstructed(t)
  IN  /\ ValidViews(vs)
      /\ t.assignmentRoot = AssignmentRoot(vs) /\ t.evidenceRoot = vs.cases
      /\ t.projectionRoot = <<t.assignmentRoot, t.evidenceRoot>>

\* verify_attribution_certificate: integrity and release binding, no replay.
CertificateBound(v, a) ==
  v.registry = a.registry /\ v.adapter = a.adapter /\ v.verifier = a.verifier /\ v.anchor = a

\* Mutant: the certificate is checked against its anchor, not against the routes.
CaseBoundToAnchor(c, r) ==
  /\ c.pair = r.id /\ c.task = r.task /\ c.template = r.template /\ c.route = r
  /\ CertificateBound(c.certificate, r.anchor)

\* _validate_truth_set_cases and _validate_routed_verdict
CaseBound(c, r) ==
  LET expected == {x \in r.sources : x.evidence[c.view] = c.evidence}
      v == c.certificate
  IN  /\ c.pair = r.id /\ c.task = r.task /\ c.template = r.template /\ c.route = r
      /\ c.episodes = {x.episode : x \in expected}
      /\ v.compatible = CommitmentsOf(expected)
      /\ CertificateBound(v, r.anchor) /\ v.registry = r.manifest
      /\ IF c.view \in SharedViews
         THEN expected = r.sources /\ v.ambiguity = CommitmentsOf(r.sources)
         ELSE /\ Cardinality(expected) = 1
              /\ \E a \in Atoms : v.family = {{target[a]}} /\ c.witnesses = {{a}}

\* Mutant: how often each target occurs is not counted.
CountedByView(t) ==
  /\ \A c, d \in t.cases : c.id = d.id \/ c.certificate = d.certificate => c = d
  /\ \A r \in t.routes : Cardinality({c \in t.cases : c.pair = r.id}) = 6

\* _validate_truth_set_counts, with the balance of every pair.
TruthCounted(t) ==
  LET of(r) == {c \in t.cases : c.pair = r.id}
      naming(r, family) == Cardinality({c \in of(r) : c.certificate.family = family})
  IN  /\ \A c, d \in t.cases : c.id = d.id \/ c.certificate = d.certificate => c = d
      /\ \A r \in t.routes :
           /\ Cardinality(of(r)) = 6
           /\ \A view \in ViewKinds : Cardinality({c \in of(r) : c.view = view}) =
                IF view \in SharedViews THEN 1 ELSE 2
           /\ naming(r, {}) = 2 /\ naming(r, {{"environment"}}) = 2 /\ naming(r, {{"policy"}}) = 2
           /\ Cardinality({c.certificate.panels : c \in of(r)}) = 3
      /\ \A c \in t.cases :
           Cardinality({d \in t.cases : d.certificate.panels = c.certificate.panels}) = 2
      /\ \A r \in t.routes : \A x \in r.sources :
           Cardinality({c \in t.cases : x.commitment \in c.certificate.compatible}) = 4

SourcesIn(t) == UNION {r.sources : r \in t.routes}

\* Workspace100TruthSet.validate, with _validate_truth_set_routes: the names and snapshots of
\* sources are each used once.
ValidTruth(t) ==
  /\ \A r \in t.routes : ValidTruthRoute(r)
  /\ \A r, q \in t.routes : r.manifest = q.manifest \/ r.anchor = q.anchor => r = q
  /\ \A x, y \in SourcesIn(t) :
       (x.episode = y.episode \/ x.commitment = y.commitment \/ x.snapshot = y.snapshot) => x = y
  /\ \A c \in t.cases : ValidTruthCase(c)
  /\ ProjectionBound(t)
  /\ \A c \in t.cases : \E r \in t.routes : CaseBound(c, r)
  /\ TruthCounted(t)

-----------------------------------------------------------------------------
(* The calls.  A release is authored once; before, everything may be redone. *)

Authoring == truth = NoTruth

\* Mutant: the identifiers of the generated pairs are not compared.
GenerateAnyway(with) ==
  LET valid == ValidCatalog(catalog)
  IN  /\ Authoring
      /\ seed' = with
      /\ corpus' = IF valid THEN Corpus(with, catalog) ELSE corpus
      /\ status' = IF valid THEN "generated" ELSE "not generated"
      /\ UNCHANGED <<catalog, installed, views, anchors, truth, stored>>

\* generate_workspace100: the seed reaches nothing but the salts.
Generate(with) ==
  LET pairs == Corpus(with, catalog)
      valid == ValidCatalog(catalog) /\ ValidCorpus(pairs, catalog)
  IN  /\ Authoring
      /\ seed' = with
      /\ corpus' = IF valid THEN pairs ELSE corpus
      /\ status' = IF valid THEN "generated" ELSE "not generated"
      /\ UNCHANGED <<catalog, installed, views, anchors, truth, stored>>

\* build_workspace100_evidence_views
Verified(corp) == Materials(corp, installed.adapter)

BuildViews ==
  LET materials == Verified(corpus)
      projected == Project(materials)
      valid == ValidMaterials(materials) /\ ValidViews(projected)
  IN  /\ Authoring /\ corpus # {}
      /\ views' = IF valid THEN projected ELSE views
      /\ status' = IF valid THEN "projected" ELSE "not projected"
      /\ UNCHANGED <<catalog, seed, installed, corpus, anchors, truth, stored>>

\* The evidence of the twins of route r exchanged in one view: what the routes say of the
\* one is now said of the other.
ExchangedRoute(r, view) ==
  [r EXCEPT !.completions =
     {[x EXCEPT !.evidence[view] = Other(r, x).evidence[view]] : x \in r.completions}]

Exchanged(r, view) ==
  LET routes == (views.routes \ {r}) \cup {ExchangedRoute(r, view)}
  IN  [views EXCEPT !.routes = routes, !.assignments = AssignmentsOf(routes)]

\* Views that pass their own validation although no completion shows them: a build that
\* paired panels and episodes wrongly would hand out these.
Mispair ==
  /\ Authoring /\ status = "projected"
  /\ views' \in {vs \in {Exchanged(r, view) : r \in views.routes, view \in ViewKinds \ SharedViews}
                : ValidViews(vs)}
  /\ status' = "mispaired"
  /\ UNCHANGED <<catalog, seed, installed, corpus, anchors, truth, stored>>

\* trust_anchor_for_manifest, for every registry of the views at hand: the adapter a
\* manifest names must be the installed one.
Pin ==
  LET valid == \A r \in views.routes : r.manifest.adapter = installed.adapter
  IN  /\ Authoring /\ views # NoViews
      /\ anchors' = IF valid THEN AnchorsFor(views) ELSE anchors
      /\ status' = IF valid THEN "pinned" ELSE "not pinned"
      /\ UNCHANGED <<catalog, seed, installed, corpus, views, truth, stored>>

\* Another version of the adapter or of the verifier is installed.
Upgrade(part) ==
  /\ Authoring /\ installed.adapter + installed.verifier < 2 + MaxUpgrades
  /\ installed' = [installed EXCEPT ![part] = @ + 1]
  /\ status' = "upgraded"
  /\ UNCHANGED <<catalog, seed, corpus, views, anchors, truth, stored>>

\* build_workspace100_truth
Authorable ==
  /\ Pinned
  /\ {p.id : p \in corpus} = {r.id : r \in views.routes}
  /\ \A r \in views.routes : Provenance(r) /\ Attributable(r) /\ Cardinality(CasesOf(r)) = 6
  /\ ValidTruth(AuthoredTruth)

Author ==
  LET valid == Authorable
  IN  /\ Authoring /\ corpus # {} /\ views # NoViews
      /\ truth' = IF valid THEN AuthoredTruth ELSE truth
      /\ status' = IF valid THEN "authored" ELSE "not authored"
      /\ UNCHANGED <<release, stored>>

\* Workspace100TruthSet.to_canonical_bytes: the records under their route, certificate and
\* truth roots.
Store ==
  /\ status = "authored"
  /\ file' = [truth |-> truth, seal |-> truth]
  /\ status' = "stored"
  /\ UNCHANGED <<release, truth, loaded, edit>>

\* Every digest of the file computed anew over what it now holds: each case is of the route of
\* its pair, if there is one.
RouteNamed(t, c) == IF \E r \in t.routes : r.id = c.pair THEN CHOOSE r \in t.routes : r.id = c.pair ELSE c.route
Resealed(t) ==
  LET vs == Reconstructed(t)
  IN  [t EXCEPT !.cases = {[c EXCEPT !.route = RouteNamed(t, c)] : c \in t.cases},
                !.assignmentRoot = AssignmentRoot(vs), !.evidenceRoot = vs.cases,
                !.projectionRoot = <<AssignmentRoot(vs), vs.cases>>]

\* A case c that is identified with one target, is of another view, or shows other probes.
WithTarget(c, family, witnesses) ==
  [c EXCEPT !.certificate.family = family, !.certificate.kind = "identified_singleton",
            !.certificate.ambiguity = {}, !.witnesses = witnesses]
WithView(c, view) == [c EXCEPT !.view = view, !.public.view = view]
WithProbes(c, v, id) ==
  [c EXCEPT !.evidence.probes = v, !.public.evidence.probes = v, !.certificate.evidence.probes = v, !.id = id]

\* A case with one field, of its own or of its certificate's, taken from another case; with
\* a target and its witness replaced; or with its view or its probes replaced throughout.
EditedCases(c) ==
  LET probed(v) == WithProbes(c, v, Opaque("wgc", [c.evidence EXCEPT !.probes = v]))
  IN  ({[c EXCEPT ![f] = d[f]] : f \in DOMAIN c, d \in truth.cases}
       \cup {[c EXCEPT !.certificate[f] = d.certificate[f]] : f \in DOMAIN c.certificate, d \in truth.cases}
       \cup {WithTarget(c, {{target[a]}}, {{a}}) : a \in Atoms}
       \cup {WithView(c, view) : view \in ViewKinds}
       \cup {probed(d.evidence.probes) : d \in truth.cases}) \ {c}

\* A source with one field taken from another source, or named the source of another snapshot.
EditedSources(x) ==
  {[x EXCEPT ![f] = y[f]] : f \in DOMAIN x, y \in SourcesIn(truth)}
  \cup {[x EXCEPT !.snapshot = record] : record \in Authored}

\* A route with one field taken from another route, one source changed, its anchor that of
\* another installation, or the evidence of its sources exchanged in one view.
EditedRoutes(r) ==
  ({[r EXCEPT ![f] = q[f]] : f \in DOMAIN r, q \in truth.routes}
   \cup (UNION {{[r EXCEPT !.sources = (@ \ {x}) \cup {y}] : y \in EditedSources(x)} : x \in r.sources})
   \cup {[r EXCEPT !.anchor[part] = n] : part \in {"adapter", "verifier"}, n \in 1 .. 1 + MaxUpgrades}
   \cup {[r EXCEPT !.sources = ExchangedRoute([completions |-> r.sources], view).completions] : view \in ViewKinds})
  \ {r}

\* One case, one route or the corpus root changed; the other roots are computed from the records.
OneRecordChanged ==
  (UNION {{[truth EXCEPT !.cases = (@ \ {c}) \cup {d}] : d \in EditedCases(c)} : c \in truth.cases})
  \cup (UNION {{[truth EXCEPT !.routes = (@ \ {r}) \cup {q}] : q \in EditedRoutes(r)} : r \in truth.routes})
  \cup {[truth EXCEPT !.corpusRoot = Corpus(s, c)] : s \in Seeds, c \in Catalogs}

\* All records of a pair changed alike: in one view the twins have changed places, in the
\* route, the assignments and the certificates.
TwinsExchanged(r, view) ==
  LET other(x) == Other([completions |-> r.sources], x)
      q == [r EXCEPT !.sources = ExchangedRoute([completions |-> r.sources], view).completions]
      swap(c) ==
        LET x == CHOOSE y \in r.sources : y.evidence[view] = c.evidence
        IN  [c EXCEPT !.episodes = {other(x).episode}, !.certificate.compatible = {other(x).commitment},
                      !.certificate.panels = {<<p[1], p[2], ~ p[3]>> : p \in @}]
      mine == {c \in truth.cases : c.pair = r.id /\ c.view = view}
  IN  [truth EXCEPT !.routes = (@ \ {r}) \cup {q}, !.cases = (@ \ mine) \cup {swap(c) : c \in mine}]

ChangeFile(to, how, resealed) ==
  /\ file' = IF resealed THEN [truth |-> Resealed(to), seal |-> Resealed(to)] ELSE [file EXCEPT !.truth = to]
  /\ edit' = how
  /\ UNCHANGED <<release, truth, loaded, status>>

AsStored == status = "stored" /\ edit = "none"
EditRecord ==
  AsStored /\ \E to \in OneRecordChanged, resealed \in BOOLEAN : ChangeFile(to, "record", resealed)
ExchangeTwins ==
  /\ AsStored
  /\ \E r \in truth.routes, view \in ViewKinds \ SharedViews :
       ChangeFile(TwinsExchanged(r, view), "exchange", TRUE)

\* _parse_truth_set: the records, then the three roots; nothing is replayed.
Accepted == file.seal = file.truth /\ ValidTruth(file.truth)

Load ==
  LET accepted == Accepted
  IN  /\ status = "stored"
      /\ loaded' = IF accepted THEN file.truth ELSE loaded
      /\ status' = IF accepted THEN "loaded" ELSE "not loaded"
      /\ UNCHANGED <<release, truth, file, edit>>

Over == status \in {"loaded", "not loaded"} /\ UNCHANGED vars

Next ==
  \/ \E with \in Seeds : Generate(with)
  \/ BuildViews
  \/ Mispair
  \/ Pin
  \/ \E part \in {"adapter", "verifier"} : Upgrade(part)
  \/ Author
  \/ Store
  \/ EditRecord
  \/ ExchangeTwins
  \/ Load
  \/ Over

Spec == Init /\ [][Next]_vars

-----------------------------------------------------------------------------
(* Properties *)

\* Every call leaves what it holds in shape: a corpus is valid for the catalog, views,
\* truth set and parsed truth pass their own validation, anchors are of installed versions.
TypeOK ==
  /\ status = "generated" => ValidCatalog(catalog) /\ ValidCorpus(corpus, catalog)
  /\ status \in {"projected", "mispaired"} => ValidViews(views)
  /\ \A a \in anchors : a.adapter <= installed.adapter /\ a.verifier <= installed.verifier
  /\ status = "authored" => ValidTruth(truth)
  /\ loaded # NoTruth => ValidTruth(loaded)

Shows(r, e) ==
  /\ e.baseline = Replay(r, {})
  /\ \A p \in DOMAIN e.probes : e.probes[p] = ProbeOf(r, p)
  /\ \A s \in DOMAIN e.replies : e.replies[s] = Replay(r, s)

\* The completions of the corpus that really show a record, and what repairs them.
Behind(e) == {x \in CompletionsOf(corpus) : x.commitment \in e.manifest.commitments /\ Shows(x.record, e)}
Repairs(x) == Minimal({s \in SUBSET Atoms : Success(x.record, s)})
FamilyBehind(x) == TargetFamily({s \in SUBSET Atoms : Success(x.record, s)}, target)

\* The completions a case is assigned to are those that really show it, and they are several
\* exactly when they differ in what repairs them.
Entitled(vs, c) ==
  LET behind == Behind(c.evidence)
  IN  /\ {a.episode : a \in AssignedTo(vs, c)} = {x.episode : x \in behind}
      /\ Cardinality(behind) > 1 <=> Cardinality({FamilyBehind(x) : x \in behind}) > 1

\* The evidence of a case tells the participant neither more nor less than it should: all
\* completions that show it are assigned to it, no other, and it is ambiguous only where
\* they need different repairs.
EvidenceEntitles == status = "projected" => \A c \in views.cases : Entitled(views, c)

\* What a case of a truth set says of its evidence is so of the sealed completions behind it.
Right(c) ==
  LET behind == Behind(c.evidence)
  IN  /\ c.episodes = {x.episode : x \in behind}
      /\ c.certificate.compatible = CommitmentsOf(behind)
      /\ c.certificate.kind # "ambiguous_worlds" =>
           \A x \in behind : c.certificate.family = FamilyBehind(x) /\ c.witnesses = Repairs(x)
      /\ c.certificate.kind = "ambiguous_worlds" =>
           \E x, y \in behind : FamilyBehind(x) # FamilyBehind(y)

\* The key is right whatever it was authored from: for every case of a truth set, the
\* episodes assigned to it and the completions certified as compatible are those whose
\* sealed sources show the evidence, and the verdict and the witnesses are true of each.
TruthIsTrue == status = "authored" => \A c \in truth.cases : Right(c)

\* A call is refused only when its arguments deserve it: a valid catalog generates under
\* every seed whose identifiers do not coincide, the corpus always projects, and a truth set
\* is authored from the views of the very corpus, pinned by the very installation.
Coincide(pairs) ==
  \/ \E p, q \in pairs : p # q /\ (p.id = q.id \/ p.task = q.task)
  \/ \E x, y \in CompletionsOf(pairs) : x # y /\ x.episode = y.episode
Matching ==
  /\ views = Project(Verified(corpus)) /\ anchors = AnchorsFor(views)
  /\ \A c, d \in views.cases : Opaque("wgc", c.evidence) = Opaque("wgc", d.evidence) => c = d
OnlyMismatchRefused ==
  /\ status = "not generated" =>
       ~ ValidCatalog(catalog) \/ Coincide(Corpus(seed, catalog))
  /\ status # "not projected"
  /\ status = "not pinned" => views # Project(Verified(corpus))
  /\ status = "not authored" => ~ Matching
  /\ status = "not loaded" => edit # "none"

\* What the records of a truth set say without their provenance, that is the snapshot digests
\* of the sources: nothing else in the file depends on those, nor on the corpus root.
Known(r) ==
  [r EXCEPT !.sources = {[episode |-> x.episode, commitment |-> x.commitment, evidence |-> x.evidence] : x \in @}]
Vouched(t) ==
  [routes |-> {Known(r) : r \in t.routes}, cases |-> {[c EXCEPT !.route = Known(@)] : c \in t.cases}]

\* The parser replays nothing.  Under the roots it was stored with, a truth set loads as it
\* was authored.  With all digests computed anew, a change of one case or one route still
\* reaches none of the labels, episodes, evidence, anchors and certificates: at most the
\* provenance has changed, unless the twins of a pair changed places in all records of a view.
LoadedAsAuthored ==
  status = "loaded" =>
    /\ file.seal = truth => loaded = truth
    /\ edit # "exchange" => Vouched(loaded) = Vouched(truth)

\* What the reference methods claim of a case, held against its part of the key.
Honest(c) ==
  LET says(m) == Predict(m, c.evidence)
  IN  /\ AcceptsRequest(c.evidence)
      /\ \A m \in Methods \ {"forced_environment"} :
           says(m) # Unknown =>
             says(m) = [kind |-> c.certificate.kind, family |-> c.certificate.family, witnesses |-> c.witnesses]
      /\ says("refresh_outcome") # Unknown <=> c.view = "refresh_receipt"

\* Each method reads every record, none but the one that is forced to answer names a target
\* the certificate does not, and the one that follows the refresh decides exactly the cases
\* that show one.
ReferenceMethodsHonest == status = "authored" => \A c \in truth.cases : Honest(c)
=============================================================================
