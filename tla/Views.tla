-------------------------------- MODULE Views --------------------------------
(***************************************************************************)
(* Public evidence views (views.py): every completion is shown in four     *)
(* views, from its verified panel and probes alone.  Twins that cannot be  *)
(* told apart in a view yield one and the same evidence record, which is   *)
(* then one case for both.  Routes and assignments are the private record  *)
(* of which completion is behind which case.                               *)
(***************************************************************************)
EXTENDS Workspace

ViewKinds == {"trace_only", "owner_probe", "epoch_probe", "refresh_receipt"}
SharedViews == {"trace_only", "owner_probe"}

ProbesShown(view) == CASE view = "owner_probe" -> {"owner"} [] view = "epoch_probe" -> {"epoch"} [] OTHER -> {}
RepliesShown(view) == IF view = "refresh_receipt" THEN {{"refresh"}} ELSE {}

\* RegistryManifest of a pair under the installed adapter.  Atoms, probes, channels and the
\* other contracts are the template's.
Manifest(p, adapter) ==
  [task |-> p.task, template |-> p.template, adapter |-> adapter,
   commitments |-> CommitmentsOf(p.completions)]

-----------------------------------------------------------------------------
(* Materials: what the verifier establishes of a pair. *)

\* verify_source_panel: the replay of every subset, nominal here (module Verifier has the
\* executions that misbehave).
Panel(r) == [s \in SUBSET Atoms |-> Replay(r, s)]

SuccessesIn(panel) == {s \in SUBSET Atoms : panel[s].outcome = "SUCCESS"}
Witnesses(panel) == Minimal(SuccessesIn(panel))
FamilyOf(panel) == TargetFamily(SuccessesIn(panel), target)

CompletionMaterial(x) ==
  [episode |-> x.episode, commitment |-> x.commitment, snapshot |-> x.record,
   panel |-> Panel(x.record), probes |-> [p \in Probes |-> ProbeOf(x.record, p)]]

Material(p, adapter) ==
  [id |-> p.id, task |-> p.task, template |-> p.template, manifest |-> Manifest(p, adapter),
   completions |-> {CompletionMaterial(x) : x \in p.completions}]

Materials(corpus, adapter) == {Material(p, adapter) : p \in corpus}

\* _validate_panel, with the identities of VerifiedCompletionMaterial and VerifiedPairMaterial.
ValidMaterial(m) ==
  /\ \A x \in m.completions :
       /\ x.episode = Opaque("wge", x.commitment)
       /\ x.panel[{}].outcome = "FAILURE"
       /\ \A s \in SUBSET Atoms : x.panel[s].trace.interventions = s
  /\ m.task = m.manifest.task /\ m.template = m.manifest.template
  /\ CommitmentsOf(m.completions) = m.manifest.commitments
  /\ m.id = PairId(m.manifest.commitments)

\* _validate_twin_material: the twins share a failing baseline and the owner, differ in the
\* epoch, and each is repaired by its own target, also beside the other one.
ValidTwin(m) ==
  \E x, y \in m.completions :
    /\ x.panel[{}] = y.panel[{}] /\ x.panel[{}].outcome = "FAILURE"
    /\ x.probes["owner"] = y.probes["owner"] /\ x.probes["epoch"] # y.probes["epoch"]
    /\ FamilyOf(x.panel) = {{"environment"}} /\ SuccessesIn(x.panel) = {{"refresh"}, Atoms}
    /\ FamilyOf(y.panel) = {{"policy"}} /\ SuccessesIn(y.panel) = {{"repair"}, Atoms}

CompletionCount == 2 * PerTemplate * Cardinality(TemplateIds)

\* _validate_material_collection and _validate_projection_materials
ValidMaterials(materials) ==
  /\ \A m \in materials :
       ValidMaterial(m) /\ ValidTwin(m) /\ Cardinality(m.completions) = 2
  /\ \A m, n \in materials : m.id = n.id \/ m.task = n.task => m = n
  /\ \A x, y \in CompletionsOf(materials) :
       (x.episode = y.episode \/ x.commitment = y.commitment \/ x.snapshot = y.snapshot) => x = y
  /\ Cardinality(CompletionsOf(materials)) = CompletionCount
  /\ \A t \in TemplateIds : Cardinality({m \in materials : m.template = t}) = PerTemplate

-----------------------------------------------------------------------------
(* Projection. *)

Other(m, x) == CHOOSE y \in m.completions : y # x

\* Mutant: the probes are paired with the panels of the other twin.
ProbesOfOther(m, x, view) ==
  [manifest |-> m.manifest, baseline |-> x.panel[{}],
   probes |-> [p \in ProbesShown(view) |-> Other(m, x).probes[p]],
   replies |-> [s \in RepliesShown(view) |-> x.panel[s]]]

\* _project_evidence: the registry's observation (Registry!View) of one completion.
ProjectEvidence(m, x, view) ==
  [manifest |-> m.manifest, baseline |-> x.panel[{}],
   probes |-> [p \in ProbesShown(view) |-> x.probes[p]],
   replies |-> [s \in RepliesShown(view) |-> x.panel[s]]]

EvidenceOf(m, x) == [view \in ViewKinds |-> ProjectEvidence(m, x, view)]

\* PublicEvidenceCase: what is published about one distinct evidence record.
Case(m, view, e) == [template |-> m.template, view |-> view, evidence |-> e]

Assignment(route, x, view, e) ==
  [pair |-> route.id, task |-> route.manifest.task, episode |-> x.episode,
   template |-> route.template, view |-> view, evidence |-> e]

CompletionRoute(m, x) ==
  [episode |-> x.episode, commitment |-> x.commitment, snapshot |-> x.snapshot,
   evidence |-> EvidenceOf(m, x)]

Route(m) ==
  [id |-> m.id, template |-> m.template, manifest |-> m.manifest,
   completions |-> {CompletionRoute(m, x) : x \in m.completions}]

\* The assignments that a set of routes spells out.
AssignmentsOf(routes) ==
  UNION {{Assignment(r, x, view, x.evidence[view]) : x \in r.completions, view \in ViewKinds}
         : r \in routes}

\* _project_verified_materials: one case for each distinct evidence record.
Project(materials) ==
  LET routes == {Route(m) : m \in materials}
  IN  [routes |-> routes,
       assignments |-> AssignmentsOf(routes),
       cases |-> UNION {{Case(m, view, ProjectEvidence(m, x, view)) : x \in m.completions, view \in ViewKinds}
                        : m \in materials}]

-----------------------------------------------------------------------------
(* Validation of a set of views, wherever it comes from. *)

\* _validate_case_view: a failing baseline and exactly the observations of the view.
ValidCase(c) ==
  /\ c.evidence.baseline.outcome = "FAILURE"
  /\ DOMAIN c.evidence.probes = ProbesShown(c.view)
  /\ DOMAIN c.evidence.replies = RepliesShown(c.view)

\* _PairRoute and _CompletionRoute
ValidRoute(r) ==
  /\ r.template = r.manifest.template
  /\ Cardinality(r.completions) = 2
  /\ CommitmentsOf(r.completions) = r.manifest.commitments
  /\ r.id = PairId(r.manifest.commitments)
  /\ \A x \in r.completions :
       /\ x.episode = Opaque("wge", x.commitment)
       /\ \A v, w \in ViewKinds : x.evidence[v] = x.evidence[w] => v = w
  /\ \A x, y \in r.completions : x.snapshot = y.snapshot => x = y

\* _routing_indexes
Bijective(routes) ==
  /\ \A r, q \in routes : r.id = q.id \/ r.manifest.task = q.manifest.task => r = q
  /\ \A r, q \in routes : \A x \in r.completions, y \in q.completions :
       x.episode = y.episode => r = q /\ x = y

\* _assignment_join_indexes: an assignment agrees with its case and with its routes.
Joined(a, views) ==
  \E c \in views.cases, r \in views.routes : \E x \in r.completions :
    /\ a = Assignment(r, x, a.view, c.evidence) /\ a.evidence = x.evidence[a.view]
    /\ c.template = r.template /\ c.view = a.view
    /\ c.evidence.manifest = r.manifest

AssignedTo(views, c) == {a \in views.assignments : a.evidence = c.evidence}

\* _validate_case_assignment_multiplicity
Multiplicity(views, c) ==
  LET assigned == AssignedTo(views, c)
  IN  /\ \A a, b \in assigned : a.pair = b.pair /\ a.task = b.task
      /\ Cardinality(assigned) = IF c.view \in SharedViews THEN 2 ELSE 1

\* _validate_episode_assignments: every routed completion once in every view.
EverywhereOnce(views) ==
  \A r \in views.routes, view \in ViewKinds : \A x \in r.completions :
    Cardinality({a \in views.assignments : a.episode = x.episode /\ a.view = view}) = 1

\* _validate_evidence_view_counts
Counted(views) ==
  LET per == PerTemplate * Cardinality(TemplateIds)
  IN  /\ Cardinality(views.routes) = per
      /\ Cardinality(views.assignments) = 8 * per
      /\ \A t \in TemplateIds, view \in ViewKinds :
           Cardinality({c \in views.cases : c.template = t /\ c.view = view}) =
             IF view \in SharedViews THEN PerTemplate ELSE 2 * PerTemplate
      /\ \A r \in views.routes :
           Cardinality({a.evidence : a \in {b \in views.assignments : b.pair = r.id}}) = 6

\* Workspace100EvidenceViews.validate
ValidViews(views) ==
  /\ \A r \in views.routes : ValidRoute(r)
  /\ \A c \in views.cases : ValidCase(c)
  /\ \A c, d \in views.cases : c.evidence = d.evidence => c = d
  /\ Bijective(views.routes)
  /\ \A a \in views.assignments : Joined(a, views)
  /\ \A c \in views.cases : Multiplicity(views, c)
  /\ EverywhereOnce(views)
  /\ Counted(views)
=============================================================================
