------------------------------ MODULE Workspace ------------------------------
(***************************************************************************)
(* Workspace-100: the authored catalog (catalog.py, records.py), the twin  *)
(* completions generated from each authored task (generation.py) and what  *)
(* a completion does when it is run or probed (runtime.py).                *)
(*                                                                         *)
(* A tuple the code keeps in canonical order without repetition is a set.  *)
(* A digest is the value it is the digest of, so distinct values never     *)
(* collide; an identifier is a PREFIX of a digest and may (Opaque).  The   *)
(* template's own names for the two atoms, its channels, tools and         *)
(* terminals only rename, and displays stand or fall with the identifiers. *)
(***************************************************************************)
EXTENDS Naturals, FiniteSets, RepairAlgebra

CONSTANTS
  TemplateIds,
  PerTemplate,   \* authored variants of a template: ten in the release
  Catalogs,      \* what may be written in the catalog module
  Seeds,         \* release seeds
  Commit(_, _),  \* the commitment to a record under a seed's salt
  Opaque(_, _)   \* kind, digest -> identifier

Atoms == {"refresh", "repair"}
Targets == {"environment", "policy"}
target == [a \in Atoms |-> IF a = "refresh" THEN "environment" ELSE "policy"]
Probes == {"epoch", "owner"}

-----------------------------------------------------------------------------
(* The authored catalog: templates, each with two selectors, and variants. *)

ValidTemplate(t) == t.goal # t.alternate

\* Mutant: the epochs of a variant are not compared.
ValidVariantByIds(v) == v.intended # v.observed

ValidVariant(v) == v.intended # v.observed /\ v.reference # v.alternate

Concrete(v) == {v.intended, v.observed}
Epochs(v) == {v.reference, v.alternate}

\* _require_catalog_identifiers_unique
Unique(variants) ==
  \A v, w \in variants : v # w =>
    /\ v.subject # w.subject
    /\ Concrete(v) \cap Concrete(w) = {}
    /\ Epochs(v) \cap Epochs(w) = {}

\* validate_authored_catalog.  That the catalog is the one frozen by digest is one more
\* conjunct, which some valid catalog satisfies: here each of them may be that one.
ValidCatalog(c) ==
  /\ DOMAIN c.templates = TemplateIds
  /\ \A t \in TemplateIds :
       /\ ValidTemplate(c.templates[t])
       /\ Cardinality({v \in c.variants : v.template = t}) = PerTemplate
  /\ \A v \in c.variants : v.template \in TemplateIds /\ ValidVariant(v)
  /\ Unique(c.variants)

-----------------------------------------------------------------------------
(* Twin completions of one authored task. *)

Selectors(t) == {t.goal, t.alternate}

\* The resolver that finds the intended object, and the one that has lost it.
Reference(t, v) == [s \in Selectors(t) |-> IF s = t.goal THEN v.intended ELSE v.observed]
Outdated(t, v) == [s \in Selectors(t) |-> v.observed]

\* CompletionSourceRecord: the task declaration and the state it starts and refreshes to.
SourceRecord(t, v, selected, epoch, resolver) ==
  [variant |-> v, goal |-> t.goal, selected |-> selected, epoch |-> epoch,
   resolver |-> resolver, refreshEpoch |-> v.reference, refreshResolver |-> Reference(t, v)]

\* Asks for the right thing of an outdated resolver: refreshing the environment helps.
SelectorAligned(t, v) == SourceRecord(t, v, t.goal, v.alternate, Outdated(t, v))

\* Asks an up-to-date resolver for the wrong thing: repairing the policy helps.
ResolverAligned(t, v) == SourceRecord(t, v, t.alternate, v.reference, Reference(t, v))

Twins(t, v) == {SelectorAligned(t, v), ResolverAligned(t, v)}

\* _validate_source_resolver_contract
SourceContract(r) ==
  LET others == DOMAIN r.resolver \ {r.goal}
  IN  /\ r.variant.intended # r.variant.observed
      /\ DOMAIN r.resolver = DOMAIN r.refreshResolver /\ Cardinality(DOMAIN r.resolver) = 2
      /\ {r.goal, r.selected} \subseteq DOMAIN r.resolver
      /\ \A s \in DOMAIN r.resolver :
           {r.resolver[s], r.refreshResolver[s]} \subseteq Concrete(r.variant)
      /\ r.refreshResolver[r.goal] = r.variant.intended
      /\ \A s \in others : r.refreshResolver[s] = r.variant.observed
      /\ r.resolver[r.selected] = r.variant.observed
      /\ \/ r.selected = r.goal /\ r.epoch # r.refreshEpoch
         \/ /\ r.selected # r.goal /\ r.epoch = r.refreshEpoch
            /\ r.resolver[r.goal] = r.variant.intended

-----------------------------------------------------------------------------
(* Running a completion. *)

\* _state_after_interventions
StateAfter(r, s) ==
  [selected |-> IF "repair" \in s THEN r.goal ELSE r.selected,
   epoch |-> IF "refresh" \in s THEN r.refreshEpoch ELSE r.epoch,
   resolver |-> IF "refresh" \in s THEN r.refreshResolver ELSE r.resolver]

Resolved(r, s) == StateAfter(r, s).resolver[StateAfter(r, s).selected]
Success(r, s) == Resolved(r, s) = r.variant.intended

\* What the participant sees of a run: never the selector, the resolver or the epoch.
PublicTrace(r, s) ==
  [subject |-> r.variant.subject, result |-> Resolved(r, s), interventions |-> s,
   terminal |-> Success(r, s)]

\* Workspace100World.replay: a fresh single-use runner, its artifact recomputed and compared.
Replay(r, s) ==
  [outcome |-> IF Success(r, s) THEN "SUCCESS" ELSE "FAILURE", trace |-> PublicTrace(r, s)]

ProbeOf(r, p) == IF p = "epoch" THEN r.epoch ELSE r.variant.owner

-----------------------------------------------------------------------------
(* Generation from a seed. *)

\* construction_matrix: what the baseline, each intervention and both resolve to.
Matrix(r) == <<Resolved(r, {}), Resolved(r, {"refresh"}), Resolved(r, {"repair"}), Resolved(r, Atoms)>>

Shared(r) == <<r.variant, r.goal, r.refreshEpoch, r.refreshResolver>>

\* _validate_twin_construction
TwinConstruction(a, b) ==
  LET i == a.variant.intended
      o == a.variant.observed
  IN  /\ Shared(a) = Shared(b) /\ a # b
      /\ Matrix(a) = <<o, i, o, i>>
      /\ Matrix(b) = <<o, o, i, i>>

\* _seal_completion: the record under its salt, named by a prefix of its commitment.
Seal(seed, r) ==
  [episode |-> Opaque("wge", Commit(seed, r)), commitment |-> Commit(seed, r), record |-> r]

CommitmentsOf(completions) == {x.commitment : x \in completions}
PairId(commitments) == Opaque("wgp", commitments)
TaskId(v) == Opaque("wgt", v)

Pair(seed, t, v) ==
  LET sealed == {Seal(seed, r) : r \in Twins(t, v)}
  IN  [id |-> PairId(CommitmentsOf(sealed)), task |-> TaskId(v), template |-> v.template,
       completions |-> sealed]

Corpus(seed, c) == {Pair(seed, c.templates[v.template], v) : v \in c.variants}

CompletionsOf(pairs) == UNION {p.completions : p \in pairs}

\* GeneratedPair.validate: complementary twin shapes of the authored task.
ValidPair(p) ==
  /\ Cardinality(p.completions) = 2
  /\ \E x, y \in p.completions :
       /\ x.record.selected = x.record.goal /\ y.record.selected # y.record.goal
       /\ TwinConstruction(x.record, y.record)
  /\ \A x \in p.completions :
       x.episode = Opaque("wge", x.commitment) /\ SourceContract(x.record)
  /\ p.id = PairId(CommitmentsOf(p.completions))

\* _validate_pairs_match_authored_catalog and _validate_global_generation_uniqueness
ValidCorpus(corpus, c) ==
  /\ \A p \in corpus : ValidPair(p)
  /\ Cardinality(corpus) = Cardinality(c.variants)
  /\ \A p, q \in corpus : p.id = q.id \/ p.task = q.task => p = q
  /\ \A x, y \in CompletionsOf(corpus) :
       (x.episode = y.episode \/ x.commitment = y.commitment \/ x.record = y.record) => x = y

-----------------------------------------------------------------------------

Authored ==
  UNION {UNION {Twins(c.templates[v.template], v) : v \in c.variants} : c \in Catalogs}

\* Templates and variants are written down one by one.
ASSUME CatalogAssumption ==
  /\ IsFiniteSet(TemplateIds) /\ PerTemplate \in Nat
  /\ \A c \in Catalogs : IsFiniteSet(c.variants)

\* SHA-256 commitments do not collide, and they can be ordered; 0 stands for none where a
\* verdict names no twins.
ASSUME CommitAssumption ==
  /\ \A s \in Seeds, a \in Authored : Commit(s, a) \in Nat \ {0}
  /\ \A s, t \in Seeds, a, b \in Authored : Commit(s, a) = Commit(t, b) => s = t /\ a = b
=============================================================================
