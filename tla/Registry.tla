------------------------------ MODULE Registry ------------------------------
(***************************************************************************)
(* CandidateRegistry (src/src/witnessgap/identifiability.py): the finite   *)
(* family of world completions an attribution is judged against.           *)
(*                                                                         *)
(*   build     validates a family and freezes it in a manifest             *)
(*   observe   extracts the evidence view of one registered world          *)
(*   attribute returns the strongest verdict the evidence licenses         *)
(*                                                                         *)
(* Evidence is a value that leaves the registry: it is stored, parsed back,*)
(* and submitted later, perhaps to a registry built since.  A client asks  *)
(* for more of the same world by observing it again, and the record it     *)
(* submits may also have been altered on the way (Alter).                  *)
(***************************************************************************)
EXTENDS Naturals, FiniteSets, RepairAlgebra

CONSTANTS
  World,       \* world identifiers; numbers, for their sort order
  Commitments, \* completion commitments: one per distinct exact completion
  Commitment,  \* the commitment of each world
  Atoms,       \* intervention atoms of the shared contract
  Targets, target,
  Probes, ProbeValues,
  Traces,      \* public traces
  Completions, \* the completions a commitment may stand for
  Families     \* the families of completions considered

Outcome == {"FAILURE", "SUCCESS"}
Results == [outcome : Outcome, trace : Traces]
Queries == (SUBSET Atoms) \ {{}}   \* an intervention observation is non-empty

ASSUME RegistryAssumption ==
  /\ World \subseteq Nat
  /\ IsFiniteSet(Atoms) /\ IsFiniteSet(Targets)
  /\ target \in [Atoms -> Targets]
  /\ Commitment \in [World -> Commitments]
  /\ Completions \subseteq
       [result : [SUBSET Atoms -> Results],   \* what replaying a subset shows
        probe : [Probes -> ProbeValues],
        contract : STRING,                    \* _family_contract
        undeclared : BOOLEAN]                 \* some replay reads an undeclared channel
  /\ Families \subseteq [Commitments -> Completions]

VARIABLES
  completion, \* what each commitment stands for
  registry,   \* the candidates of the registry; {} before the first build
  sealed,     \* the world the evidence was observed on
  evidence,   \* the evidence record at hand
  verdict,    \* attribute's answer to it
  genuine     \* history: the record at hand is what observe returned

vars == <<completion, registry, sealed, evidence, verdict, genuine>>

Of(w) == completion[Commitment[w]]
Result(w, s) == Of(w).result[s]

\* The profile enumerate_repair_panel gives a world (module Oracle).
Successes(w) == {s \in SUBSET Atoms : Result(w, s).outcome = "SUCCESS"}
Profile(w) == TargetFamily(Successes(w), target)

\* Mutant: the manifest lists the world identifiers.
ManifestOfNames(ws) == ws

\* RegistryManifest: it commits to the completions, not to the world IDs.
Manifest(ws) == {Commitment[w] : w \in ws}

NoEvidence == [manifest |-> {}, baseline |-> [outcome |-> "FAILURE", trace |-> "none"],
               probes |-> [p \in {} |-> 0], replies |-> [s \in {} |-> 0]]
NoVerdict == [kind |-> "none", family |-> {}, compatible |-> {}, left |-> 0, right |-> 0]

Kinds == {"none", "mismatch", "ambiguous_worlds", "no_repair", "identified_singleton",
          "identified_compound", "alternative_minimal_repairs"}
Identified == {"identified_singleton", "identified_compound", "alternative_minimal_repairs"}

IsEvidence(e) ==
  /\ e.manifest \subseteq Commitments
  /\ e.baseline \in Results
  /\ DOMAIN e.probes \subseteq Probes
  /\ \A p \in DOMAIN e.probes : e.probes[p] \in ProbeValues
  /\ DOMAIN e.replies \subseteq Queries
  /\ \A s \in DOMAIN e.replies : e.replies[s] \in Results

TypeOK ==
  /\ completion \in Families
  /\ registry \subseteq World
  /\ sealed \in World \cup {0}
  /\ evidence = NoEvidence \/ IsEvidence(evidence)
  /\ verdict.kind \in Kinds
  /\ verdict.family \subseteq SUBSET Targets
  /\ verdict.compatible \subseteq registry
  /\ genuine \in BOOLEAN

-----------------------------------------------------------------------------

Init ==
  /\ completion \in Families
  /\ registry = {}
  /\ sealed = 0
  /\ evidence = NoEvidence
  /\ verdict = NoVerdict
  /\ genuine = FALSE

\* _validate_world_family, _validated_panel and the uniqueness of commitments:
\* one contract, a failing baseline, no undeclared read, no completion twice.
WellFormed(ws) ==
  /\ ws # {}
  /\ \A v, w \in ws : Of(v).contract = Of(w).contract
  /\ \A w \in ws : Result(w, {}).outcome = "FAILURE" /\ ~ Of(w).undeclared
  /\ \A v, w \in ws : Commitment[v] = Commitment[w] => v = w

\* A new registry replaces the one in use; the evidence at hand is kept.
Build(ws) ==
  /\ WellFormed(ws)
  /\ registry' = ws
  /\ verdict' = NoVerdict
  /\ UNCHANGED <<completion, sealed, evidence, genuine>>

\* A malformed family is refused as a whole.
RefuseBuild(ws) ==
  /\ ~ WellFormed(ws)
  /\ UNCHANGED vars

\* The evidence view of world w: its baseline, the probes asked for and the
\* public results of the interventions asked for.
View(ws, w, asked, queries) ==
  [manifest |-> Manifest(ws), baseline |-> Result(w, {}),
   probes |-> [p \in asked |-> Of(w).probe[p]],
   replies |-> [s \in queries |-> Result(w, s)]]

Observe(w, asked, queries) ==
  /\ w \in registry
  /\ sealed' = w
  /\ evidence' = View(registry, w, asked, queries)
  /\ genuine' = TRUE
  /\ verdict' = NoVerdict
  /\ UNCHANGED <<completion, registry>>

\* One value of the record is replaced before it is submitted.
Alter ==
  /\ genuine
  /\ \/ \E p \in DOMAIN evidence.probes : \E v \in ProbeValues \ {evidence.probes[p]} :
          evidence' = [evidence EXCEPT !.probes[p] = v]
     \/ \E s \in DOMAIN evidence.replies : \E r \in Results \ {evidence.replies[s]} :
          evidence' = [evidence EXCEPT !.replies[s] = r]
     \/ \E r \in Results \ {evidence.baseline} : evidence' = [evidence EXCEPT !.baseline = r]
  /\ genuine' = FALSE
  /\ verdict' = NoVerdict
  /\ UNCHANGED <<completion, registry, sealed>>

\* Mutant: the replies are not compared.
CompatibleWithoutReplies(w, e) ==
  /\ Result(w, {}) = e.baseline
  /\ \A p \in DOMAIN e.probes : Of(w).probe[p] = e.probes[p]

\* Mutant: one matching reply is enough.
CompatibleWithAnyReply(w, e) ==
  /\ Result(w, {}) = e.baseline
  /\ \A p \in DOMAIN e.probes : Of(w).probe[p] = e.probes[p]
  /\ DOMAIN e.replies = {} \/ \E s \in DOMAIN e.replies : Result(w, s) = e.replies[s]

\* _is_compatible: the candidate reproduces every value of the record.
IsCompatible(w, e) ==
  /\ Result(w, {}) = e.baseline
  /\ \A p \in DOMAIN e.probes : Of(w).probe[p] = e.probes[p]
  /\ \A s \in DOMAIN e.replies : Result(w, s) = e.replies[s]

Compatible(e) == {w \in registry : IsCompatible(w, e)}

\* Mutant: evidence of another registry is accepted.
BoundToAny(e) == e.manifest \subseteq Commitments

Bound(e) == e.manifest = Manifest(registry)

Least(ws) == CHOOSE w \in ws : \A v \in ws : w <= v

\* Mutant: the first candidate speaks for all of them.
JudgeFirst(ws) ==
  LET family == Profile(Least(ws))
  IN  [kind |-> VerdictKind(family), family |-> family, compatible |-> ws,
       left |-> 0, right |-> 0]

\* Mutant: the second candidate is the twin, whatever its family.
JudgeNeighbour(ws) ==
  LET left == Least(ws)
  IN  IF \E w \in ws : Profile(w) # Profile(left)
      THEN [kind |-> "ambiguous_worlds", family |-> {}, compatible |-> ws,
            left |-> left, right |-> Least(ws \ {left})]
      ELSE [kind |-> VerdictKind(Profile(left)), family |-> Profile(left),
            compatible |-> ws, left |-> 0, right |-> 0]

\* The verdict over a non-empty set of compatible candidates.
Judge(ws) ==
  LET left == Least(ws)
      others == {w \in ws : Profile(w) # Profile(left)}
  IN  IF others # {}
      THEN [kind |-> "ambiguous_worlds", family |-> {}, compatible |-> ws,
            left |-> left, right |-> Least(others)]
      ELSE [kind |-> VerdictKind(Profile(left)), family |-> Profile(left),
            compatible |-> ws, left |-> 0, right |-> 0]

Attribute ==
  /\ registry # {} /\ sealed # 0
  /\ Bound(evidence)
  /\ Compatible(evidence) # {}
  /\ verdict' = Judge(Compatible(evidence))
  /\ UNCHANGED <<completion, registry, sealed, evidence, genuine>>

\* EvidenceMismatchError: bound to another manifest, or nothing matches.
RefuseEvidence ==
  /\ registry # {} /\ sealed # 0
  /\ ~ Bound(evidence) \/ Compatible(evidence) = {}
  /\ verdict' = [NoVerdict EXCEPT !.kind = "mismatch"]
  /\ UNCHANGED <<completion, registry, sealed, evidence, genuine>>

Next ==
  \/ \E ws \in SUBSET World : Build(ws) \/ RefuseBuild(ws)
  \/ \E w \in World, asked \in SUBSET Probes, queries \in SUBSET Queries :
       Observe(w, asked, queries)
  \/ Alter
  \/ Attribute
  \/ RefuseEvidence

Spec == Init /\ [][Next]_vars

-----------------------------------------------------------------------------
(* Properties *)

\* On genuine evidence the completion that produced it always stays
\* compatible, also when the registry was rebuilt in between: a verdict is
\* never about a family the truth is missing from.
TruthStaysCompatible ==
  genuine /\ verdict.kind \notin {"none", "mismatch"} =>
    Commitment[sealed] \in Manifest(verdict.compatible)

\* An identified verdict names the target family of the sealed world, and
\* no_repair is only said of a world that has no repair.
IdentifiedIsTrue ==
  genuine /\ verdict.kind \in Identified \cup {"no_repair"} =>
    verdict.family = Profile(sealed)

\* What a single identified target set claims causally: every repair of the
\* sealed world, minimal or not, acts on all of those targets.
IdentifiedTargetsNecessary ==
  genuine /\ verdict.kind \in {"identified_singleton", "identified_compound"} =>
    \A ts \in verdict.family, s \in Successes(sealed) : ts \subseteq TargetsOf(s, target)

\* An ambiguity names two different compatible worlds with different families.
AmbiguityIsReal ==
  verdict.kind = "ambiguous_worlds" =>
    /\ {verdict.left, verdict.right} \subseteq Compatible(evidence)
    /\ Profile(verdict.left) # Profile(verdict.right)

\* Asking for the whole replay panel always decides: outcomes of all subsets
\* determine the target family, so no twin can survive.
FullReplayDecides ==
  verdict.kind # "none" /\ DOMAIN evidence.replies = Queries =>
    verdict.kind # "ambiguous_worlds"

\* More evidence of the same world never widens what is compatible and never
\* takes back or changes an identified family.
Extends(e, f) ==
  /\ e.manifest = f.manifest
  /\ DOMAIN e.probes \subseteq DOMAIN f.probes
  /\ DOMAIN e.replies \subseteq DOMAIN f.replies
Settled(e, family) ==
  /\ Compatible(e) # {}
  /\ \A w \in Compatible(e) : Profile(w) = family
EvidenceOnlyNarrows ==
  [][genuine /\ genuine' /\ sealed' = sealed /\ registry' = registry
       /\ Bound(evidence) /\ Extends(evidence, evidence') =>
         /\ Compatible(evidence)' \subseteq Compatible(evidence)
         /\ \A w \in registry :
              Settled(evidence, Profile(w)) => Settled(evidence, Profile(w))']_vars
=============================================================================
