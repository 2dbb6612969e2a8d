------------------------------ MODULE Verifier ------------------------------
(***************************************************************************)
(* verify_registry_attributions (src/src/witnessgap/verifier.py): from the *)
(* sealed sources of a whole committed family, the verifier derives one    *)
(* certificate for each evidence record of a batch.  It trusts no result   *)
(* of the search oracle: it decodes every source afresh for each of two    *)
(* executions of every intervention mask and for each of two reads of      *)
(* every requested probe, and rejects the whole batch on any disagreement. *)
(*                                                                         *)
(* Decoding and running a source is code the verifier calls.  It has a     *)
(* nominal behaviour, fixed by the commitment to the source; at most       *)
(* MaxGlitches executions or reads of one verification misbehave.          *)
(***************************************************************************)
EXTENDS Naturals, Sequences, FiniteSets, RepairAlgebra

CONSTANTS
  Commitments, \* completion commitments; numbers, for their sort order
  AtomList,    \* manifest.atoms, in order
  Targets, target,
  Probes, ProbeValues, Traces,
  Behaviours,  \* what a sealed source may do
  Scenarios,   \* what may be submitted for verification, and what is true then
  MaxAtoms,    \* VERIFIER_MAX_ATOMS
  MaxGlitches  \* bound: misbehaving executions and probe reads

Atoms == {AtomList[i] : i \in DOMAIN AtomList}
Outcome == {"FAILURE", "SUCCESS"}

\* ExecutionArtifact and its validated outcome.
Artifacts ==
  [trace : Traces, outcome : Outcome,
   fulfils : BOOLEAN,  \* the intervention log is the witness that was asked for
   declared : BOOLEAN] \* every state read is of a declared channel

ASSUME VerifierAssumption ==
  /\ Commitments \subseteq Nat
  /\ \A i, j \in DOMAIN AtomList : AtomList[i] = AtomList[j] => i = j
  /\ IsFiniteSet(Atoms) /\ IsFiniteSet(Targets)
  /\ target \in [Atoms -> Targets]
  /\ Behaviours \subseteq
       [decodes : BOOLEAN, \* as the world the manifest declares
        artifact : [SUBSET Atoms -> Artifacts], probe : [Probes -> ProbeValues]]
  /\ MaxGlitches \in Nat /\ MaxAtoms \in Nat

\* A scenario: the behaviour of every sealed source, the committed family the trust anchor
\* pins, whether the adapter that is installed is the one that the manifest names and reads
\* its source format, and a request: a manifest, source openings and a batch of evidence
\* records.  A record that names its origin shows what that completion really does.
Shown(artifact) == [outcome |-> artifact.outcome, trace |-> artifact.trace]
Honest(e, does) ==
  /\ e.origin \in e.manifest
  /\ e.baseline = Shown(does[e.origin].artifact[{}])
  /\ \A p \in DOMAIN e.probes : e.probes[p] = does[e.origin].probe[p]
  /\ \A s \in DOMAIN e.replies : e.replies[s] = Shown(does[e.origin].artifact[s])

ASSUME ScenarioAssumption ==
  \A s \in Scenarios :
    /\ s.behaviour \in [Commitments -> Behaviours] /\ s.anchor \subseteq Commitments
    /\ s.installed \in BOOLEAN
    /\ \A i \in DOMAIN s.openings : s.openings[i] \in Commitments
    /\ \A i \in DOMAIN s.batch : s.batch[i].origin # 0 => Honest(s.batch[i], s.behaviour)

VARIABLES
  given,        \* the scenario
  status,       \* where the verification is, or how it ended
  receipts,     \* commitment -> verified receipts: mask -> artifact
  panels,       \* commitment -> target family of its verified panel
  values,       \* (commitment, probe) -> verified value
  certificates, \* the certificates returned
  glitches      \* history: misbehaving executions and reads

vars == <<given, status, receipts, panels, values, certificates, glitches>>

behaviour == given.behaviour
anchor == given.anchor
batch == given.batch

\* range(1 << atom_count): the numbers of one bit per atom, each the function of its bits.
Masks == [DOMAIN AtomList -> {0, 1}]
Zero == [i \in DOMAIN AtomList |-> 0]

\* _witness_for_mask
Witness(mask) == {AtomList[i] : i \in {j \in DOMAIN AtomList : mask[j] = 1}}

\* other & mask == other
Covers(mask, other) == \A i \in DOMAIN AtomList : other[i] = 1 => mask[i] = 1

Requested == {p \in Probes : \E i \in DOMAIN batch : p \in DOMAIN batch[i].probes}
Reads == anchor \X Requested

TypeOK ==
  /\ given \in Scenarios
  /\ status \in {"new", "replay", "probe", "certified", "VerificationError"}
  /\ \A c \in DOMAIN receipts : \A m \in DOMAIN receipts[c] :
       c \in Commitments /\ m \in Masks /\ receipts[c][m] \in Artifacts
  /\ DOMAIN panels \subseteq anchor /\ \A c \in DOMAIN panels : panels[c] \subseteq SUBSET Targets
  /\ DOMAIN values \subseteq Reads /\ \A x \in DOMAIN values : values[x] \in ProbeValues
  /\ DOMAIN certificates \in {{}, DOMAIN batch}
  /\ glitches \in 0 .. MaxGlitches

Init ==
  /\ given \in Scenarios
  /\ status = "new"
  /\ receipts = [c \in anchor |-> [m \in {} |-> 0]]
  /\ panels = [c \in {} |-> {}]
  /\ values = [x \in {} |-> 0]
  /\ certificates = <<>>
  /\ glitches = 0

-----------------------------------------------------------------------------

Opened == {given.openings[i] : i \in DOMAIN given.openings}

\* _preflight_evidence: a record names declared probes and atoms only.
Preflighted(e) == DOMAIN e.probes \subseteq Probes /\ DOMAIN e.replies \subseteq SUBSET Atoms

\* Mutant: sources that are all committed are enough.
AcceptsSome ==
  /\ given.manifest = anchor
  /\ \A i \in DOMAIN batch : batch[i].manifest = anchor /\ Preflighted(batch[i])
  /\ given.installed
  /\ Opened # {} /\ Opened \subseteq anchor

\* The manifest is the anchored one, every record is bound to it and asks for what it
\* declares, its adapter is installed, and the openings are exactly the committed completions,
\* each once, in any order.
Acceptable ==
  /\ given.manifest = anchor
  /\ \A i \in DOMAIN batch : batch[i].manifest = anchor /\ Preflighted(batch[i])
  /\ given.installed
  /\ \A i, j \in DOMAIN given.openings : given.openings[i] = given.openings[j] => i = j
  /\ Opened = anchor

RefuseRequest ==
  /\ status = "new" /\ ~ Acceptable
  /\ status' = "VerificationError"
  /\ UNCHANGED <<given, receipts, panels, values, certificates, glitches>>

AcceptRequest ==
  /\ status = "new" /\ Acceptable
  /\ status' = "replay"
  /\ UNCHANGED <<given, receipts, panels, values, certificates, glitches>>

Least(set) == CHOOSE x \in set : \A y \in set : x <= y

\* Sources are taken in the order of their commitments, masks by their number of bits.
Source == Least(Opened \ DOMAIN panels)
NextMask ==
  LET left == Masks \ DOMAIN receipts[Source]
  IN  CHOOSE m \in left : \A n \in left : Cardinality(Witness(m)) <= Cardinality(Witness(n))

Misbehaves(actual, nominal) == IF actual = nominal THEN 0 ELSE 1

\* Two results of what should be the same computation.
Twice(first, second, nominal) ==
  /\ glitches' = glitches + Misbehaves(first, nominal) + Misbehaves(second, nominal)
  /\ glitches' <= MaxGlitches

\* Mutant: only the first of the two executions is looked at.
AcceptedOnce(first, second) == first.fulfils /\ first.declared

\* The two executions of one mask agree, did what was asked and read what is declared.
Accepted(first, second) == first = second /\ first.fulfils /\ first.declared

Replaying == status = "replay" /\ Opened # DOMAIN panels
Verifiable == behaviour[Source].decodes /\ Len(AtomList) <= MaxAtoms
Decoded == Replaying /\ Verifiable
Executing == Decoded /\ DOMAIN receipts[Source] # Masks

\* _decode_source: the adapter rejects the opening, or decodes a world that the manifest
\* does not declare; or the masks of the atoms are too many to run.
RejectSource ==
  /\ Replaying /\ ~ Verifiable
  /\ status' = "VerificationError"
  /\ UNCHANGED <<given, receipts, panels, values, certificates, glitches>>

Execute(first, second) ==
  /\ Executing
  /\ Accepted(first, second)
  /\ Twice(first, second, behaviour[Source].artifact[Witness(NextMask)])
  /\ receipts' = [receipts EXCEPT ![Source] =
                    [m \in DOMAIN @ \cup {NextMask} |-> IF m = NextMask THEN first ELSE @[m]]]
  /\ UNCHANGED <<given, status, panels, values, certificates>>

ExecutionDiverges(first, second) ==
  /\ Executing
  /\ ~ Accepted(first, second)
  /\ Twice(first, second, behaviour[Source].artifact[Witness(NextMask)])
  /\ status' = "VerificationError"
  /\ UNCHANGED <<given, receipts, panels, values, certificates>>

\* An adapter, runner or validator refuses: decoding, executing, or probing.
ExecutionFails ==
  /\ status \in {"replay", "probe"} /\ glitches < MaxGlitches
  /\ glitches' = glitches + 1
  /\ status' = "VerificationError"
  /\ UNCHANGED <<given, receipts, panels, values, certificates>>

SuccessfulMasks(c) == {m \in DOMAIN receipts[c] : receipts[c][m].outcome = "SUCCESS"}

\* Mutant: a mask is minimal if some other successful mask covers it.
MaximalMasks(c) ==
  {m \in SuccessfulMasks(c) : \A o \in SuccessfulMasks(c) : o # m => ~ Covers(o, m)}

MinimalMasks(c) ==
  {m \in SuccessfulMasks(c) : \A o \in SuccessfulMasks(c) : o # m => ~ Covers(m, o)}

\* Mutant: the minimal witnesses themselves.
PanelWitnesses(c) == {Witness(m) : m \in MinimalMasks(c)}

\* The antichain of the targets of the minimal masks.
PanelFamily(c) ==
  LET projected == {{target[a] : a \in Witness(m)} : m \in MinimalMasks(c)}
  IN  {ts \in projected : \A other \in projected : ~ (other \subseteq ts /\ other # ts)}

Replayed == Decoded /\ DOMAIN receipts[Source] = Masks

\* Mutant: an episode that passes unmodified is verified like any other.
VerifyAnyPanel ==
  /\ Replayed
  /\ panels' = [c \in DOMAIN panels \cup {Source} |->
                  IF c = Source THEN PanelFamily(Source) ELSE panels[c]]
  /\ UNCHANGED <<given, status, receipts, values, certificates, glitches>>

\* The unmodified episode must fail.
VerifyPanel ==
  /\ Replayed
  /\ receipts[Source][Zero].outcome = "FAILURE"
  /\ panels' = [c \in DOMAIN panels \cup {Source} |->
                  IF c = Source THEN PanelFamily(Source) ELSE panels[c]]
  /\ UNCHANGED <<given, status, receipts, values, certificates, glitches>>

RejectBaseline ==
  /\ Replayed
  /\ receipts[Source][Zero].outcome # "FAILURE"
  /\ status' = "VerificationError"
  /\ UNCHANGED <<given, receipts, panels, values, certificates, glitches>>

StartProbes ==
  /\ status = "replay" /\ Opened = DOMAIN panels
  /\ status' = "probe"
  /\ UNCHANGED <<given, receipts, panels, values, certificates, glitches>>

\* _verify_batch_probes: every probe some record of the batch shows, on every source,
\* each read twice from fresh decodes.  The order of the reads cannot be seen.
NextRead == CHOOSE x \in (Opened \X Requested) \ DOMAIN values : TRUE
Probing == status = "probe" /\ Opened \X Requested # DOMAIN values

Probe(first, second) ==
  /\ Probing
  /\ first = second
  /\ Twice(first, second, behaviour[NextRead[1]].probe[NextRead[2]])
  /\ values' = [x \in DOMAIN values \cup {NextRead} |->
                  IF x = NextRead THEN first ELSE values[x]]
  /\ UNCHANGED <<given, status, receipts, panels, certificates>>

ProbeDiverges(first, second) ==
  /\ Probing
  /\ first # second
  /\ Twice(first, second, behaviour[NextRead[1]].probe[NextRead[2]])
  /\ status' = "VerificationError"
  /\ UNCHANGED <<given, receipts, panels, values, certificates>>

\* _matches_verified_evidence
Matches(c, e) ==
  /\ Shown(receipts[c][Zero]) = e.baseline
  /\ \A p \in DOMAIN e.probes : values[<<c, p>>] = e.probes[p]
  /\ \A m \in Masks :
       Witness(m) \in DOMAIN e.replies => Shown(receipts[c][m]) = e.replies[Witness(m)]

CompatibleWith(e) == {c \in DOMAIN panels : Matches(c, e)}

\* The kind of a certificate, by the verifier's own tests of its family.
CertifiedKind(profile) ==
  LET several(set) == \E x, y \in set : x # y
  IN  IF profile = {} THEN "no_repair"
      ELSE IF several(profile) THEN "alternative_minimal_repairs"
      ELSE IF \E ts \in profile : several(ts) THEN "identified_compound"
      ELSE "identified_singleton"

\* Mutant: the pair starts from the last compatible completion.
DeriveFromLast(e) ==
  LET set == CompatibleWith(e)
      left == CHOOSE x \in set : \A y \in set : y <= x
      others == {c \in set : panels[c] # panels[left]}
  IN  IF others # {}
      THEN [kind |-> "ambiguous_worlds", family |-> {}, compatible |-> set,
            pair |-> <<left, Least(others)>>]
      ELSE [kind |-> CertifiedKind(panels[left]), family |-> panels[left],
            compatible |-> set, pair |-> <<>>]

\* _derive_verified_attribution
Derive(e) ==
  LET set == CompatibleWith(e)
      left == Least(set)
      others == {c \in set : panels[c] # panels[left]}
  IN  IF others # {}
      THEN [kind |-> "ambiguous_worlds", family |-> {}, compatible |-> set,
            pair |-> <<left, Least(others)>>]
      ELSE [kind |-> CertifiedKind(panels[left]), family |-> panels[left],
            compatible |-> set, pair |-> <<>>]

Reproduced == \A i \in DOMAIN batch : CompatibleWith(batch[i]) # {}
Derivable == status = "probe" /\ Opened \X Requested = DOMAIN values

Certify ==
  /\ Derivable
  /\ Reproduced
  /\ certificates' = [i \in DOMAIN batch |-> Derive(batch[i])]
  /\ status' = "certified"
  /\ UNCHANGED <<given, receipts, panels, values, glitches>>

\* One record that no completion reproduces takes the whole batch down.
RejectBatch ==
  /\ Derivable
  /\ ~ Reproduced
  /\ status' = "VerificationError"
  /\ UNCHANGED <<given, receipts, panels, values, certificates, glitches>>

Done == status \in {"certified", "VerificationError"} /\ UNCHANGED vars

Executions == \E r, s \in Artifacts : Execute(r, s) \/ ExecutionDiverges(r, s)
ProbeReads == \E v, w \in ProbeValues : Probe(v, w) \/ ProbeDiverges(v, w)

Next ==
  \/ RefuseRequest \/ AcceptRequest
  \/ RejectSource \/ Executions \/ ExecutionFails \/ VerifyPanel \/ RejectBaseline
  \/ StartProbes \/ ProbeReads
  \/ Certify \/ RejectBatch
  \/ Done

Spec == Init /\ [][Next]_vars

-----------------------------------------------------------------------------
(* Properties *)

TrueFamily(c) ==
  TargetFamily({s \in SUBSET Atoms : behaviour[c].artifact[s].outcome = "SUCCESS"}, target)

\* Unless two executions misbehave, the completion an evidence record came from is among
\* those its certificate calls compatible, and an identified family is that completion's.
CertificatesAreTrue ==
  status = "certified" /\ glitches < 2 =>
    \A i \in DOMAIN batch :
      LET e == batch[i]
      IN  e.origin # 0 =>
            /\ e.origin \in certificates[i].compatible
            /\ certificates[i].kind # "ambiguous_worlds" =>
                 certificates[i].family = TrueFamily(e.origin)

\* The registry's own verdict on record e over the anchored family (module Registry).
Seen(c) ==
  [result |-> [s \in SUBSET Atoms |-> Shown(behaviour[c].artifact[s])],
   probe |-> behaviour[c].probe, contract |-> "workspace", undeclared |-> FALSE]
Search(e) == INSTANCE Registry WITH
  World <- Commitments, Commitment <- [c \in Commitments |-> c], Completions <- {}, Families <- {},
  completion <- [c \in Commitments |-> Seen(c)], registry <- anchor, evidence <- e,
  sealed <- 0, verdict <- 0, genuine <- FALSE

\* The verifier's mask arithmetic and the registry's set search agree on every record of
\* every batch, in every order of the openings: same kind, family, compatible completions
\* and pair of an ambiguous verdict, the smaller commitment first.  Their tests for the kind
\* differ on the family of an episode that passes unmodified, so this rests on refusing it.
AgreesWithRegistry ==
  status = "certified" /\ glitches < 2 =>
    \A i \in DOMAIN batch :
      LET e == batch[i]
          verdict == Search(e)!Judge(Search(e)!Compatible(e))
      IN  /\ certificates[i].kind = verdict.kind
          /\ certificates[i].family = verdict.family
          /\ certificates[i].compatible = verdict.compatible
          /\ certificates[i].pair = IF verdict.kind = "ambiguous_worlds"
                                    THEN <<verdict.left, verdict.right>> ELSE <<>>

\* No certificate is issued over a part of the committed family: every committed source
\* was opened as the world the manifest declares and every mask of it executed, with
\* nothing undeclared read.
NothingWithheld ==
  status = "certified" =>
    \A c \in anchor :
      /\ c \in Opened /\ behaviour[c].decodes /\ DOMAIN receipts[c] = Masks
      /\ \A m \in Masks : receipts[c][m].fulfils /\ receipts[c][m].declared
=============================================================================
