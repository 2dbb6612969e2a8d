# Witnessgap in TLA+

Witnessgap judges causal attributions of failed agent episodes.  A task has a
finite algebra of *intervention atoms*, each acting on one *target*; a *completion*
is one fully specified world the public evidence may have come from.  The
program enumerates every completion's repairs, decides what the evidence
identifies, certifies that decision independently, and evaluates participant
programs against it.  This directory models that program's behaviour, checks it
with TLC and proves what matters most with TLAPS.

Paths below are relative to `src/src/witnessgap/`.

## 1. Inventory

| Part | Source | State it keeps | Operations | Talks to |
|---|---|---|---|---|
| Repair oracle | `oracle.py`, `model.py` | receipts and successful subsets of one enumeration | `enumerate_repair_panel` | calls a world's `replay`, `atoms`, `world_id` |
| Candidate registry | `identifiability.py` | an immutable family of measured completions; evidence and verdicts are values the caller keeps | `build`, `observe`, `attribute`, evidence (de)serialisation | the oracle; whoever stores evidence between calls |
| Verifier | `verifier.py`, `trust.py`, `source.py`, `adapters.py` | panels and probe values of one invocation | `verify_registry_attributions`, `verify_attribution` | decodes and runs sealed sources through a trusted adapter; shares only records with the registry |
| Worker transport | `workspace100/worker.py` | one subprocess, three pipes, two buffers, a deadline | `LocalPythonProcessBackend.invoke`, `run_worker_once` | a participant process, its descendants, the kernel |
| Claim evaluation | `workspace100/claims.py` | records of a running evaluation; a closed claim set | `evaluate_…`, `build_…`, `load_verified_…` | backends (caller's objects), the worker transport, public views |
| Scoring | `workspace100/scoring.py` | none; a report of counts and exact ratios | score, re-verify a stored report | claim set, truth set |
| Truth set | `workspace100/truth.py` | none; a closed set of truths, and its file | author from corpus, views and anchors; store, parse | verifier, views, generation, trust anchors |
| Public views | `workspace100/views.py`, `evidence.py` | none; the public projection of a corpus | verify the panels, project, validate, (de)serialise | generation, registry, verifier |
| Catalog and generation | `workspace100/catalog.py`, `generation.py` | none; a frozen catalog, a corpus per seed | validate, generate | records |
| Runtime | `workspace100/runtime.py`, `worlds/workspace.py` | one run of the publication workflow | replay under interventions, probe | oracle, verifier |
| Baselines | `workspace100/baselines.py` | none | four decision rules, shipped as programs | worker transport |
| Records, encodings | `workspace100/records.py`, `canonical.py` | none | validation, canonical JSON, digests | all |

What is hard here.  The library is single-threaded, but it runs other people's
code (worlds, sealed sources, backends, participants) and compares several
runs of it; values are computed now and used later (evidence against a rebuilt
registry, an identity read before a call, limits shared with a backend); the
worker transport is concurrent with a process tree, the kernel and the clock; and
the two decision procedures (set search in the registry, bit masks in the verifier)
must agree on every outcome table.  A report repeats its rows as tables, means and roots,
which must stay one statement while it lies in a file.  The answer key is authored from
three artifacts that are made by separate calls (corpus, views, anchors) and nothing but its own
checks stops them from being of different seeds or installations.  `PROJECT.json` lists these hazards line by
line with the properties that cover each.

What makes each part correct:

* **Oracle** – the panel is the world's own; one misbehaving replay never gets into
  it; every repair that worked is covered by a published one; the target family
  is an antichain of non-empty sets.
* **Registry** – a verdict on genuine evidence is true of the sealed world,
  whatever was rebuilt in between; more evidence only narrows.
* **Verifier** – all or nothing; a certificate is the registry's own verdict.
* **Worker transport** – a claim is whole or it is no claim; blame follows what the
  participant did; nothing is left running; an answer always comes.
* **Evaluation** – no partial set, no trace of the schedule, no run by
  anything but the pinned backend, nothing correct refused.
* **Scoring** – every answer graded once, against its own case; failures stay in every
  denominator; undefined never zero; only faulty artifacts abort; a changed report is
  never returned.
* **Catalog, generation, runtime** – the twins of every valid task are what the benchmark
  says: alike without an intervention, each repaired by its own target and no other.
* **Views** – a case is assigned to exactly the completions that show it, and is
  ambiguous only where these need different repairs.
* **Truth** – whatever it was authored from, every case of the key is true of the sealed
  sources; a stored key loads as it was authored, and of a resealed one no label, episode,
  evidence or certificate can have changed alone; only mismatching arguments are refused.
* **Baselines** – no reference method but the forced one claims what the key denies.

## 2. Modules

| Module | Models | Composed with |
|---|---|---|
| `RepairAlgebra` | the pure operators: minimal subsets, target families, kinds of verdict | extended by `Oracle`, `Registry`, `Verifier`, `Workspace` |
| `Oracle` | one enumeration against a world that may misbehave | |
| `Registry` | build, observe, attribute; evidence that outlives its registry and is altered on the way | instantiated by `Verifier` as the reference verdict, by `Truth` as the search behind each case |
| `Verifier` | one batch verification, from request to certificates | `Search(e) == INSTANCE Registry` |
| `WorkerContract` | abstract: one process group, one answer, and the answer always comes | implemented by `WorkerExchange` |
| `WorkerExchange` | one invocation: parent loop, child, helper, kernel, clock, harness faults | `Contract == INSTANCE WorkerContract WITH …` |
| `Evaluation` | the three ways to a claim set, with backends that change under the evaluator | takes one invocation of `WorkerExchange` as one step |
| `ScoreTables` | the pure operators of scoring: grading, counts, exact rates, template means, the ceiling | extended by `Scoring` |
| `Scoring` | a report scored, stored, changed in its file and loaded | takes a claim set as `Evaluation` returns it |
| `Workspace` | the catalog, its validation, the twins of a task, what a completion does when run or probed, generation under a seed | extended by `Views` |
| `Views` | verified materials, the four public views, routes and assignments, the validation of a set of views | extended by `Baselines` |
| `Baselines` | what the four reference methods claim of a record | extended by `Truth` |
| `Truth` | the road of a release: generate, project, pin, author, store, load, with arguments that do not match and a file that is changed | `Search(p, e) == INSTANCE Registry` |
| `RepairAlgebraProofs`, `OracleProofs`, `RegistryProofs`, `EvaluationProofs`, `WorkerExchangeProofs`, `VerifierProofs`, `ScoringProofs`, `TruthProofs` | the theorems | extend the module they are about |
| `MC…` | constants for TLC | |

**Oracle.**  `algebra` and `world` are chosen in `Init`; `FirstReplay` and
`ReplayAgrees`/`ReplayDiverges` are the two calls of `world.replay` for the subset the
loop is at (`NextSubset`: by size, as `combinations` does); a replay that is not
the nominal one counts as a glitch.  `Publish` is everything after the loop.
Worlds that declare too many, repeated or unsorted atoms are refused by
`RejectAlgebra`.

**Registry.**  A completion is the table of what its replays and probes show.
`Build` is `CandidateRegistry.build` with the family validation; it may happen again at any
time, which is how evidence becomes stale.  `Observe` is `observe`; `Alter` stands for
evidence that was changed in storage and parsed again, so that it is bound to some manifest
but no longer genuine; `Attribute` and `RefuseEvidence` are the two ends of
`attribute`.  `genuine` and `sealed` are history: they say where the evidence came from.

**Verifier.**  The request is a scenario (manifest, openings, batch) together with
what each sealed source really does.  One action per pair of executions of a mask and
per pair of reads of a probe; the two results are chosen freely and every one that is not the
nominal one is charged to `glitches`.  `RejectSource` is a source that does not decode to the world
the manifest declares, or whose algebra has more atoms than `VERIFIER_MAX_ATOMS` allows; a request
for which no adapter is installed that the manifest names is refused with the others that are not
`Acceptable`.  A mask is the number of the code given by its bits, and `Covers`
compares two masks bit by bit; the registry's side works on sets.

**WorkerExchange.**  Bytes are counted.  The parent's program counter follows
`_exchange_with_process`: `loop` (the head of `while True`), `wait`, `select`, `handle` (the
batch of events), `reaping`, `aborting`, `cleanup`.  The participant is a *script*: how much it
means to write, whether that is a claim, when it reads.  It may crash at any
moment, fork a helper that inherits its pipes or not and leaves the group or not, or
close its outputs and go on.

**Evaluation.**  The program counter walks through the loop body of
`evaluate_workspace100_baselines`: recheck, bind (`run_worker_once` up to the call),
invoke, recheck, verify and append.  A backend presents its program and its own digest one after
the other, so a recheck and a bind are two steps each, the second from "half" a step.
Between any two steps a backend may change the identity it presents (`Swap`) or write to the
plan's limits (`WritePlan`): its code runs whenever it is read or called.  The reads of the
pinning are one step: a backend may start with any identity, so a change between two of them
leads nowhere that a change after the last does not.  `build` and `load` are single steps on
arguments from `Scenarios`.

**Scoring.**  The program counter follows `score_workspace100_claims`: bindings, one
`JoinMethod` for each round of the outer loop, `Tabulate` and `Average` (the tables and the
template means of every method and of the ceiling), `Construct` (the report's constructor,
which raises unless all its validation holds).  A load is `Parse` and then the same steps
again, then the comparison with the file.  `Change` stands for a file that is altered while
it is stored; its roots are made to fit unless the change is `unsealed`.  Tables
are functions of their dimension, so the order in which a report lists them is left out;
the order of its rows is kept.  A truth set is a function from evidence to its case, and
`TruthOrder` is the order of its own parser.  A call has passed the parsers of both of its artifacts,
with which `score` begins: `IsClaimSet` and `IsTruthSet` say what these guarantee.

**Workspace, Views, Baselines.**  These are the pure parts of the benchmark, one operator
per function.  A *record* (`SourceRecord`) is the state a completion starts from and the one a
refresh would give it; `Resolved(r, s)` runs the publication workflow under the interventions
`s`, and from it follow the replay, the construction matrix and every outcome table
downstream.  `Twins` makes the two completions of an authored task, `Seal` commits to
them under a seed, `Project` shows each in four views.  A tuple that the code keeps in canonical
order without repetition is a set; names of channels, tools and terminals, and the displays, only
rename and are left out; the split of a case is a function of its template and the
coverage digest one of the manifest, so neither is a field.

**Truth.**  One action per call: `Generate`, `BuildViews`, `Pin`, `Author`, `Store`, `Load`.  A
call that raises is the same action with its other outcome (`status` says which), so that
refusals are behaviour too.  Between the calls `Upgrade` installs another adapter or
verifier, `Generate` runs again under another seed, and `Mispair` replaces the views by some
that pass their own validation although no completion shows them.  `EditRecord`
changes one record of the stored truth, with or without new digests (`Resealed`): any field of
a case, of a certificate, of a route or of a source is taken from another record of the file, targets and
witnesses, views and probes are replaced together, a source is given another snapshot, a route the anchor of
another installation, the file the root of another corpus.  `ExchangeTwins` changes all records
of a pair in a view alike.  The sealed sources are replayed
nominally: `Verifier` has the executions that misbehave, and its run shows that certificates are
the registry's own verdicts, which is why `Certificate` asks `Registry!Judge`.  The
three roots of the stored set are one `seal`.  Digests are the values they are digests of;
identifiers are only prefixes of digests, and `Opaque` may give two values one identifier,
against which the code's uniqueness checks are what protects.

## 3. Runs

| Run | Asks | Bounds |
|---|---|---|
| `oracle` | Is a published panel right, whatever the outcome table, and does the search end? | 3 atoms on 2 targets (all 256 outcome tables, every targeting up to names), malformed declarations, 2 misbehaving replays |
| `registry` | Are verdicts true under rebuilds, partial and altered evidence? | 2 atoms, 1 probe, 7 families of 3 completions covering each verdict kind, a family error of each kind, and a completion under two names |
| `verifier` | Do certificates agree with the registry and with the truth? | 2 atoms, anchored families of 2 out of 3 sources, batches of up to 2 records, a source that decodes to another world, an adapter that is not installed, 7 choices of openings, 2 misbehaving executions |
| `exchange` | Claims, blame, what is left behind, and that the invocation implements `WorkerContract` | request, claim, pipe, chunk and limit of 2 bytes, 10 scripts, one helper |
| `patient_exchange` | Do parent and participant ever wait for each other? | pipes of 1 byte, so that both sides block as often as they can |
| `evaluation` | Bound, complete, schedule-free, pinned; nothing correct refused | 2 methods × 2 cases: all 24 orders and 4 malformed ones, 2 identity changes, every single-field error in a list or stored set |
| `scoring` | Is every answer graded against its own case, and does only a faulty artifact abort? | 2 methods, 4 cases (2 views × 2 templates, evidence order unlike the truth's): 7⁴ answers of one method × 2 patterns of the other; 12 single faults of pins and join |
| `score_files` | What gets past the parser, and past the rebuild? | 14 claim sets, 10 kinds of change, two roots to pin, two truths |
| `truth` | Is the answer key right whatever it is authored from, who is entitled to a case, what gets past its parser? | nine catalogs (a valid one, one for each rule), two templates with one task each, three seeds of which one makes pairs and cases coincide and one episodes, one upgrade, one record of the file changed in any field or the twins of a pair exchanged |

Why the bounds are enough.  Three atoms are the least with a non-monotone table
that has two minimal repairs, one of them compound, over a shared target; two
misbehaving replays are what it takes to get a wrong receipt in, so one more
changes nothing the properties distinguish (`OracleProofs` removes both bounds).
Two atoms already give every verdict kind to the registry, and its properties compare
at most two completions with the sealed one.  Limit, chunk, pipe
and claim of equal size let one chunk straddle the limit and let a cut output look like
a claim; a third stream state or a longer request repeats these cases.  Two methods and
two cases are the least where method order and evidence order differ from execution
order; two identity changes are the least that can cancel out.  Two views and two
templates with one case in each cell are the least with a mixed mean (one template defined,
the other not), an ambiguous and an identifiable class in every template, and tables that
add up along both dimensions; the frozen report has 4 × 5 cells of 10 or 20 cases, and nothing
in the arithmetic depends on the cell's size.  Two
tasks are the least that two identifiers, two epochs or two pairs can collide across, and every check of
`views.py` and `truth.py` relates at most two pairs; the second seed reverses the order
of the twins' commitments, which decides the order of ambiguous candidates; `TruthProofs`
removes the bounds from what the key says.  Seven outcomes are two failures, two reasons to
abstain and the three ways a decisive claim can be right or half right.

**Fairness.**  `Oracle` has weak fairness of its next step: the enumeration is
a loop that calls a terminating `replay`.  `WorkerExchange!Spec` has weak fairness of the
parent's own steps (its thread is scheduled) and of the clock; nothing is assumed of the
participant, its helper or the kernel, so `Implements` says that an answer comes even when
they all stop.  `PatientSpec` has weak fairness of the parent, of an ordinary step of the child
and of the helper, and none of the clock: under it a well-behaved
participant's claim arrives without the deadline's help.  `Registry`, `Verifier`,
`Evaluation`, `Scoring` and `Truth` are checked for safety only and state no fairness: their calls
happen when somebody makes them.

**What the runs show beyond the tests.**

* Oracle: `NoSingleGlitchRecorded` and `PanelIsExact` separate what the double replay
  buys (one misbehaviour is caught) from what it cannot (two that agree are not).
* Registry: `TruthStaysCompatible` holds across rebuilds only because evidence is bound to the
  whole manifest, not to names; `EvidenceOnlyNarrows` is a property of pairs of judgements.
* Verifier: `AgreesWithRegistry` compares two independent implementations of one
  definition on whole families: compatible completions, families, the two candidates an
  ambiguity names, and the kind, for which each side has its own tests (`VerdictKind`,
  `CertifiedKind`).  These differ on one family, `{{}}`, that of an episode that passes unmodified
  (`identifiability.py` would call it compound, `verifier.py` a singleton); they agree because
  the verifier refuses such an episode (`verifier.py:538`), and the mutant that does not is found.
* Exchange: `BlameIsEarned` is about the order of precedence in `_normalize_worker_exit`
  together with the order of checks in the loop; `ClaimIsWhole` about truncation and early EOF.
* Evaluation: `RanAsPinned` states exactly what two identity reads around a call
  guarantee: a backend that changes and stays changed is caught, one that changes back
  is not.  `RefusalIsEarned` with `ReturnedIsBound` says that a claim set is
  returned if and only if it is right, for each of the three calls.

* Scoring: `MacroAgrees` is a consequence of the frozen shape nobody states: because every
  template has the same cases in each class, the template mean of every rate over a class
  is the rate itself, and only `false_certainty_risk` can differ.  `CeilingHolds`
  compares tables that are built from different inputs.  `EditsCaught` with
  `LoadedIsRebuilt` separates what the parser finds alone from what only the rebuild can.
* Truth: `TruthIsTrue` holds whatever views and anchors authoring is given – of another
  seed, another installation, or mispaired – and `OnlyMismatchRefused` says that nothing
  else is refused.  `EvidenceEntitles` compares routes and assignments with what
  sealed sources really show.  `LoadedAsAuthored` marks the limit of the parser, which replays
  nothing.  Under its own roots a file loads as it was authored.  With all digests computed
  anew, a change of one record reaches no label, episode, evidence, anchor or certificate; but the snapshot
  digest of a source is only held against its form and its uniqueness (`truth.py:111`, `:703`,
  `:1341`) and the corpus root only against its form, so these may have changed.  So may
  a pair whose twins have changed places in every record of a view.  What binds all of this
  is the pinned root, not the content.  `ReferenceMethodsHonest` relates the programs the
  benchmark ships to its own key.

Each property has a mutant in `PROJECT.json`: an operator next to the definition it
distorts, commented `Mutant:`, under which TLC finds the property violated.

## 4. Proofs

`RepairAlgebraProofs` – over every finite set of atoms: the minimal members of a family of
finite sets cover it, `TargetFamily` is a realised antichain, and every successful subset acts on a
superset of a member.  Covering is by a least-cardinality argument.

`OracleProofs` – for every algebra, any `MaxAtoms` and any `MaxGlitches`.  The
inductive invariant `IInv` is `TypeOK` with `LoopInv`, what the loop has established so
far: a pair of replays is open only on a subset without a receipt, no receipt is wrong
while fewer than two replays misbehaved, an open pair is nominal while none did, and a published
panel is computed from a complete set of receipts.  The property itself says nothing of the
open pair, so the step that closes it could not be proved from the property alone.  From it: `OracleTypeOK`,
`OracleNoSingleGlitch`, `OracleExplainsEveryRepair`, `OracleFamilyIsMinimal` (together
`OracleFamilyExplains`), `OraclePanelIsExact`.

`RegistryProofs` – for every set of worlds, completions, atoms and probes.  `IInv` is `TypeOK`
with `ShowsSealed` (genuine evidence shows the sealed completion and is bound to a manifest
that has it) and `Derived` (a verdict is what `Judge` says of the compatible candidates of the
registry at hand).  The first is needed because a rebuild changes the registry but not the
evidence.  From it all six invariants of the run and the action property
`EvidenceOnlyNarrows` (`JudgeShape`, `VerdictMeaning` and `MoreEvidenceFewerCandidates` are the lemmas).

`EvaluationProofs` – for every list of methods, set of cases, call and number of identity
changes.  `IInv` is `TypeOK` with three parts.  `Progress`: the loop is at a pair of a
complete order, under the caller's limits.  `Attestation`: after the pinning a backend that is
not the pinned one has changed; a run whose second check is past is attested; and between
the call and the end of that check, a run by a stranger has one change behind it and can pass what is
still to be read of it only after another (`MustChangeAgain`): both parts before the first read, the
backend's digest before the second.  That last clause is why `RanAsPinned` needs its "or changed back"
and why it is not inductive alone.  `Checked`: a returned set passed both validations under the
caller's limits, from which `CheckedIsComplete` derives a good record for every pair.

The other two properties rest on the sort.  `SortPermutes` says that sorting lists the same
records again, because counting the smaller ones gives every record a place of its own
(`PlacesArePermutation`).  Pairs are numbered by two digits, the rank of the method and the number of
smaller cases (`PairsAreNumbered`), so a list that increases and has every pair is the
numbering itself (`IncreasingIsIdentity`) and every record of a sorted complete list stands at the
place of its pair (`OrderedIsPlaced`).  A second invariant, `Earned`, is inductive relative to
`IInv`: while nothing is refused, each record is a good one for its pair of the
order, and a steady backend that never changed has answered as its program does (`Sound`).  Each refusal is
then a check that `Sound` says can only fail for the stated reason.  From it
`EvaluationRefusalIsEarned` and `EvaluationScheduleInvisible`.  The proof showed that a
stored set had to be described more exactly: `Arranged` also says that each entry stands under its own
record's method, which the parser demands and the property had left out.

`WorkerExchangeProofs` – for every request, claim, pipe, chunk and limit and every set of
scripts, in every interleaving.  `IInv` is `TypeOK` with five parts.  `Phases`: where the child and
its helper are while the parent is somewhere; in particular nobody of the group runs once the parent
reaps.  `Bytes`: what was written is in a pipe, with its reader, or over a limit.  `Drained`:
an output that is no longer registered was read to its end, and one that is reported ready
has bytes or no writer left.  `Concluded`: what each kind of exit was concluded from.
`Answered`: the answer is the normalisation of that.  `ClaimIsWhole` alone is not inductive: that the bytes
of a claim are all the bytes of the child follows from `Bytes` and from the end of file in
`Drained`, long after the reads.  The only steps that take part of the state from the parent while it waits are those
of child and helper, which `ParentUndisturbed` treats once for all of them.  From it
`WorkerTypeOK`, `WorkerClaimIsWhole`, `WorkerBlameIsEarned`, `WorkerNothingLeftBehind` and
`WorkerImplementsContract`: every step is a step of `WorkerContract` under the mapping, or leaves its
variables alone.  That the answer comes is liveness and stays with TLC.

`VerifierProofs` – for every set of sources, algebra, batch and number of misbehaving executions.
`IInv` is `TypeOK` with `Request` (past the entry the openings are the committed family,
and the probes start when every source has its panel), `Established` (a panel stands on a
decoded source and all its masks, each receipt on an accepted execution) and
`ReceiptsAreNominal`.  From it `VerifierTypeOK`, `VerifierNothingWithheld` and
`VerifierReceiptsNominal`: it takes two misbehaving executions of one mask to get a wrong
receipt in.  `Concluded` adds what certificates are derived from: complete tables of an acceptable
request.  Masks and subsets of atoms correspond (`EverySubsetHasItsMask`, `MasksDiffer`,
`CoversIsInclusion`), so a panel of nominal receipts is the sealed world's family (`PanelIsTrue`) and a
record matches exactly the completions the registry's search finds (`MatchesMeaning`,
`SearchSeesBehaviour`); and an episode that fails unmodified is not repaired by nothing
(`NothingRepairsNothing`), without which the two kinds would not agree (`KindsAgree`).  From it `VerifierCertificatesAreTrue` and `VerifierAgreesWithRegistry`, down
to the pair an ambiguity names.

`ScoringProofs` – for every list of views, templates and methods, any cell sizes, failures, claim
sets, truths and kinds of change.  The invariant `SInv` has five parts.  `CallInv`: the arguments are
what their parsers guarantee.  `RowsInv`: the rows are exactly those of the first *k* methods, each
joined with every case (`RowsTo`, `JoinsUpTo`).  `BuildInv`: what is drafted and built is `Built`, a report
defined from the call alone.  `FileInv`: an untouched file is `Built` for its own truth; a changed
one does not parse, names other claims, or has a row its answer does not earn.  `LoadInv`: what parsing and the
comparison let through, and why a call was refused.  No property is inductive alone: each needs the file
or the report to be a function of the call.

Below it there are four layers.  Sums of counts are numbers of units (`SumCountsUnits`), so
a table counts rows (`TotalCounts`), adds up over its parts (`PartsAddUp`) and has the protocol's
denominators (`ClassCounts`): the tables of measured rows are valid (`TablesAreValid`), never beat the
ceiling (`NeverBeatsCeiling`), and the ceiling passes its own check (`BestIsCeiling`).  Sorting a set by a total order
lists it (`InOrderEnumerates`), so the rows of a method are one for each case (`MethodCases`) and all rows
stand in the report's order (`RowsInOrder`).  Hence the constructor never raises (`BuiltIsValid`) and a call
without a fault is not refused (`SoundIsBound`, `SoundJoins`).  Last, a lemma for each kind of change (`RowCaught`
to `OrderCaught`): that a regraded row moves a count of the whole (`CountMoves`) is what makes
stale tables visible.  From it `ScoringTypeOK`, `ScoringFairlyGraded`, `ScoringCeilingHolds`,
`ScoringFaultsOnlyAbort`, `ScoringEditsCaught` and `ScoringLoadedIsRebuilt`.

`ScoringMacroAgrees` is about the means.  A sum of fractions is a fold over a chosen order
of the templates, and what is true of it is shown subset by subset (`SubsetsGrow`, an
induction over a *set* of subsets, which needs no operator as a parameter): it is a fraction
(`SumOfIsFraction`) and, divided by the number of its terms, lies between two
of them.  Reduced fractions are equal when they are proportional, because the least denominator is
unique; so where each template has the same cases the mean is the rate of them all.

The proofs
needed the arguments described as their validators leave them: with a claim set whose requests
differ between methods, which `Workspace100ClaimSet.validate` refuses, nothing could be derived, and the
checked calls no longer include one.

`TruthProofs` – for every set of catalogs, every set of seeds, any number of templates and upgrades,
every commitment scheme that `CommitAssumption` allows and every naming `Opaque`, in catalogs with
finitely many variants (`CatalogAssumption`).  For every template
and task that are valid, the twins pass the generator's own check of the construction
(`TwinsConstructed`), the one is repaired exactly by the refresh and the other exactly by the
policy (`TwinFamilies`, by running the workflow on each subset), and they look alike without an
intervention (`TwinsLookAlike`).  `IInv` is
`Generated` (a corpus is `Corpus(s, catalog)` for some seed and passed its validation) with the
three properties, each of which speaks of the step that has just ended.  The work is in that
step.  For the key: pairs of a corpus are twins (`PairsAreTwins`), a commitment names one
completion (`CommitmentNamesOne`), so the registry's search over a pair finds exactly those whose
sealed source shows the evidence (`SearchSees`, `CompatibleAreBehind`), and `JudgeMeaning` and
`AuthoredCaseRight` read the verdict back; mispaired views are
excluded by the validation of the truth set that `Author` ends with.  For the views:
a completion that shows another's record has that record (`SameEvidence`), and of two with different
families several means several families.  From it `TruthKeyIsTrue`, `TruthEvidenceEntitles` and
`TruthMethodsHonest`.

`TruthTypeOK` needs `InShape`, which also bounds the installed versions.  `TruthLoadedAsAuthored` has its
own invariant, `Kept`: a stored file is the truth set that was authored, or that set with one record
changed and its digests left or computed anew, or one with twins exchanged.  What one record can
say and still get past the parser does not depend on how it was edited.  Every source has a case in
every view, since the assignments are complete (`SourceHasCase`), so what a case shows,
its episodes and its route are known from the records that did not change
(`EvidenceStays`, `FieldsStay`); a target changed with its witness fits its own record, and only
the number of cases with each target betrays it (`TargetStays`), as the number of cases with each
panels does for these (`PanelsStay`).  So any case in the place of another is that case
(`CaseStays`).  A route is repeated by the cases of its pair (`RouteFieldsStay`) and its sources are
what these cases say they show (`SourceStays`, `RouteStays`), but for the snapshots, which
are in no case.  Hence the property (`CaseChangeVouched`, `RouteChangeVouched`,
`RootChangeVouched`).

`TruthOnlyMismatchRefused` goes the other way: each validation passes on what deserves to pass.  Most of
them count a whole catalog, and each count is a correspondence, one to one, between what is counted and the
pairs, completions and views (`SameSize`, `EqualParts`).  A corpus is valid unless identifiers coincide
(`CorpusIsValid`), and its materials and views always are (`MaterialsAreValid`, `ViewsAreValid`): a record is
shared by exactly the completions its view does not tell apart (`EvidenceTells`), so each view and
each pair has its number of records (`RowCounted`, `ColumnCounted`, `SixRecords`).  The verdict on a record
is then known: the target of the one completion that shows it (`JudgedAlone`), or the twins,
named (`JudgedTogether`).  From it the key of the matching views and anchors is bound to them, gives back the views
it was made of (`ViewsRestored`), and has the counts a truth set is held to (`KeyIsCounted`); hence
`MatchedIsAuthorable`.  That an untouched file loads follows from `Kept`.  The proof needed two things
said of the arguments that the model had left open: `CatalogAssumption`, since the code's catalogs are
tuples, and that no commitment is the value that stands for *none* where a verdict names no twins.

Assumptions are those named in the modules (`OracleAssumption`…): finite sets of atoms and
targets; finite catalogs; a commitment that determines its completion – the collision resistance
of the digest – and is not *none*; in `EvaluationAssumption`, at least one method and one case, and that the
lists a scenario gives are finite sequences; in `ScoreTablesAssumption` and `ScoringAssumption`, views
and templates listed once, cells that are not empty, and calls whose artifacts have passed their own
parsers.  TLC evaluates each on the runs.

Every invariant and action property of the runs is the subject of a theorem.  Model-checked only
is what is beyond the prover's reach, liveness: `SearchEnds`, `ClaimComesThrough` and the fairness part of
`Implements`.

## 5. Not modelled, and the plan

Digests and canonical JSON are values that are equal exactly when what they commit to is.  Traces,
probe values and claims are members of small sets.  Reuse of process numbers by the
system (`worker.py:926`) and a world that changes its algebra and changes it back
(`oracle.py:111`) are outside the models; both are listed as hazards with the reason.

Of the benchmark, not modelled: the search of public text for forbidden words
(`views.py:1240`, `catalog.py:1134`), which needs the text itself; the spelling rules of single
fields and the wire formats (`records.py`, `canonical.py` and the parsers), which are functions
of bytes; the digest that freezes the catalog, since any valid catalog may be the frozen one;
the recording of state reads in the runtime; the rendering of the reference methods as
program text.  The release-notes world (`worlds/`) and the adapter registry have no state or
choice of their own: any outcome table stands for the first.  The file of the views is
not modelled: the truth set repeats all of it, and there its changes are.

What is left: the single-pair scorer (`score_workspace100_claim_run`), which would join `Scoring`.
