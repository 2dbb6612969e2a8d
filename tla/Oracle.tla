------------------------------- MODULE Oracle -------------------------------
(***************************************************************************)
(* enumerate_repair_panel (src/src/witnessgap/oracle.py): every subset of  *)
(* a world's intervention atoms is replayed twice on the same world        *)
(* object, smallest subsets first; disagreeing replays abort the search;   *)
(* the successful subsets then give the minimal witnesses and their        *)
(* target family.                                                          *)
(*                                                                         *)
(* The world is code the oracle calls.  It has a nominal outcome for every *)
(* subset, but a replay may glitch (answer something else) and may change  *)
(* what the world advertises as its atoms or its identifier.  At most      *)
(* MaxGlitches replays misbehave in one behaviour.                         *)
(***************************************************************************)
EXTENDS Naturals, Sequences, FiniteSets, RepairAlgebra

CONSTANTS
  Names,        \* intervention atom names; numbers, for their sort order
  Targets,      \* what an atom can act on (model.py: InterventionTarget)
  Targetings,   \* the assignments of targets to atoms a world may declare
  Declarations, \* the atom name tuples a world may declare
  MaxAtoms,     \* MAX_ATOMS
  MaxGlitches   \* bound: misbehaving replays per behaviour

ASSUME OracleAssumption ==
  /\ Names \subseteq Nat /\ IsFiniteSet(Names) /\ IsFiniteSet(Targets)
  /\ Declarations \subseteq Seq(Names)
  /\ Targetings \subseteq [Names -> Targets]
  /\ MaxAtoms \in Nat /\ MaxGlitches \in Nat

VARIABLES
  world,     \* what the world declares and how it nominally replays
  status,    \* where enumerate_repair_panel is, or how it ended
  first,     \* result of the first of the two replays of a subset
  receipts,  \* the receipts collected so far: replayed subset -> result
  advertised,\* "declared" while world.atoms and world.world_id read as at start
  glitches,  \* history: how many replays misbehaved
  panel      \* the published panel

vars == <<world, status, first, receipts, advertised, glitches, panel>>

Outcome == {"FAILURE", "SUCCESS"}

\* ReplayResult: an outcome and a public trace, which the oracle compares too.
Results == [outcome : Outcome, trace : {"nominal", "other"}]

Ended == {"published", "InvalidWorldError", "NonDeterministicWorldError"}

Worlds ==
  [names : Declarations, target : Targetings,
   outcome : [SUBSET Names -> Outcome]]

AtomNames == {world.names[i] : i \in DOMAIN world.names}
Subsets == SUBSET AtomNames
Nominal(w) == [outcome |-> world.outcome[w], trace |-> "nominal"]

NoPanel == [witnesses |-> {}, family |-> {}]
NoResult == [outcome |-> "FAILURE", trace |-> "other"]

TypeOK ==
  /\ world \in Worlds
  /\ status \in {"new", "first", "second"} \cup Ended
  /\ first \in Results
  /\ DOMAIN receipts \subseteq Subsets
  /\ \A w \in DOMAIN receipts : receipts[w] \in Results
  /\ advertised \in {"declared", "changed"}
  /\ glitches \in 0 .. MaxGlitches
  /\ panel \in [witnesses : SUBSET Subsets, family : SUBSET SUBSET Targets]

-----------------------------------------------------------------------------

\* The tuple of names is bounded, unique and sorted.
WellFormed(names) ==
  /\ Len(names) <= MaxAtoms
  /\ \A i, j \in DOMAIN names : i < j => names[i] < names[j]

Successes == {w \in DOMAIN receipts : receipts[w].outcome = "SUCCESS"}

\* Mutant: a success prunes its supersets.
PrunedRemaining ==
  {w \in Subsets \ DOMAIN receipts : \A s \in Successes : ~ s \subseteq w}

Remaining == Subsets \ DOMAIN receipts

\* combinations() yields every subset, by size.  The order within a size is
\* fixed and has no effect on the panel.
NextSubset ==
  CHOOSE w \in Remaining : \A v \in Remaining : Cardinality(w) <= Cardinality(v)

Init ==
  /\ world \in Worlds
  /\ status = "new"
  /\ first = NoResult
  /\ receipts = [w \in {} |-> NoResult]
  /\ advertised = "declared"
  /\ glitches = 0
  /\ panel = NoPanel

RejectAlgebra ==
  /\ status = "new"
  /\ ~ WellFormed(world.names)
  /\ status' = "InvalidWorldError"
  /\ UNCHANGED <<world, first, receipts, advertised, glitches, panel>>

AcceptAlgebra ==
  /\ status = "new"
  /\ WellFormed(world.names)
  /\ status' = "first"
  /\ UNCHANGED <<world, first, receipts, advertised, glitches, panel>>

\* world.replay(w) returns r and leaves the world advertising `after`.
Replays(w, r, after) ==
  /\ r \in Results
  /\ after \in {"declared", "changed"}
  /\ advertised' = after
  /\ IF r = Nominal(w) /\ after = advertised
     THEN UNCHANGED glitches
     ELSE glitches < MaxGlitches /\ glitches' = glitches + 1

FirstReplay(r, after) ==
  /\ status = "first"
  /\ Remaining # {}
  /\ Replays(NextSubset, r, after)
  /\ first' = r
  /\ status' = "second"
  /\ UNCHANGED <<world, receipts, panel>>

\* The repeated result differs: the whole search is abandoned.
ReplayDiverges(r, after) ==
  /\ status = "second"
  /\ Replays(NextSubset, r, after)
  /\ r # first
  /\ status' = "NonDeterministicWorldError"
  /\ UNCHANGED <<world, first, receipts, panel>>

\* Mutant: the second result is recorded without comparing it with the first.
ReplayUnchecked(r, after) ==
  /\ status = "second"
  /\ Replays(NextSubset, r, after)
  /\ receipts' = [w \in DOMAIN receipts \cup {NextSubset} |->
                    IF w = NextSubset THEN r ELSE receipts[w]]
  /\ status' = "first"
  /\ UNCHANGED <<world, first, panel>>

\* Mutant: the receipt is not kept, and the subset comes up again.
ReplayForgotten(r, after) ==
  /\ status = "second"
  /\ Replays(NextSubset, r, after)
  /\ r = first
  /\ status' = "first"
  /\ UNCHANGED <<world, first, receipts, panel>>

\* The repeated result agrees: the subset gets its receipt.  A successful
\* subset prunes nothing.
ReplayAgrees(r, after) ==
  /\ status = "second"
  /\ Replays(NextSubset, r, after)
  /\ r = first
  /\ receipts' = [w \in DOMAIN receipts \cup {NextSubset} |->
                    IF w = NextSubset THEN r ELSE receipts[w]]
  /\ status' = "first"
  /\ UNCHANGED <<world, first, panel>>

\* The unmodified episode must fail.
RejectBaseline ==
  /\ status = "first"
  /\ Remaining = {}
  /\ receipts[{}].outcome # "FAILURE"
  /\ status' = "InvalidWorldError"
  /\ UNCHANGED <<world, first, receipts, advertised, glitches, panel>>

\* world.atoms or world.world_id no longer reads as it did at the start.
RejectChangedWorld ==
  /\ status = "first"
  /\ Remaining = {}
  /\ receipts[{}].outcome = "FAILURE"
  /\ advertised # "declared"
  /\ status' = "NonDeterministicWorldError"
  /\ UNCHANGED <<world, first, receipts, advertised, glitches, panel>>

\* Mutant: the witnesses are published in place of what they act on.
PublishWitnesses ==
  /\ status = "first"
  /\ Remaining = {}
  /\ receipts[{}].outcome = "FAILURE"
  /\ advertised = "declared"
  /\ panel' = [witnesses |-> Minimal(Successes), family |-> Minimal(Successes)]
  /\ status' = "published"
  /\ UNCHANGED <<world, first, receipts, advertised, glitches>>

Publish ==
  /\ status = "first"
  /\ Remaining = {}
  /\ receipts[{}].outcome = "FAILURE"
  /\ advertised = "declared"
  /\ panel' = [witnesses |-> Minimal(Successes),
               family |-> TargetFamily(Successes, world.target)]
  /\ status' = "published"
  /\ UNCHANGED <<world, first, receipts, advertised, glitches>>

Done == status \in Ended /\ UNCHANGED vars

Replay ==
  \E r \in Results, after \in {"declared", "changed"} :
    \/ FirstReplay(r, after)
    \/ ReplayDiverges(r, after)
    \/ ReplayAgrees(r, after)

Next ==
  \/ RejectAlgebra
  \/ AcceptAlgebra
  \/ Replay
  \/ RejectBaseline
  \/ RejectChangedWorld
  \/ Publish
  \/ Done

\* The oracle is one sequential loop: it takes its next step whenever it has one.
Fairness == WF_vars(Next)

Spec == Init /\ [][Next]_vars /\ Fairness

-----------------------------------------------------------------------------
(* Properties *)

\* A world that never misbehaves gets exactly its own attribution profile, and
\* the panel holds the result of every subset: no success prunes a superset.
PanelIsExact ==
  status = "published" /\ glitches = 0 =>
    LET truth == {w \in Subsets : world.outcome[w] = "SUCCESS"}
    IN  /\ panel.witnesses = Minimal(truth)
        /\ panel.family = TargetFamily(truth, world.target)
        /\ \A w \in Subsets : w \in DOMAIN receipts /\ receipts[w] = Nominal(w)

\* Every repair the panel saw work is explained by it: it contains a
\* published minimal witness, and its targets include a published target set.
EveryRepairExplained ==
  status = "published" =>
    \A w \in Successes :
      /\ \E m \in panel.witnesses : m \subseteq w
      /\ \E ts \in panel.family : ts \subseteq TargetsOf(w, world.target)

\* Doing nothing is never published as a repair, and neither is a repair with
\* a smaller one inside: the family is an antichain of non-empty target sets,
\* each realised by a witness.
FamilyIsMinimal ==
  status = "published" =>
    /\ {} \notin panel.witnesses
    /\ \A w \in panel.witnesses, v \in Successes : v \subseteq w => v = w
    /\ \A s, t \in panel.family : s \subseteq t => s = t
    /\ \A ts \in panel.family :
         ts # {} /\ \E w \in panel.witnesses : ts = TargetsOf(w, world.target)

\* The published family says of the repairs that worked all there is to say and no more.
FamilyExplains == EveryRepairExplained /\ FamilyIsMinimal

\* One bad replay never reaches a receipt: the double replay means that a
\* wrong receipt took two misbehaving replays.
Wrong == {w \in DOMAIN receipts : receipts[w] # Nominal(w)}
NoSingleGlitchRecorded == glitches < 2 => Wrong = {}

\* The search always ends, in a panel or in one of its two errors.
SearchEnds == <>(status \in Ended)
=============================================================================
