--------------------------- MODULE RepairAlgebra ---------------------------
(***************************************************************************)
(* The set algebra that turns the outcomes of all replays of one world     *)
(* into its attribution profile.  Both the search oracle (oracle.py) and   *)
(* the independent verifier (verifier.py) compute it, each with its own    *)
(* code, so the operators take everything they need as parameters.         *)
(*                                                                         *)
(* A witness is a set of intervention atoms, a target set is what a        *)
(* witness acts on, a target family is a set of target sets.               *)
(***************************************************************************)
EXTENDS Naturals, FiniteSets

\* Mutant: the smallest repairs only, as if no larger one could be minimal.
MinimalBySize(family) ==
  {w \in family : \A v \in family : Cardinality(w) <= Cardinality(v)}

\* The members of a family of sets none of whose proper subsets is in it.
\* A repair that works does not make its supersets work, so the family is
\* arbitrary: nothing may be concluded from one member about a larger one.
Minimal(family) ==
  {w \in family : \A v \in family : v \subseteq w => v = w}

\* What a witness acts on: the targets of its atoms.
TargetsOf(w, target) == {target[a] : a \in w}

\* Mutant: the projection is taken as it is.
UnminimisedFamily(successes, target) == {TargetsOf(w, target) : w \in Minimal(successes)}

\* Two minimal witnesses may act on comparable target sets, so the
\* projection has to be minimised again.
TargetFamily(successes, target) ==
  Minimal({TargetsOf(w, target) : w \in Minimal(successes)})

\* Mutant: one single-target repair is enough to call it identified.
HastyKind(family) ==
  LET single(set) == \E x \in set : set = {x}
  IN  IF family = {} THEN "no_repair"
      ELSE IF \E ts \in family : single(ts) THEN "identified_singleton"
      ELSE IF ~ single(family) THEN "alternative_minimal_repairs"
      ELSE "identified_compound"

\* The kind of verdict one target family licenses (docs/attribution-contract
\* names the four kinds; the empty family says that no declared repair works).
VerdictKind(family) ==
  LET single(set) == \E x \in set : set = {x}
  IN  IF family = {} THEN "no_repair"
      ELSE IF ~ single(family) THEN "alternative_minimal_repairs"
      ELSE IF \A ts \in family : single(ts) THEN "identified_singleton"
      ELSE "identified_compound"
=============================================================================
