----------------------------- MODULE MCRegistry -----------------------------
(* Two atoms on two targets, one probe, three completions chosen from       *)
(* worlds of every verdict kind and of each kind of family error.  World 4  *)
(* is a second identifier for the completion of world 1.                    *)
EXTENDS Registry

MCWorld == 1 .. 4
MCCommitments == 1 .. 3
MCCommitment == <<1, 2, 3, 1>>
MCAtoms == {"refresh", "repair"}
MCTargets == {"environment", "policy"}
MCTarget == [a \in MCAtoms |-> IF a = "refresh" THEN "environment" ELSE "policy"]
MCProbes == {"epoch"}
MCTraces == {"t", "u"}

\* A well-formed completion whose successful subsets are those of `working`.
Works(working, value, trace) ==
  [result |-> [s \in SUBSET MCAtoms |->
                 [outcome |-> IF s \in working THEN "SUCCESS" ELSE "FAILURE",
                  trace |-> IF s = {} THEN "t" ELSE trace]],
   probe |-> [p \in MCProbes |-> value], contract |-> "workspace", undeclared |-> FALSE]

Both == {"refresh", "repair"}
Env(v) == Works({{"refresh"}, Both}, v, "t")
Policy(v) == Works({{"repair"}, Both}, v, "t")
NotMonotone == Works({{"refresh"}}, 1, "u")
Compound(v) == Works({Both}, v, "t")
Alternatives == Works({{"refresh"}, {"repair"}, Both}, 0, "t")
NoRepair == Works({}, 1, "t")
Passing == Works({{}, Both}, 0, "t")
Undeclared == [Compound(1) EXCEPT !.undeclared = TRUE]
OtherTask == [Policy(0) EXCEPT !.contract = "other"]

MCCompletions ==
  {Env(0), Env(1), Policy(0), Policy(1), NotMonotone, Compound(0), Compound(1),
   Alternatives, NoRepair, Passing, Undeclared, OtherTask}
MCFamilies ==
  { <<Env(0), Policy(1), Compound(0)>>, <<Env(0), Env(1), Policy(0)>>,
    <<Alternatives, Compound(0), NoRepair>>, <<Env(1), NotMonotone, Alternatives>>,
    <<NoRepair, Policy(0), Policy(1)>>, <<Env(0), OtherTask, Passing>>,
    <<Undeclared, Compound(1), NotMonotone>> }
=============================================================================
