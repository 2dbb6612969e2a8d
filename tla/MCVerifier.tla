----------------------------- MODULE MCVerifier -----------------------------
(* Two atoms on two targets, as many as the verifier takes; three sealed   *)
(* sources, families of two or three of them; openings complete in either  *)
(* order, short, doubled and foreign; the adapter installed or not.        *)
EXTENDS Verifier

MCCommitments == 1 .. 3
MCAtomList == <<"refresh", "repair">>
MCTargets == {"environment", "policy"}
MCTarget == [a \in Atoms |-> IF a = "refresh" THEN "environment" ELSE "policy"]
MCProbes == {"epoch"}
MCTraces == {"t", "u"}

Works(working, value) ==
  [decodes |-> TRUE, artifact |-> [s \in SUBSET Atoms |->
     [trace |-> "t", outcome |-> IF s \in working THEN "SUCCESS" ELSE "FAILURE",
      fulfils |-> TRUE, declared |-> TRUE]],
   probe |-> [p \in MCProbes |-> value]]

Env == Works({{"refresh"}, Atoms}, 0)
Policy == Works({{"repair"}}, 1)
Alternatives == Works({{"refresh"}, {"repair"}, Atoms}, 1)
Compound == Works({Atoms}, 0)
NoRepair == Works({}, 0)
Passing == Works({{}}, 0)
Undeclared == [Env EXCEPT !.artifact[Atoms].declared = FALSE]
Foreign == [Policy EXCEPT !.decodes = FALSE]
MCBehaviours == {Env, Policy, Alternatives, Compound, NoRepair, Passing, Undeclared, Foreign}
MCFamilies ==
  {<<Env, Policy, Compound>>, <<Compound, Alternatives, Env>>, <<NoRepair, Undeclared, Env>>, <<Env, Policy, Foreign>>,
   <<Alternatives, Passing, NoRepair>>}
MCAnchors == {{1, 2}, {1, 3}}
MCOpenings == {<<1, 2>>, <<2, 1>>, <<1, 3>>, <<3, 1>>, <<1>>, <<1, 1>>, <<2, 3>>}

\* What completion c of family f shows of itself, for a registry over `manifest`.
Record(f, c, manifest, asked, queries) ==
  [manifest |-> manifest, origin |-> c, baseline |-> Shown(f[c].artifact[{}]),
   probes |-> [p \in asked |-> f[c].probe[p]],
   replies |-> [s \in queries |-> Shown(f[c].artifact[s])]]
Altered(e) == [e EXCEPT !.origin = 0, !.baseline.trace = "u"]

\* Batches over family f and manifest m: honest records of every size in both orders, an
\* altered one after an honest one, one bound to another registry, one with a foreign probe.
Batches(f, m) ==
  LET high == CHOOSE c \in m : c # 1
      blind == Record(f, 1, m, {}, {})
      probed == Record(f, high, m, MCProbes, {})
      replayed == Record(f, high, m, {}, {{"refresh"}, {"repair"}})
  IN  {<<blind>>, <<probed, blind>>, <<blind, replayed>>, <<replayed, Altered(blind)>>,
       <<probed, [blind EXCEPT !.manifest = {1}]>>,
       <<[blind EXCEPT !.origin = 0, !.probes = [p \in {"colour"} |-> 0]]>>}

Submitted(f, a, manifests, openings, installed) ==
  [behaviour : {f}, anchor : {a}, manifest : manifests, openings : openings, installed : {installed},
   batch : Batches(f, a)]

MCScenarios ==
  (UNION {Submitted(f, a, MCAnchors, MCOpenings, TRUE) : f \in MCFamilies, a \in MCAnchors})
  \cup (UNION {Submitted(f, {1, 2}, {{1, 2}}, {<<1, 2>>}, FALSE) : f \in MCFamilies})
=============================================================================
