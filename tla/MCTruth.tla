------------------------------- MODULE MCTruth -------------------------------
EXTENDS Truth, Sequences

MCTemplateIds == {"publish", "invite"}

Templates == [t \in MCTemplateIds |->
  IF t = "publish" THEN [goal |-> "final", alternate |-> "draft"]
                   ELSE [goal |-> "editor", alternate |-> "viewer"]]
Blind == [Templates EXCEPT !["publish"].alternate = "final"]

Report == [template |-> "publish", subject |-> "report", owner |-> "ana", intended |-> "r2",
           observed |-> "r1", reference |-> "june", alternate |-> "may"]
Guest == [template |-> "invite", subject |-> "guest", owner |-> "ana", intended |-> "g2",
          observed |-> "g1", reference |-> "spring", alternate |-> "winter"]

\* The valid catalog, and one for each rule a catalog can break.
Sound == [templates |-> Templates, variants |-> {Report, Guest}]
With(v) == [Sound EXCEPT !.variants = {Report, v}]
Flawed == <<[Guest EXCEPT !.observed = "g2"], [Guest EXCEPT !.alternate = "spring"],
            [Guest EXCEPT !.subject = "report"], [Guest EXCEPT !.intended = "r1"],
            [Guest EXCEPT !.reference = "may"], [Guest EXCEPT !.template = "publish"]>>
MCCatalogs ==
  {Sound, [Sound EXCEPT !.templates = Blind], [Sound EXCEPT !.variants = {Report}]}
  \cup {With(Flawed[i]) : i \in DOMAIN Flawed}

\* A commitment is a number: the seed's hundred and the place of the record, counted from
\* above under "t", so that its twins are in the opposite order.
Variants == <<Report, Guest>> \o Flawed
Flag(condition, weight) == IF condition THEN weight ELSE 0
Place(r) ==
  8 * (CHOOSE i \in DOMAIN Variants : Variants[i] = r.variant)
    + Flag(Cardinality(DOMAIN r.resolver) = 1, 4) + Flag(r.selected = r.goal, 2) + Flag(r.epoch = r.refreshEpoch, 1)

MCSeeds == {"s", "t", "u"}
MCCommit(s, r) ==
  CASE s = "s" -> 100 + Place(r) [] s = "t" -> 299 - Place(r) [] OTHER -> 300 + Place(r)

\* The pairs of "t" have the identifiers of those of "s", and its cases that differ in their
\* probes only have one identifier; under "u" two episodes have one.
MCOpaque(kind, d) ==
  CASE kind = "wge" /\ d = MCCommit("u", SelectorAligned(Templates["publish"], Report)) ->
         MCCommit("u", ResolverAligned(Templates["invite"], Guest))
    [] kind = "wgp" /\ d \subseteq 200 .. 299 -> {399 - x : x \in d}
    [] kind = "wgc" /\ d.manifest.commitments \subseteq 200 .. 299 -> [d EXCEPT !.probes = [p \in {} |-> 0]]
    [] OTHER -> d
=============================================================================
