------------------------------ MODULE MCScoring ------------------------------
(* Two methods on four cases, two views by two templates, whose evidence order is not     *)
(* the truth's: one method answers anything to every case, the other follows one of two   *)
(* patterns.  Then, on one claim set, every single fault of the pins and of the join.     *)
EXTENDS Scoring

MCViews == <<"trace_only", "refresh_receipt">>
MCTemplates == <<"t1", "t2">>
MCCellSize == [v \in {"trace_only", "refresh_receipt"} |-> 1]
Methods == <<"m2", "m1">>

Case(view, template, target, n) ==
  [view |-> view, template |-> template, ambiguous |-> view = "trace_only",
   target |-> target, witnesses |-> target, request |-> n]
TrueCases ==
  <<Case("refresh_receipt", "t1", "environment", 1), Case("trace_only", "t2", "none", 2),
    Case("trace_only", "t1", "none", 3), Case("refresh_receipt", "t2", "policy", 4)>>
TruthSet == [projection |-> "p", cases |-> TrueCases]
OtherTruth == [TruthSet EXCEPT !.cases[1].target = "policy", !.cases[1].witnesses = "policy"]
MCTruths == {OtherTruth}

Outcomes ==
  {Failed("timed_out"), Failed("invalid_claim"),
   Abstain("ambiguous_worlds"), Abstain("missing_state"),
   Decide("environment", "environment"), Decide("environment", "policy"), Decide("policy", "policy")}
Patterns ==
  {[e \in 1 .. 4 |-> Abstain("ambiguous_worlds")],
   <<Failed("timed_out"), Failed("invalid_claim"), Decide("policy", "policy"), Decide("policy", "policy")>>}

Run(m, e, out) == [method |-> m, evidence |-> e, request |-> e, outcome |-> out]
ClaimSet(first, second) ==
  [projection |-> "p", methods |-> Methods,
   runs |-> [i \in 1 .. 8 |-> IF i <= 4 THEN Run("m2", i, first[i]) ELSE Run("m1", i - 4, second[i - 4])]]

Pins(claims, truth) ==
  [claims |-> claims, truth |-> truth, projection |-> "p", methods |-> Methods,
   implementation |-> "scorer"]
Call(claims, truth) == [claims |-> claims, truth |-> truth, expected |-> Pins(claims, truth)]

Some == ClaimSet(<<Decide("environment", "environment"), Failed("timed_out"),
                   Abstain("ambiguous_worlds"), Decide("environment", "environment")>>,
                 CHOOSE p \in Patterns : TRUE)
Other == [Some EXCEPT !.runs[1].outcome = Failed("timed_out")]
Faulty ==
  LET good == Call(Some, TruthSet)
  IN  {[good EXCEPT !.expected.implementation = "other"], [good EXCEPT !.expected.claims = Other],
       [good EXCEPT !.expected.truth = OtherTruth], [good EXCEPT !.expected.methods = <<"m1", "m2">>],
       [good EXCEPT !.expected.projection = "q"], [good EXCEPT !.claims = Other],
       [good EXCEPT !.truth = OtherTruth],
       Call([Some EXCEPT !.projection = "q"], TruthSet),
       Call(Some, [TruthSet EXCEPT !.projection = "q"]),
       Call([Some EXCEPT !.runs[2].request = 9, !.runs[6].request = 9], TruthSet),
       Call([Some EXCEPT !.runs[4].evidence = 9, !.runs[8].evidence = 9], TruthSet),
       Call([Some EXCEPT !.runs[1].request = 4, !.runs[4].request = 1,
                         !.runs[5].request = 4, !.runs[8].request = 1], TruthSet)}

Answers == {Call(ClaimSet(f, p), TruthSet) : f \in [1 .. 4 -> Outcomes], p \in Patterns} \cup Faulty

\* The second method repeats one outcome on every case: each kind of row comes last once.
Files == {Call(ClaimSet(p, [e \in 1 .. 4 |-> out]), TruthSet) : p \in Patterns, out \in Outcomes}
=============================================================================
