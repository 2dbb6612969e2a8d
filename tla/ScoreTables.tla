----------------------------- MODULE ScoreTables -----------------------------
(***************************************************************************)
(* The arithmetic of src/src/witnessgap/workspace100/scoring.py: how one   *)
(* joined record is graded, how grades are counted into one table for      *)
(* every dimension of the report, the exact rates of a table, and the      *)
(* means of the template rates.  A table is indexed by its dimension: the  *)
(* canonical order in which the report lists its tables is left out.       *)
(***************************************************************************)
EXTENDS Naturals, Sequences, FiniteSets, FiniteSetsExt

CONSTANTS
  ViewList, TemplateList,   \* ViewKind and TemplateId, in their order
  AmbiguousViews,           \* the views whose truth is never identifiable
  CellSize,                 \* view -> cases of one template under that view
  Failures                  \* WorkerFailureKind

Views == Range(ViewList)
Templates == Range(TemplateList)

\* The dimension of a table that takes all views, or all templates.
All == "all"

ASSUME ScoreTablesAssumption ==
  /\ ViewList \in Seq(Views) /\ TemplateList \in Seq(Templates)
  /\ \A i, j \in DOMAIN ViewList : ViewList[i] = ViewList[j] => i = j
  /\ \A i, j \in DOMAIN TemplateList : TemplateList[i] = TemplateList[j] => i = j
  /\ ViewList # <<>> /\ TemplateList # <<>> /\ All \notin Views \cup Templates
  /\ AmbiguousViews \subseteq Views /\ CellSize \in [Views -> Nat \ {0}]
  /\ IsFiniteSet(Failures) /\ "none" \notin Failures

Sum(f) == MapThenSumSet(LAMBDA x : f[x], DOMAIN f)

\* The elements of a finite set in the order of a relation that orders them.
InOrder(S, before) ==
  LET place == [x \in S |-> Cardinality({y \in S : <<y, x>> \in before}) + 1]
  IN  [n \in 1 .. Cardinality(S) |-> CHOOSE x \in S : place[x] = n]

-----------------------------------------------------------------------------
(* Grading one record *)

AmbiguousCategories ==
  {"failed_ambiguous", "correct_abstention", "wrong_reason_abstention", "decisive_on_ambiguous"}
IdentifiableCategories ==
  {"failed_identifiable", "missed_identifiable", "exact_decisive", "wrong_witness", "wrong_target"}
FailedCategories == {"failed_ambiguous", "failed_identifiable"}
FalseCategories == {"wrong_witness", "wrong_target", "decisive_on_ambiguous"}
DecisiveCategories == FalseCategories \cup {"exact_decisive"}
Categories == AmbiguousCategories \cup IdentifiableCategories

\* What a worker run ends in: a normalised failure, or a claim.
Failed(f) == [status |-> "failed", failure |-> f]
Abstain(r) == [status |-> "claimed", failure |-> "none", kind |-> "unknown", reason |-> r]
Decide(t, w) ==
  [status |-> "claimed", failure |-> "none", kind |-> "decisive", target |-> t, witnesses |-> w]

\* Mutant: the witness is looked at before the target.
WitnessFirst(out, truth) ==
  CASE out.status = "failed" ->
         IF truth.ambiguous THEN "failed_ambiguous" ELSE "failed_identifiable"
    [] out.status = "claimed" /\ out.kind = "unknown" ->
         IF ~ truth.ambiguous THEN "missed_identifiable"
         ELSE IF out.reason = "ambiguous_worlds" THEN "correct_abstention"
         ELSE "wrong_reason_abstention"
    [] out.status = "claimed" /\ out.kind = "decisive" ->
         IF truth.ambiguous THEN "decisive_on_ambiguous"
         ELSE IF out.witnesses = truth.witnesses THEN "exact_decisive"
         ELSE IF out.target # truth.target THEN "wrong_target"
         ELSE "wrong_witness"

\* _classify_worker_run and _classify_participant_claim
Category(out, truth) ==
  CASE out.status = "failed" ->
         IF truth.ambiguous THEN "failed_ambiguous" ELSE "failed_identifiable"
    [] out.status = "claimed" /\ out.kind = "unknown" ->
         IF ~ truth.ambiguous THEN "missed_identifiable"
         ELSE IF out.reason = "ambiguous_worlds" THEN "correct_abstention"
         ELSE "wrong_reason_abstention"
    [] out.status = "claimed" /\ out.kind = "decisive" ->
         IF truth.ambiguous THEN "decisive_on_ambiguous"
         ELSE IF out.target # truth.target THEN "wrong_target"
         ELSE IF out.witnesses # truth.witnesses THEN "wrong_witness"
         ELSE "exact_decisive"

-----------------------------------------------------------------------------
(* Rates *)

\* ExactRatio(None, None)
Undefined == [numerator |-> 0, denominator |-> 0]

\* ExactRatio.from_fraction: reduced, or undefined at a zero denominator.
Ratio(n, d) ==
  LET divides(k, m) == m % k = 0
      gcd == Max({k \in 1 .. d : divides(k, n) /\ divides(k, d)})
  IN  IF d = 0 THEN Undefined ELSE [numerator |-> n \div gcd, denominator |-> d \div gcd]

Rate(n, d) == [numerator |-> n, denominator |-> d, ratio |-> Ratio(n, d)]

Total(counts, some) == Sum([c \in some |-> counts[c]])

\* Mutant: failed runs are left out of the class denominators.
MetricsOfAnswers(counts) ==
  LET n(some) == Total(counts, some \ FailedCategories)
  IN  [decisive_coverage         |-> Rate(n(DecisiveCategories), n(Categories)),
       false_certainty_risk      |-> Rate(n(FalseCategories), n(DecisiveCategories)),
       false_certainty_incidence |-> Rate(n(FalseCategories), n(Categories)),
       ambiguity_false_certainty |-> Rate(n({"decisive_on_ambiguous"}), n(AmbiguousCategories)),
       correct_abstention        |-> Rate(n({"correct_abstention"}), n(AmbiguousCategories)),
       exact_target_family       |-> Rate(n({"exact_decisive", "wrong_witness"}),
                                          n(IdentifiableCategories)),
       exact_minimal_witness     |-> Rate(n({"exact_decisive"}), n(IdentifiableCategories))]

\* Metrics.from_counts; the two metrics the protocol cannot observe are constants.
Metrics(counts) ==
  LET n(some) == Total(counts, some)
  IN  [decisive_coverage         |-> Rate(n(DecisiveCategories), n(Categories)),
       false_certainty_risk      |-> Rate(n(FalseCategories), n(DecisiveCategories)),
       false_certainty_incidence |-> Rate(n(FalseCategories), n(Categories)),
       ambiguity_false_certainty |-> Rate(n({"decisive_on_ambiguous"}), n(AmbiguousCategories)),
       correct_abstention        |-> Rate(n({"correct_abstention"}), n(AmbiguousCategories)),
       exact_target_family       |-> Rate(n({"exact_decisive", "wrong_witness"}),
                                          n(IdentifiableCategories)),
       exact_minimal_witness     |-> Rate(n({"exact_decisive"}), n(IdentifiableCategories))]

MetricNames ==
  {"decisive_coverage", "false_certainty_risk", "false_certainty_incidence",
   "ambiguity_false_certainty", "correct_abstention", "exact_target_family",
   "exact_minimal_witness"}

-----------------------------------------------------------------------------
(* Tables *)

Dimensions == (Views \cup {All}) \X (Templates \cup {All})
Cells == Views \X Templates
Cases(cells) == Sum([c \in cells |-> CellSize[c[1]]])

\* _matches_slice
Matches(cell, d) == d[1] \in {All, cell[1]} /\ d[2] \in {All, cell[2]}

\* _expected_slice_total
Expected(d) == Cases({c \in Cells : Matches(c, d)})

\* _build_score_slice; rows are records with a view, a template, a category and a failure.
Table(rows, d) ==
  LET selected == {i \in DOMAIN rows : Matches(<<rows[i].view, rows[i].template>>, d)}
      counts == [c \in Categories |-> Cardinality({i \in selected : rows[i].category = c})]
  IN  [counts   |-> counts,
       failures |-> [f \in Failures |-> Cardinality({i \in selected : rows[i].failure = f})],
       metrics  |-> Metrics(counts)]

Tables(rows) == [d \in Dimensions |-> Table(rows, d)]

\* ScoreSlice.validate
ValidTable(table, d) ==
  /\ Sum(table.failures) = Total(table.counts, FailedCategories)
  /\ table.metrics = Metrics(table.counts)
  /\ Total(table.counts, Categories) = Expected(d)

\* _validate_slice_additivity: every table is the sum of its parts.
Additive(tables) ==
  LET sums(whole, parts) ==
        /\ \A c \in Categories :
             tables[whole].counts[c] = Sum([p \in parts |-> tables[p].counts[c]])
        /\ \A f \in Failures :
             tables[whole].failures[f] = Sum([p \in parts |-> tables[p].failures[f]])
  IN  /\ sums(<<All, All>>, Views \X {All}) /\ sums(<<All, All>>, {All} \X Templates)
      /\ \A v \in Views : sums(<<v, All>>, {v} \X Templates)
      /\ \A t \in Templates : sums(<<All, t>>, Views \X {t})

ValidTables(tables) == (\A d \in Dimensions : ValidTable(tables[d], d)) /\ Additive(tables)

-----------------------------------------------------------------------------
(* Means over templates *)

\* The sum of two fractions, and of a family of ratios.
Plus(a, b) ==
  [numerator |-> a.numerator * b.denominator + b.numerator * a.denominator,
   denominator |-> a.denominator * b.denominator]
SumOf(ratios, some) ==
  MapThenFoldSet(Plus, [numerator |-> 0, denominator |-> 1], LAMBDA t : ratios[t],
                 LAMBDA s : CHOOSE t \in s : TRUE, some)

\* Mutant: an undefined rate counts as zero.
MeanOfAll(rates) ==
  LET defined == {t \in Templates : rates[t].ratio # Undefined}
      total == SumOf([t \in defined |-> rates[t].ratio], defined)
  IN  IF defined = {} THEN [defined |-> 0, ratio |-> Undefined]
      ELSE [defined |-> Cardinality(defined),
            ratio |-> Ratio(total.numerator, total.denominator * Cardinality(Templates))]

\* MacroRate.from_rates: the unweighted mean of the defined rates.
Mean(rates) ==
  LET defined == {t \in Templates : rates[t].ratio # Undefined}
      total == SumOf([t \in defined |-> rates[t].ratio], defined)
  IN  IF defined = {} THEN [defined |-> 0, ratio |-> Undefined]
      ELSE [defined |-> Cardinality(defined),
            ratio |-> Ratio(total.numerator, total.denominator * Cardinality(defined))]

\* _build_template_macros: one over all views, one for each view.
Macros(tables) ==
  [v \in Views \cup {All} |-> [m \in MetricNames |->
    Mean([t \in Templates |-> tables[<<v, t>>].metrics[m]])]]

-----------------------------------------------------------------------------
(* The ceiling: what the truth itself would score *)

\* _build_oracle_report: the row the truth's own answer would earn on a case.
CeilingRow(truth) ==
  [view |-> truth.view, template |-> truth.template, failure |-> "none",
   category |-> IF truth.ambiguous THEN "correct_abstention" ELSE "exact_decisive"]

\* OracleReport.validate
ValidCeiling(tables, macros) ==
  /\ ValidTables(tables)
  /\ macros = Macros(tables)
  /\ \A d \in Dimensions :
       LET under == {c \in Cells : Matches(c, d)}
           abstained == Cases({c \in under : c[1] \in AmbiguousViews})
       IN  /\ \A c \in Categories \ {"correct_abstention", "exact_decisive"} :
                tables[d].counts[c] = 0
           /\ Sum(tables[d].failures) = 0
           /\ tables[d].counts["correct_abstention"] = abstained
           /\ tables[d].counts["exact_decisive"] = Cases(under) - abstained
=============================================================================
