------------------------------- MODULE Scoring -------------------------------
(***************************************************************************)
(* The report of src/src/witnessgap/workspace100/scoring.py.               *)
(*   score  score_workspace100_claims joins a claim set with the truth,    *)
(*          under bindings the caller pinned, and builds a report;         *)
(*   load   load_verified_workspace100_score_report takes a stored report, *)
(*          parses it, and rebuilds it from the claim set and the truth.   *)
(* Here a report is scored, stored, perhaps changed while it is stored,    *)
(* and loaded, possibly against another truth.                             *)
(*                                                                         *)
(* A digest of some content stands for that content: two are equal when    *)
(* what they commit to is.  Both artifacts of a call have passed their own *)
(* parsers, which score begins with: IsClaimSet and IsTruthSet.            *)
(***************************************************************************)
EXTENDS ScoreTables

CONSTANTS
  Installed,    \* digest of the installed scorer
  MethodCount, CaseCount,
  Calls,        \* calls of score: [claims, truth, expected]
  Truths,       \* truth sets a later load may be given
  Changes       \* kinds of change to a stored report

Position(list, x) == CHOOSE i \in DOMAIN list : list[i] = x
MethodsOf(claims) == Range(claims.methods)

\* A normalised failure, or a claim.
IsOutcome(out) ==
  \/ out.status = "failed" /\ out.failure \in Failures /\ out = Failed(out.failure)
  \/ out.status = "claimed" /\ out.kind = "unknown" /\ out = Abstain(out.reason)
  \/ out.status = "claimed" /\ out.kind = "decisive" /\ out = Decide(out.target, out.witnesses)

\* Workspace100ClaimSet.validate: runs in the order of methods and evidence, every method on
\* the same evidence, one request for each.
IsClaimSet(c) ==
  LET before(r, s) == \/ Position(c.methods, r.method) < Position(c.methods, s.method)
                      \/ r.method = s.method /\ r.evidence < s.evidence
      evidence(m) == {r.evidence : r \in {s \in Range(c.runs) : s.method = m}}
  IN  /\ c.methods \in [1 .. MethodCount -> MethodsOf(c)]
      /\ \A i, j \in DOMAIN c.methods : c.methods[i] = c.methods[j] => i = j
      /\ c.runs \in [1 .. MethodCount * CaseCount -> Range(c.runs)]
      /\ \A r \in Range(c.runs) :
           r.method \in MethodsOf(c) /\ r.evidence \in Nat /\ IsOutcome(r.outcome)
      /\ \A i, j \in DOMAIN c.runs : i < j => before(c.runs[i], c.runs[j])
      /\ \A m, n \in MethodsOf(c) : evidence(m) = evidence(n)
      /\ \A r, s \in Range(c.runs) : r.evidence = s.evidence <=> r.request = s.request

\* Workspace100TruthSet.validate: the cases of each view and template, ambiguous by view.
IsTruthSet(t) ==
  /\ IsFiniteSet(DOMAIN t.cases) /\ DOMAIN t.cases \subseteq Nat
  /\ \A e \in DOMAIN t.cases :
       LET own == t.cases[e]
       IN  own.view \in Views /\ own.template \in Templates
           /\ own.ambiguous = (own.view \in AmbiguousViews)
  /\ \A e, f \in DOMAIN t.cases : t.cases[e] = t.cases[f] => e = f
  /\ \A c \in Cells :
       Cardinality({e \in DOMAIN t.cases : <<t.cases[e].view, t.cases[e].template>> = c}) = CellSize[c[1]]

IsCall(c) ==
  LET want == c.expected
  IN  /\ c = [claims |-> c.claims, truth |-> c.truth, expected |-> want]
      /\ want = [claims |-> want.claims, truth |-> want.truth, projection |-> want.projection,
                 methods |-> want.methods, implementation |-> want.implementation]
      /\ IsClaimSet(c.claims) /\ IsTruthSet(c.truth)

ASSUME ScoringAssumption ==
  /\ MethodCount \in Nat \ {0} /\ CaseCount = Cases(Cells)
  /\ \A c \in Calls : IsCall(c)
  /\ \A t \in Truths : IsTruthSet(t)
  /\ Changes \subseteq {"row", "tables", "table", "macro", "order", "truth", "ceiling", "roots",
                        "unsealed", "rewrite"}

VARIABLES
  call,     \* the arguments: claim set, truth, expected bindings
  entry,    \* the call being served: score or load
  pc,       \* its next step, or how it ended
  rows,     \* scored runs so far
  draft,    \* the report under construction, or None
  report,   \* the report the scorer built last, or None
  stored,   \* the file: [content, roots], or None
  wanted,   \* expected_report_root, or None
  edit      \* history: how the stored file was changed

vars == <<call, entry, pc, rows, draft, report, stored, wanted, edit>>

None == [none |-> TRUE]
Claims == call.claims
Truth == call.truth.cases

\* The truth's own order: view, template, evidence digest.
TruthBefore(a, b) ==
  LET place(e) == <<Position(ViewList, Truth[e].view), Position(TemplateList, Truth[e].template), e>>
      p == place(a)
      q == place(b)
  IN  \E i \in 1 .. 3 : p[i] < q[i] /\ \A j \in 1 .. i - 1 : p[j] = q[j]

TruthOrder ==
  InOrder(DOMAIN Truth, {p \in (DOMAIN Truth) \X (DOMAIN Truth) : TruthBefore(p[1], p[2])})

-----------------------------------------------------------------------------
(* Scoring *)

\* Mutant: the truth is not compared with its pin.
BoundToClaims ==
  LET want == call.expected
      keys == {<<r.method, r.evidence>> : r \in Range(Claims.runs)}
  IN  /\ want.implementation = Installed
      /\ <<Claims, Claims.projection, Claims.methods>> = <<want.claims, want.projection, want.methods>>
      /\ Cardinality(DOMAIN Truth) = CaseCount
      /\ Cardinality(keys) = MethodCount * CaseCount

\* score_workspace100_claims up to the join: _verify_score_source_bindings, unique keys.
Bound ==
  LET want == call.expected
      keys == {<<r.method, r.evidence>> : r \in Range(Claims.runs)}
  IN  /\ want.implementation = Installed
      /\ <<Claims, Claims.projection, Claims.methods>> = <<want.claims, want.projection, want.methods>>
      /\ <<call.truth, call.truth.projection>> = <<want.truth, want.projection>>
      /\ Cardinality(DOMAIN Truth) = CaseCount
      /\ Cardinality(keys) = MethodCount * CaseCount

Covered(m, e) == \E r \in Range(Claims.runs) : r.method = m /\ r.evidence = e

\* Mutant: the run at the place of the case in the truth's order.
RunAtPlace(m, e) ==
  Claims.runs[(Position(Claims.methods, m) - 1) * CaseCount + Position(TruthOrder, e)]

\* claim_by_key
RunFor(m, e) == CHOOSE r \in Range(Claims.runs) : r.method = m /\ r.evidence = e

\* _score_validated_claim_run, its two comparisons with the truth and its row.
Joins(m, e) ==
  /\ Covered(m, e)
  /\ RunFor(m, e).evidence = e /\ RunFor(m, e).request = Truth[e].request

RowFor(m, e) ==
  LET run == RunFor(m, e)
  IN  [method |-> m, run |-> run, truth |-> Truth[e], evidence |-> e,
       view |-> Truth[e].view, template |-> Truth[e].template,
       category |-> Category(run.outcome, Truth[e]), failure |-> run.outcome.failure]

\* _build_slices of a method's rows and of the truth's own answers.
RowsOf(list, m) ==
  LET of == {i \in DOMAIN list : list[i].method = m}
      at == InOrder(of, {p \in of \X of : p[1] < p[2]})
  IN  [n \in DOMAIN at |-> list[at[n]]]
CeilingRows == [n \in DOMAIN TruthOrder |-> CeilingRow(Truth[TruthOrder[n]])]

\* _build_method_report and _build_oracle_report, before and after the template macros.
\* The root of a method's rows is the rows.
Tabulated(list) == [rows |-> list, tables |-> Tables(list)]
Averaged(part) == [rows |-> part.rows, tables |-> part.tables, macros |-> Macros(part.tables)]

-----------------------------------------------------------------------------
(* What a report must satisfy by itself: Workspace100ScoreReport.validate *)

\* ScoredRun.validate: exactly the failed categories keep a failure.
ValidRow(r) == r.category \in FailedCategories <=> r.failure \in Failures

FirstMethods(list) ==
  LET first(i) == \A j \in 1 .. i - 1 : list[j].method # list[i].method
  IN  {i \in DOMAIN list : first(i)}

\* The report's order: methods as they first appear, then the truth's order.
RowBefore(list, a, b) ==
  LET began(r) == CHOOSE i \in FirstMethods(list) : list[i].method = r.method
      place(r) == <<began(r), Position(ViewList, r.view), Position(TemplateList, r.template), r.evidence>>
      p == place(a)
      q == place(b)
  IN  \E i \in 1 .. 4 : p[i] < q[i] /\ \A j \in 1 .. i - 1 : p[j] = q[j]

\* _validate_report_scored_runs
ValidRows(list) ==
  LET of(m) == {i \in DOMAIN list : list[i].method = m}
      methods == {list[i].method : i \in DOMAIN list}
      link(i) == <<list[i].evidence, list[i].truth, list[i].template, list[i].view>>
      links(m) == {link(i) : i \in of(m)}
  IN  /\ Len(list) = MethodCount * CaseCount
      /\ \A i \in DOMAIN list : ValidRow(list[i])
      /\ \A i, j \in DOMAIN list :
           \/ i = j
           \/ /\ <<list[i].method, list[i].evidence>> # <<list[j].method, list[j].evidence>>
              /\ list[i].run # list[j].run
      /\ Cardinality(methods) = MethodCount
      /\ \A i \in 1 .. Len(list) - 1 : RowBefore(list, list[i], list[i + 1])
      /\ \A m \in methods : Cardinality(of(m)) = CaseCount
      /\ \A m, n \in methods : links(m) = links(n)
      /\ \A m \in methods : Cardinality({list[i].truth : i \in of(m)}) = CaseCount

\* Mutant: the tables are only checked against each other.
TablesAgree(r) ==
  /\ r.order = r.roots.methods /\ DOMAIN r.methods = Range(r.order)
  /\ r.order = [n \in 1 .. MethodCount |-> r.rows[(n - 1) * CaseCount + 1].method]
  /\ \A m \in Range(r.order) :
       /\ ValidTables(r.methods[m].tables)
       /\ r.methods[m].macros = Macros(r.methods[m].tables)
       /\ r.methods[m].rows = RowsOf(r.rows, m)

\* _validate_report_methods
ValidMethods(r) ==
  /\ r.order = r.roots.methods /\ DOMAIN r.methods = Range(r.order)
  /\ r.order = [n \in 1 .. MethodCount |-> r.rows[(n - 1) * CaseCount + 1].method]
  /\ \A m \in Range(r.order) :
       LET own == r.methods[m]
       IN  /\ ValidTables(own.tables)
           /\ own.macros = Macros(own.tables)
           /\ own.rows = RowsOf(r.rows, m)
           /\ own.tables = Tables(own.rows)

ValidReport(r) ==
  ValidRows(r.rows) /\ ValidMethods(r) /\ ValidCeiling(r.ceiling.tables, r.ceiling.macros)

-----------------------------------------------------------------------------
(* The two calls *)

Init ==
  /\ call \in Calls
  /\ entry = "score" /\ pc = "bind"
  /\ rows = <<>>
  /\ draft = None /\ report = None /\ stored = None /\ wanted = None
  /\ edit = "none"

Refuse == pc' = "refused" /\ UNCHANGED <<call, entry, rows, draft, report, stored, wanted, edit>>

Bind ==
  /\ pc = "bind"
  /\ Bound
  /\ pc' = "join"
  /\ UNCHANGED <<call, entry, rows, draft, report, stored, wanted, edit>>

RefuseBind == pc = "bind" /\ ~ Bound /\ Refuse

\* Mutant: methods are joined from the last to the first.
LastMethod == Claims.methods[MethodCount - Len(rows) \div CaseCount]

NextMethod == Claims.methods[Len(rows) \div CaseCount + 1]

\* One round of the outer loop: a method's runs against every case.
JoinMethod ==
  /\ pc = "join"
  /\ \A e \in DOMAIN Truth : Joins(NextMethod, e)
  /\ rows' = rows \o [n \in DOMAIN TruthOrder |-> RowFor(NextMethod, TruthOrder[n])]
  /\ pc' = IF Len(rows') = MethodCount * CaseCount THEN "build" ELSE "join"
  /\ UNCHANGED <<call, entry, draft, report, stored, wanted, edit>>

RefuseJoin == pc = "join" /\ (\E e \in DOMAIN Truth : ~ Joins(NextMethod, e)) /\ Refuse

\* The check for foreign keys, then the tables of every method and of the ceiling.
Tabulate ==
  /\ pc = "build"
  /\ \A r \in Range(Claims.runs) : r.method \in MethodsOf(Claims) /\ r.evidence \in DOMAIN Truth
  /\ draft' = [roots |-> call.expected, rows |-> rows, order |-> Claims.methods,
               methods |-> [m \in MethodsOf(Claims) |-> Tabulated(RowsOf(rows, m))],
               ceiling |-> [tables |-> Tables(CeilingRows)]]
  /\ pc' = "average"
  /\ UNCHANGED <<call, entry, rows, report, stored, wanted, edit>>

\* _build_template_macros
Average ==
  /\ pc = "average"
  /\ draft' = [draft EXCEPT !.methods = [m \in DOMAIN @ |-> Averaged(@[m])],
                            !.ceiling = [tables |-> @.tables, macros |-> Macros(@.tables)]]
  /\ pc' = "validate"
  /\ UNCHANGED <<call, entry, rows, report, stored, wanted, edit>>

\* The report is constructed, and its constructor raises unless it is valid.
Construct ==
  /\ pc = "validate"
  /\ IF ValidReport(draft)
     THEN /\ report' = draft
          /\ pc' = IF entry = "score" THEN "published" ELSE "compare"
     ELSE pc' = "refused" /\ UNCHANGED report
  /\ draft' = None
  /\ UNCHANGED <<call, entry, rows, stored, wanted, edit>>

-----------------------------------------------------------------------------
(* The file: to_canonical_bytes stores the content with the roots it had *)

Store ==
  /\ pc = "published" /\ stored = None
  /\ stored' = [content |-> report, roots |-> report]
  /\ UNCHANGED <<call, entry, pc, rows, draft, report, wanted, edit>>

\* Row i graded otherwise, as a row that is valid by itself.
OtherGrade(c) ==
  CASE c = "exact_decisive" -> "wrong_witness"
    [] c = "failed_ambiguous" -> "correct_abstention"
    [] c \in AmbiguousCategories \ {"failed_ambiguous"} -> "decisive_on_ambiguous"
    [] OTHER -> "exact_decisive"
Regraded(list, i) ==
  [list EXCEPT ![i] = [list[i] EXCEPT !.category = OtherGrade(@), !.failure = "none"]]

\* The file changes while it is stored; when resealed, its roots are made to fit.
Changed(r, kind) ==
  LET n == Len(r.rows)
      other == Regraded(r.rows, n)
      m == r.rows[n].method
      new == Averaged(Tabulated(RowsOf(other, m)))
  IN  CASE kind = "row" -> [r EXCEPT !.rows = other, !.methods[m].rows = new.rows]
        [] kind = "tables" -> [r EXCEPT !.methods[m] = [new EXCEPT !.rows = r.methods[m].rows]]
        [] kind = "table" -> [r EXCEPT !.methods[m].tables[<<All, All>>] = new.tables[<<All, All>>]]
        [] kind = "macro" -> [r EXCEPT !.methods[m].macros = r.ceiling.macros]
        [] kind = "order" -> [r EXCEPT !.rows[1] = r.rows[2], !.rows[2] = r.rows[1]]
        [] kind = "truth" -> [r EXCEPT !.rows[1].truth = r.rows[2].truth]
        [] kind = "ceiling" ->
             [r EXCEPT !.ceiling = [tables |-> r.methods[m].tables, macros |-> r.methods[m].macros]]
        [] kind = "roots" -> [r EXCEPT !.roots.claims.projection = "other"]
        [] kind \in {"unsealed", "rewrite"} -> [r EXCEPT !.rows = other, !.methods[m] = new]

Change(kind) ==
  /\ pc = "published" /\ stored # None /\ edit = "none"
  /\ kind \in {"order", "truth"} => Len(report.rows) > 1
  /\ Changed(report, kind) # report
  /\ stored' = [content |-> Changed(report, kind),
                roots |-> IF kind = "unsealed" THEN report ELSE Changed(report, kind)]
  /\ edit' = kind
  /\ UNCHANGED <<call, entry, pc, rows, draft, report, wanted>>

\* load_verified_workspace100_score_report, with the root of the file or of the report
\* that was published, and with a truth whose root the caller pins.
CallLoad(pin, truth) ==
  /\ pc = "published" /\ stored # None
  /\ entry' = "load" /\ pc' = "parse"
  /\ wanted' = IF pin = "published" THEN report ELSE stored.content
  /\ call' = [call EXCEPT !.truth = truth, !.expected.truth = truth]
  /\ rows' = <<>>
  /\ UNCHANGED <<draft, report, stored, edit>>

\* _parse_score_report, then the comparison with the expected root.
Accepted == ValidReport(stored.content) /\ stored.roots = stored.content

Parse ==
  /\ pc = "parse"
  /\ Accepted /\ stored.content = wanted
  /\ pc' = "bind"
  /\ UNCHANGED <<call, entry, rows, draft, report, stored, wanted, edit>>

RefuseParse == pc = "parse" /\ ~ (Accepted /\ stored.content = wanted) /\ Refuse

\* Mutant: the rebuilt report is not compared with the file.
FileIsWanted == stored.content = wanted

\* The rebuilt report has the expected root and the bytes of the file.
SameAsRebuilt == report = wanted /\ stored = [content |-> report, roots |-> report]

Return ==
  /\ pc = "compare"
  /\ SameAsRebuilt
  /\ pc' = "loaded"
  /\ UNCHANGED <<call, entry, rows, draft, report, stored, wanted, edit>>

RefuseFile == pc = "compare" /\ ~ SameAsRebuilt /\ Refuse

Done == pc \in {"refused", "loaded"} /\ UNCHANGED vars

Score == Bind \/ RefuseBind \/ JoinMethod \/ RefuseJoin \/ Tabulate \/ Average \/ Construct

Next ==
  \/ Score
  \/ Store
  \/ \E kind \in Changes : Change(kind)
  \/ \E pin \in {"published", "file"}, truth \in {call.truth} \cup Truths : CallLoad(pin, truth)
  \/ Parse \/ RefuseParse \/ Return \/ RefuseFile
  \/ Done

Spec == Init /\ [][Next]_vars
-----------------------------------------------------------------------------
(* Properties *)

\* The report that is shown: the one just built, or the one loaded.
Shown == IF pc = "loaded" THEN stored.content ELSE report
IsShown == pc \in {"published", "loaded"}

\* What the truth itself says of a case.
TruthSays(truth) ==
  IF truth.ambiguous THEN Abstain("ambiguous_worlds") ELSE Decide(truth.target, truth.witnesses)

\* Types, and: the rows are those of the methods joined so far, in the registry's order.
TypeOK ==
  /\ entry \in {"score", "load"}
  /\ pc \in {"bind", "join", "build", "average", "validate", "published", "parse", "compare",
             "loaded", "refused"}
  /\ edit \in Changes \cup {"none"}
  /\ \A i \in DOMAIN rows :
       /\ rows[i].category \in Categories /\ ValidRow(rows[i])
       /\ rows[i].method = Claims.methods[(i - 1) \div CaseCount + 1]
  /\ pc \in {"build", "average", "validate", "published", "compare", "loaded"} => Len(rows) = MethodCount * CaseCount

\* Every method is graded once on every case, on what the claim set holds under that
\* method and that case wherever it stands in the set: full credit exactly when the
\* answer is the truth's own, a failure kept as that failure, and otherwise the class of
\* the case and whether the answer was decisive, wrong target before wrong witness.
FairlyGraded ==
  IsShown =>
    \A r \in Range(Claims.runs) :
      \E i \in DOMAIN Shown.rows :
        LET row == Shown.rows[i]
            truth == Truth[r.evidence]
            out == r.outcome
        IN  /\ \A j \in DOMAIN Shown.rows :
                 Shown.rows[j].method = r.method /\ Shown.rows[j].evidence = r.evidence <=> j = i
            /\ row.category \in {"exact_decisive", "correct_abstention"} <=> out = TruthSays(truth)
            /\ row.failure = out.failure
            /\ row.category \in FailedCategories <=> out.status = "failed"
            /\ row.category \in AmbiguousCategories <=> truth.ambiguous
            /\ row.category \in DecisiveCategories
                 <=> out.status = "claimed" /\ out.kind = "decisive"
            /\ row.category = "wrong_target" => out.target # truth.target
            /\ row.category = "wrong_witness" => out.target = truth.target

\* Every method is measured over the same cases as the truth's own ceiling, failures
\* included, and never beats it: in every table, rates over the same class have the
\* ceiling's denominators and no rate of correctness exceeds the ceiling's.
CeilingHolds ==
  IsShown =>
    \A m \in DOMAIN Shown.methods, d \in Dimensions :
      LET mine == Shown.methods[m].tables[d].metrics
          top == Shown.ceiling.tables[d].metrics
      IN  /\ \A x \in MetricNames \ {"false_certainty_risk"} :
               mine[x].denominator = top[x].denominator
          /\ \A x \in {"correct_abstention", "exact_target_family", "exact_minimal_witness"} :
               mine[x].numerator <= top[x].numerator
          /\ mine["false_certainty_risk"].denominator = mine["decisive_coverage"].numerator
          /\ mine["false_certainty_risk"].numerator = mine["false_certainty_incidence"].numerator

AtMost(a, b) == a.numerator * b.denominator <= b.numerator * a.denominator

\* A template mean is undefined only where every template's rate is, and lies between the
\* smallest and the largest rate that is defined; and since every template has the same
\* cases in each class, the mean of any rate over a class equals the rate itself.
MacroAgrees ==
  IsShown =>
    \A m \in DOMAIN Shown.methods, v \in Views \cup {All}, x \in MetricNames :
      LET tables == Shown.methods[m].tables
          rates == {tables[<<v, t>>].metrics[x].ratio : t \in Templates} \ {Undefined}
          mean == Shown.methods[m].macros[v][x].ratio
      IN  /\ mean = Undefined <=> rates = {}
          /\ rates # {} => /\ \E a \in rates : AtMost(a, mean)
                           /\ \E b \in rates : AtMost(mean, b)
          /\ x # "false_certainty_risk" => mean = tables[<<v, All>>].metrics[x].ratio

\* Nothing is wrong with the call: the pins fit, and every case of the truth has its run.
Sound ==
  /\ call.expected.implementation = Installed
  /\ call.expected.claims = Claims /\ call.expected.truth = call.truth
  /\ call.expected.methods = Claims.methods
  /\ {Claims.projection, call.truth.projection} = {call.expected.projection}
  /\ \A m \in MethodsOf(Claims), e \in DOMAIN Truth :
       \E r \in Range(Claims.runs) :
         r.method = m /\ r.evidence = e /\ r.request = Truth[e].request

\* Only a fault of the artifacts aborts a call, whatever the participants answered: a
\* sound call of score is never refused, nor is the load of an untouched file.
FaultsOnlyAbort ==
  /\ IsShown => Sound
  /\ pc = "refused" =>
       \/ ~ Sound
       \/ entry = "load" /\ (edit # "none" \/ stored.content.roots.truth # call.truth)

\* A change to one part of a stored report is found by the parser alone, even when the
\* roots in the file are made to fit: only the header and a rewriting of every table get
\* past it, and only where the caller pinned the changed file's root.
EditsCaught ==
  entry = "load" /\ pc \notin {"parse", "refused"} =>
    /\ edit \in {"none", "roots", "rewrite"}
    /\ stored.content = wanted

\* No changed file is ever returned, even to a caller who pinned its root: what is
\* returned is the report of the claim set and the truth the caller now holds.
LoadedIsRebuilt ==
  pc = "loaded" =>
    /\ edit = "none"
    /\ stored.content.roots.claims = Claims /\ stored.content.roots.truth = call.truth
=============================================================================
