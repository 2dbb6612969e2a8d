----------------------------- MODULE Evaluation -----------------------------
(***************************************************************************)
(* The claim set of src/src/witnessgap/workspace100/claims.py: one worker  *)
(* record for every pair of a frozen method and a public case.  It comes   *)
(* out of three calls:                                                     *)
(*   evaluate  evaluate_workspace100_baselines runs every pair, in an      *)
(*             order the caller chooses, on backends the caller supplies;  *)
(*   build     build_workspace100_claim_set assembles records it is given; *)
(*   load      load_verified_workspace100_claim_set takes a stored set.    *)
(*                                                                         *)
(* Backends are the caller's objects.  Whenever the evaluator reads or     *)
(* calls one, its code runs: it may present another identity from then on, *)
(* and it may write to the limits of the plan it was made from.  Digests   *)
(* are values: two of them are equal when what they commit to is.          *)
(***************************************************************************)
EXTENDS Naturals, Sequences, FiniteSets, Functions

CONSTANTS
  MethodList,     \* the frozen methods, in their order
  Cases,          \* evidence digests of the public views; numbers, for their sort order
  program,        \* method -> digest of its program
  request,        \* evidence -> digest of the request it makes
  roots,          \* [assignment, evidence] of the public views
  Backends, expectedBackend,
  Limits, callerLimits,
  Answers,        \* a claim or a normalised failure
  answer,         \* method -> what its program answers to each case
  Steady,         \* methods whose backend answers the same under every schedule
  Scenarios,      \* calls: [entry, order, records, payload]
  MaxSwaps        \* bound: changes of identity in one evaluation

Methods == {MethodList[i] : i \in DOMAIN MethodList}
Programs == {program[m] : m \in Methods}
Listed(q) == Len(q) \in Nat /\ DOMAIN q = 1 .. Len(q) /\ q = [i \in DOMAIN q |-> q[i]]

ASSUME EvaluationAssumption ==
  /\ Listed(MethodList)
  /\ \A i, j \in DOMAIN MethodList : MethodList[i] = MethodList[j] => i = j
  /\ IsFiniteSet(Methods) /\ IsFiniteSet(Cases) /\ Cases \subseteq Nat
  /\ program \in [Methods -> Programs]
  /\ \A c, d \in Cases : request[c] = request[d] => c = d
  /\ expectedBackend \in Backends /\ callerLimits \in Limits
  /\ answer \in [Methods -> [Cases -> Answers]] /\ Steady \subseteq Methods
  /\ MaxSwaps \in Nat
  /\ Methods # {} /\ Cases # {}
  /\ \A s \in Scenarios :
       /\ s.entry \in {"evaluate", "build", "load"}
       /\ Listed(s.order) /\ Listed(s.records) /\ Listed(s.payload.runs)

VARIABLES
  given,     \* the call and its arguments
  pc,        \* the evaluator's next step, or how the call ended
  plan,      \* execution.limits, an object the backends may hold
  pinned,    \* limits_snapshot
  identity,  \* method -> the identity its backend presents now
  context,   \* the record under construction (_RunContext), or None
  records,   \* records so far
  claims,    \* the claim set returned, or None
  swaps,     \* history: method -> times its backend changed identity
  ranBy,     \* history: the identity that answered each record
  faulted    \* history: a harness error was raised

vars == <<given, pc, plan, pinned, identity, context, records, claims, swaps, ranBy, faulted>>
history == <<swaps, ranBy, faulted>>

None == [none |-> TRUE]
Genuine == [m \in Methods |-> [program |-> program[m], backend |-> expectedBackend]]
Keys == Methods \X Cases
KeyOf(record) == <<record.method, record.evidence>>

\* MethodRank and the sort key of a run: method order, then evidence digest.
Rank(m) == CHOOSE i \in DOMAIN MethodList : MethodList[i] = m

\* Mutant: runs are ordered by method only.
PrecedesByMethod(r, s) == Rank(r.method) < Rank(s.method)

Precedes(r, s) ==
  \/ Rank(r.method) < Rank(s.method)
  \/ r.method = s.method /\ r.record.evidence < s.record.evidence

\* Python's stable sorted() by that key.
Sorted(runs) ==
  LET before(i, j) == Precedes(runs[i], runs[j]) \/ (~ Precedes(runs[j], runs[i]) /\ i < j)
      place(i) == Cardinality({j \in DOMAIN runs : before(j, i)}) + 1
  IN  [n \in DOMAIN runs |-> runs[CHOOSE i \in DOMAIN runs : place(i) = n]]

-----------------------------------------------------------------------------
(* What a claim set must satisfy *)

EvidenceOf(runs, m) == {runs[i].record.evidence : i \in {j \in DOMAIN runs : runs[j].method = m}}
RequestsOf(runs, e) == {runs[i].record.request : i \in {j \in DOMAIN runs : runs[j].record.evidence = e}}

Header(set) ==
  /\ set.baseline = "frozen"
  /\ set.projection = <<set.assignment, set.evidence>>

\* _validate_claim_run_context
RunContext(set) ==
  LET runs == set.runs
      seen == {runs[i].record.evidence : i \in DOMAIN runs}
  IN  /\ \A i \in DOMAIN runs :
           LET r == runs[i].record
           IN  /\ r.method = runs[i].method /\ r.implementation = program[r.method]
               /\ r.backend = set.backend /\ r.limits = set.limits
      /\ \A m \in Methods : EvidenceOf(runs, m) = seen
      /\ Cardinality(seen) = Cardinality(Cases)
      /\ \A e \in seen : Cardinality(RequestsOf(runs, e)) = 1
      /\ \A e, f \in seen : RequestsOf(runs, e) = RequestsOf(runs, f) => e = f

\* Workspace100ClaimSet.validate: what can be said without the public inputs.
Structural(set) ==
  LET runs == set.runs
  IN  /\ Header(set)
      /\ set.methods = MethodList
      /\ Len(runs) = Cardinality(Keys)
      /\ \A i, j \in DOMAIN runs :
           <<runs[i].method, runs[i].record.evidence>> = <<runs[j].method, runs[j].record.evidence>>
             => i = j
      /\ \A i \in DOMAIN runs : runs[i].method \in Methods
      /\ runs = Sorted(runs)
      /\ RunContext(set)

\* Mutant: a run need not carry the request of its own case.
BoundToEvidence(set, limits) ==
  /\ set.backend = expectedBackend /\ set.limits = limits
  /\ <<set.assignment, set.evidence>> = <<roots.assignment, roots.evidence>>
  /\ \A m \in Methods : EvidenceOf(set.runs, m) = Cases

\* _verify_workspace100_claim_bindings: the set against the inputs the caller trusts.
BoundTo(set, limits) ==
  /\ set.backend = expectedBackend /\ set.limits = limits
  /\ <<set.assignment, set.evidence>> = <<roots.assignment, roots.evidence>>
  /\ \A i \in DOMAIN set.runs :
       LET r == set.runs[i].record
       IN  r.evidence \in Cases /\ r.request = request[r.evidence]
  /\ \A m \in Methods : EvidenceOf(set.runs, m) = Cases

Assemble(list, limits) ==
  [baseline |-> "frozen", assignment |-> roots.assignment, evidence |-> roots.evidence,
   projection |-> <<roots.assignment, roots.evidence>>,
   backend |-> expectedBackend, limits |-> limits, methods |-> MethodList,
   runs |-> Sorted([i \in DOMAIN list |-> [method |-> list[i].method, record |-> list[i]]])]

\* The checks build_workspace100_claim_set makes before it assembles.
Buildable(list, limits) ==
  /\ Len(list) = Cardinality(Keys)
  /\ \A i, j \in DOMAIN list : KeyOf(list[i]) = KeyOf(list[j]) => i = j
  /\ \A i \in DOMAIN list :
       list[i].limits = limits /\ list[i].backend = expectedBackend /\ list[i].method \in Methods

Builds(list, limits) ==
  /\ Buildable(list, limits)
  /\ Structural(Assemble(list, limits)) /\ BoundTo(Assemble(list, limits), limits)

-----------------------------------------------------------------------------
(* The evaluation *)

Init ==
  /\ given \in Scenarios
  /\ pc = "new"
  /\ plan = callerLimits /\ pinned = callerLimits
  /\ \E m \in Methods, p \in Programs, b \in Backends :
       identity = [Genuine EXCEPT ![m] = [program |-> p, backend |-> b]]
  /\ given.entry # "evaluate" => identity = Genuine
  /\ context = None
  /\ records = <<>>
  /\ claims = None
  /\ swaps = [m \in Methods |-> 0]
  /\ ranBy = <<>>
  /\ faulted = FALSE

Order == given.order

\* _validate_execution_order: every pair exactly once.
OrderIsComplete ==
  /\ Len(Order) = Cardinality(Keys)
  /\ \A i, j \in DOMAIN Order : Order[i] = Order[j] => i = j
  /\ {Order[i] : i \in DOMAIN Order} = Keys

Refuse ==
  /\ pc' = "refused"
  /\ UNCHANGED <<given, plan, pinned, identity, context, records, claims>>

AcceptOrder ==
  /\ pc = "new" /\ given.entry = "evaluate"
  /\ OrderIsComplete
  /\ pc' = "pin"
  /\ pinned' = plan
  /\ UNCHANGED <<given, plan, identity, context, records, claims, history>>

RefuseOrder ==
  /\ pc = "new" /\ given.entry = "evaluate"
  /\ ~ OrderIsComplete
  /\ Refuse /\ UNCHANGED history

\* Mutant: the limits are read from the plan whenever they are needed.
PlanLimits == plan

\* The limits every record and the set are bound to.
SnapshotLimits == pinned

\* Mutant: the order is worked off from its end.
LastKey == Order[Len(Order) - Len(records)]

\* The pair the loop is at, and its backend's identity.
Key == Order[Len(records) + 1]
Expected(m) == identity[m] = Genuine[m]

\* _pin_execution_backends.  The reads of all backends are one step: a change between two of
\* them leads nowhere that a change after the last does not.
Pin ==
  /\ pc = "pin"
  /\ \A m \in Methods : Expected(m)
  /\ pc' = "before"
  /\ UNCHANGED <<given, plan, pinned, identity, context, records, claims, history>>

RefusePlan ==
  /\ pc = "pin"
  /\ \E m \in Methods : ~ Expected(m)
  /\ Refuse /\ UNCHANGED history

\* A backend presents its program and its own digest one after the other, and its code runs
\* at each: the first of the two reads is past at "half" a step.
Presents(part) == identity[Key[1]][part] = Genuine[Key[1]][part]

\* Mutant: the program is only looked at before a run.
RecheckOnce ==
  /\ pc \in {"before", "after"}
  /\ pc = "before" => Presents("program")
  /\ pc' = IF pc = "before" THEN "half before" ELSE "half after"
  /\ UNCHANGED <<given, plan, pinned, identity, context, records, claims, history>>

\* _recheck_backend_identity, before and after each run.
RecheckProgram ==
  /\ pc \in {"before", "after"}
  /\ Presents("program")
  /\ pc' = IF pc = "before" THEN "half before" ELSE "half after"
  /\ UNCHANGED <<given, plan, pinned, identity, context, records, claims, history>>

RecheckBackend ==
  /\ pc \in {"half before", "half after"}
  /\ Presents("backend")
  /\ pc' = IF pc = "half before" THEN "bind" ELSE "append"
  /\ UNCHANGED <<given, plan, pinned, identity, context, records, claims, history>>

RefuseChanged ==
  /\ pc \in {"before", "half before", "after", "half after"}
  /\ ~ Presents(IF pc \in {"before", "after"} THEN "program" ELSE "backend")
  /\ Refuse /\ UNCHANGED history

\* run_worker_once up to the invocation: the program the backend presents must be the
\* method's; whatever backend digest it presents goes into the context.
BindProgram ==
  /\ pc = "bind"
  /\ Presents("program")
  /\ pc' = "half bind"
  /\ UNCHANGED <<given, plan, pinned, identity, context, records, claims, history>>

Bind ==
  /\ pc = "half bind"
  /\ context' = [method |-> Key[1], implementation |-> program[Key[1]],
                 backend |-> identity[Key[1]].backend, limits |-> SnapshotLimits,
                 evidence |-> Key[2], request |-> request[Key[2]], answer |-> None]
  /\ pc' = "invoke"
  /\ UNCHANGED <<given, plan, pinned, identity, records, claims, history>>

RefuseProgram ==
  /\ pc = "bind"
  /\ ~ Presents("program")
  /\ Refuse /\ UNCHANGED history

\* backend.invoke and _normalize_worker_exit: one record, claimed or failed.
Invoke(a) ==
  /\ pc = "invoke"
  /\ Expected(Key[1]) /\ Key[1] \in Steady => a = answer[Key[1]][Key[2]]
  /\ context' = [context EXCEPT !.answer = a]
  /\ ranBy' = Append(ranBy, identity[Key[1]])
  /\ pc' = "after"
  /\ UNCHANGED <<given, plan, pinned, identity, records, claims, swaps, faulted>>

\* WorkerHarnessError, or a backend that returns something else: the evaluation is over.
HarnessFails ==
  /\ pc = "invoke"
  /\ faulted' = TRUE
  /\ Refuse /\ UNCHANGED <<swaps, ranBy>>

\* _verify_evaluated_record and records.append
RecordHolds ==
  /\ KeyOf(context) = Key /\ context.implementation = program[Key[1]]
  /\ context.backend = expectedBackend /\ context.limits = SnapshotLimits
  /\ context.request = request[Key[2]]

AppendRecord ==
  /\ pc = "append"
  /\ RecordHolds
  /\ records' = Append(records, context)
  /\ context' = None
  /\ pc' = IF Len(records') = Len(Order) THEN "build" ELSE "before"
  /\ UNCHANGED <<given, plan, pinned, identity, claims, history>>

RefuseRecord ==
  /\ pc = "append"
  /\ ~ RecordHolds
  /\ Refuse /\ UNCHANGED history

\* The records the set is built from: the evaluation's, or those a caller brings.
Ready == pc = "build" \/ (pc = "new" /\ given.entry = "build")
Supplied == IF pc = "build" THEN records ELSE given.records

Build ==
  /\ Ready
  /\ Builds(Supplied, SnapshotLimits)
  /\ claims' = Assemble(Supplied, SnapshotLimits)
  /\ pc' = "returned"
  /\ UNCHANGED <<given, plan, pinned, identity, context, records, history>>

RefuseBuild ==
  /\ Ready
  /\ ~ Builds(Supplied, SnapshotLimits)
  /\ Refuse /\ UNCHANGED history

Load ==
  /\ pc = "new" /\ given.entry = "load"
  /\ Structural(given.payload) /\ BoundTo(given.payload, SnapshotLimits)
  /\ claims' = given.payload
  /\ pc' = "returned"
  /\ UNCHANGED <<given, plan, pinned, identity, context, records, history>>

RefuseLoad ==
  /\ pc = "new" /\ given.entry = "load"
  /\ ~ (Structural(given.payload) /\ BoundTo(given.payload, SnapshotLimits))
  /\ Refuse /\ UNCHANGED history

\* A backend's code runs at every read of it and in every call: between any two steps.
BackendsRun == pc \notin {"new", "returned", "refused"} /\ given.entry = "evaluate"

Swap(m, p, b) ==
  /\ BackendsRun
  /\ [program |-> p, backend |-> b] # identity[m]
  /\ FoldFunction(+, 0, swaps) < MaxSwaps
  /\ identity' = [identity EXCEPT ![m] = [program |-> p, backend |-> b]]
  /\ swaps' = [swaps EXCEPT ![m] = @ + 1]
  /\ UNCHANGED <<given, pc, plan, pinned, context, records, claims, ranBy, faulted>>

WritePlan(l) ==
  /\ BackendsRun /\ l # plan
  /\ plan' = l
  /\ UNCHANGED <<given, pc, pinned, identity, context, records, claims, history>>

Done == pc \in {"returned", "refused"} /\ UNCHANGED vars

Evaluate ==
  \/ AcceptOrder \/ RefuseOrder \/ Pin \/ RefusePlan
  \/ RecheckProgram \/ RecheckBackend \/ RefuseChanged \/ BindProgram \/ Bind \/ RefuseProgram
  \/ \E a \in Answers : Invoke(a)
  \/ HarnessFails \/ AppendRecord \/ RefuseRecord

Next ==
  \/ Evaluate
  \/ Build \/ RefuseBuild \/ Load \/ RefuseLoad
  \/ \E m \in Methods, p \in Programs, b \in Backends : Swap(m, p, b)
  \/ \E l \in Limits : WritePlan(l)
  \/ Done

Spec == Init /\ [][Next]_vars

-----------------------------------------------------------------------------
(* Properties *)

\* A record of pair k made by the genuine program on the pinned backend for its own case.
GoodRecord(r, k) ==
  /\ KeyOf(r) = k
  /\ r.implementation = program[k[1]] /\ r.backend = expectedBackend
  /\ r.limits = callerLimits /\ r.request = request[k[2]]

\* One good record for every pair.
Complete(list) ==
  /\ Len(list) = Cardinality(Keys)
  /\ \A k \in Keys : \E i \in DOMAIN list : GoodRecord(list[i], k)

\* The pair at each place of a claim set: methods in order, cases ascending within each.
Place(n) ==
  LET size == Cardinality(Cases)
  IN  <<MethodList[((n - 1) \div size) + 1],
        CHOOSE c \in Cases : Cardinality({d \in Cases : d < c}) = (n - 1) % size>>

Arranged(set) ==
  \A n \in DOMAIN set.runs :
    KeyOf(set.runs[n].record) = Place(n) /\ set.runs[n].method = set.runs[n].record.method

RecordsOf(set) == [i \in DOMAIN set.runs |-> set.runs[i].record]

\* Types, and: the records are those of the order worked off so far.
TypeOK ==
  /\ pc \in {"new", "pin", "before", "half before", "bind", "half bind", "invoke", "after", "half after",
             "append", "build", "returned", "refused"}
  /\ given.entry \in {"evaluate", "build", "load"}
  /\ plan \in Limits /\ pinned \in Limits /\ faulted \in BOOLEAN
  /\ \A m \in Methods : identity[m].program \in Programs /\ identity[m].backend \in Backends
  /\ swaps \in [Methods -> Nat]
  /\ pc # "refused" => (context = None <=> pc \notin {"invoke", "after", "half after", "append"})
  /\ given.entry = "evaluate" =>
       /\ Len(records) <= Len(Order)
       /\ \A i \in DOMAIN records : KeyOf(records[i]) = Order[i]

\* A returned claim set holds exactly one record for every pair, each made by the
\* method's own program for the case's own request, all under the pinned backend and the
\* limits the caller passed, whatever the backends did to the plan meanwhile and whichever
\* of the three calls returned it.
ReturnedIsBound ==
  pc = "returned" =>
    /\ claims.limits = callerLimits /\ claims.backend = expectedBackend
    /\ claims.evidence = roots.evidence /\ claims.assignment = roots.assignment
    /\ Complete(RecordsOf(claims))

\* The execution order cannot be seen in the claim set: every record is at its own place,
\* and a steady backend that kept its identity is shown with exactly its program's
\* answers, whatever the other backends did.
ScheduleInvisible ==
  pc = "returned" /\ given.entry = "evaluate" =>
    /\ Arranged(claims)
    /\ \A n \in DOMAIN claims.runs :
         LET m == claims.runs[n].method
         IN  m \in Steady /\ swaps[m] = 0 =>
               claims.runs[n].record.answer = answer[m][claims.runs[n].record.evidence]

\* Every record of a returned claim set was answered by the backend that was pinned, or
\* that backend changed its identity and changed it back.
RanAsPinned ==
  pc = "returned" /\ given.entry = "evaluate" =>
    \A i \in DOMAIN ranBy :
      ranBy[i] = Genuine[Order[i][1]] \/ swaps[Order[i][1]] >= 2

\* Nothing correct is refused: a complete order on backends that stay as they were
\* expected, a complete list of records in any order, a stored set that is the canonical
\* arrangement of such a list.
RefusalIsEarned ==
  pc = "refused" =>
    CASE given.entry = "evaluate" ->
           \/ faulted \/ identity # Genuine \/ \E m \in Methods : swaps[m] > 0
           \/ {Order[i] : i \in DOMAIN Order} # Keys \/ Len(Order) # Cardinality(Keys)
      [] given.entry = "build" -> ~ Complete(given.records)
      [] given.entry = "load" ->
           LET set == given.payload
           IN  ~ (/\ Complete(RecordsOf(set)) /\ Arranged(set) /\ set.methods = MethodList
                  /\ set.limits = callerLimits /\ set.backend = expectedBackend
                  /\ set.baseline = "frozen"
                  /\ <<set.assignment, set.evidence>> = <<roots.assignment, roots.evidence>>
                  /\ set.projection = <<set.assignment, set.evidence>>)
=============================================================================
