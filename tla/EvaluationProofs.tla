-------------------------- MODULE EvaluationProofs --------------------------
(* What a returned claim set says about the backends that made it, for every *)
(* set of methods, cases, calls and identity changes.                        *)
EXTENDS Evaluation, FiniteSetTheorems, FunctionTheorems, TLAPS

Identities == [program : Programs, backend : Backends]
Contexts == [method : Methods, implementation : Programs, backend : Backends, limits : Limits,
             evidence : Cases, request : {request[c] : c \in Cases},
             answer : Answers \cup {None}]
InLoop ==
  pc \in {"before", "half before", "bind", "half bind", "invoke", "after", "half after", "append"}

\* Where the evaluation stands: the loop is at a pair of a complete order, under the
\* limits the caller passed.
Progress ==
  /\ given \in Scenarios
  /\ pinned = callerLimits /\ (pc = "new" => plan = callerLimits)
  /\ identity \in [Methods -> Identities]
  /\ records \in Seq(Contexts) /\ ranBy \in Seq(Identities)
  /\ pc \notin {"new", "returned", "refused"} => given.entry = "evaluate"
  /\ given.entry = "evaluate" /\ pc \notin {"new", "refused"} => OrderIsComplete
  /\ InLoop => Len(records) < Len(Order)
  /\ pc \in {"new", "pin"} => records = <<>> /\ ranBy = <<>>
  /\ pc \in {"invoke", "after", "half after", "append"} => context \in Contexts
  /\ pc \in {"new", "pin", "before", "half before", "bind", "half bind", "build", "returned"} => context = None

\* The pair a run was made for, and whether its backend was the pinned one or has since
\* changed away and back.
MethodAt(i) == Order[i][1]
Attested(i) == ranBy[i] = Genuine[MethodAt(i)] \/ swaps[MethodAt(i)] >= 2

\* A run that is not made by the pinned backend, whose backend has changed, and can only pass
\* what is still to be read of it by changing again.
MustChangeAgain(i, passes) ==
  swaps[MethodAt(i)] >= 1 /\ (passes => swaps[MethodAt(i)] >= 2)

\* From the pinning on, a backend that is not the pinned one has changed.  A run is
\* attested once its second identity check is past; before that check it was made by the
\* pinned backend, or by one that changed and can only pass the check by changing again.
Attestation ==
  given.entry = "evaluate" =>
    /\ pc \notin {"new", "pin", "refused"} =>
         \A m \in Methods : identity[m] = Genuine[m] \/ swaps[m] >= 1
    /\ pc # "refused" =>
         Len(ranBy) = Len(records) + (IF pc \in {"after", "half after", "append"} THEN 1 ELSE 0)
    /\ pc # "refused" => \A i \in 1 .. Len(records) : Attested(i)
    /\ pc = "append" => Attested(Len(records) + 1)
    /\ pc = "after" =>
         LET i == Len(records) + 1
         IN  ranBy[i] = Genuine[MethodAt(i)] \/ MustChangeAgain(i, Expected(MethodAt(i)))
    /\ pc = "half after" =>
         LET i == Len(records) + 1
         IN  ranBy[i] = Genuine[MethodAt(i)]
             \/ MustChangeAgain(i, identity[MethodAt(i)].backend = expectedBackend)

\* The set has the form it was checked for, against the caller's limits.
Checked ==
  pc = "returned" =>
    Listed(claims.runs) /\ Structural(claims) /\ BoundTo(claims, callerLimits)

IInv == TypeOK /\ Progress /\ Attestation /\ Checked

-----------------------------------------------------------------------------
(* Lemmas *)

LEMMA Genuineness ==
  /\ Genuine \in [Methods -> Identities]
  /\ \A m \in Methods : program[m] \in Programs /\ Genuine[m].program = program[m]
  /\ \A m \in Methods, p \in Programs, b \in Backends : [program |-> p, backend |-> b] \in Identities
<1>1. expectedBackend \in Backends /\ program \in [Methods -> Programs]
  BY EvaluationAssumption
<1> QED
  BY <1>1 DEF Genuine, Identities

\* What is held has its kind, wherever the evaluation stands.
LEMMA Kinds ==
  ASSUME Progress
  PROVE  /\ given \in Scenarios /\ pinned = callerLimits /\ identity \in [Methods -> Identities]
         /\ records \in Seq(Contexts) /\ ranBy \in Seq(Identities)
         /\ Len(records) \in Nat /\ \A i \in DOMAIN records : records[i] \in Contexts
         /\ InLoop => Len(records) < Len(Order)
<1>1. /\ given \in Scenarios /\ pinned = callerLimits /\ identity \in [Methods -> Identities]
      /\ records \in Seq(Contexts) /\ ranBy \in Seq(Identities)
      /\ InLoop => Len(records) < Len(Order)
  BY Zenon DEF Progress
<1>2. Len(records) \in Nat /\ \A i \in DOMAIN records : records[i] \in Contexts
  BY <1>1
<1>3. QED BY <1>1, <1>2

\* The pair the loop is at belongs to the evaluation.
LEMMA KeyTyped ==
  ASSUME Progress, InLoop
  PROVE  /\ given.entry = "evaluate" /\ OrderIsComplete
         /\ Len(records) + 1 \in DOMAIN Order
         /\ Key[1] \in Methods /\ Key[2] \in Cases
         /\ MethodAt(Len(records) + 1) = Key[1]
<1>1. given.entry = "evaluate" /\ OrderIsComplete
  BY DEF Progress, InLoop
<1>2. Len(Order) \in Nat /\ DOMAIN Order = 1 .. Len(Order)
  BY EvaluationAssumption DEF Progress, Listed, Order
<1>3. Len(records) \in Nat /\ Len(records) < Len(Order)
  BY Kinds
<1>4. Len(records) + 1 \in DOMAIN Order
  BY <1>2, <1>3
<1>5. Key \in Keys
  BY <1>1, <1>4 DEF OrderIsComplete, Key
<1>6. MethodAt(Len(records) + 1) = Key[1]
  BY DEF MethodAt, Key
<1> QED
  BY <1>1, <1>4, <1>5, <1>6 DEF Keys

\* A complete order is not empty.
LEMMA OrderNotEmpty ==
  ASSUME given \in Scenarios, OrderIsComplete
  PROVE  Len(Order) \in Nat /\ 0 < Len(Order)
<1>1. Len(Order) \in Nat /\ DOMAIN Order = 1 .. Len(Order)
  BY EvaluationAssumption DEF Listed, Order
<1>2. Keys # {}
  <2>1. PICK m \in Methods, c \in Cases : TRUE
    BY EvaluationAssumption
  <2>2. <<m, c>> \in Keys
    BY <2>1 DEF Keys
  <2> QED
    BY <2>2
<1>3. DOMAIN Order # {}
  BY <1>2 DEF OrderIsComplete
<1> QED
  BY <1>1, <1>3

\* A function on the numbers up to n is a list, and so is a sorted one.
LEMMA ListOfLength ==
  ASSUME NEW n \in Nat, NEW q, q = [i \in 1 .. n |-> q[i]]
  PROVE  Listed(q) /\ Len(q) = n
<1>1. DOMAIN q = 1 .. n
  OBVIOUS
<1>2. Len(q) = n
  BY <1>1
<1>3. QED BY <1>1, <1>2 DEF Listed

LEMMA SortedIsListed ==
  ASSUME NEW q, Listed(q)
  PROVE  Listed(Sorted(q)) /\ Len(Sorted(q)) = Len(q) /\ DOMAIN Sorted(q) = DOMAIN q
<1>1. Len(q) \in Nat /\ DOMAIN q = 1 .. Len(q)
  BY DEF Listed
<1>2. DOMAIN Sorted(q) = DOMAIN q /\ Sorted(q) = [i \in DOMAIN q |-> Sorted(q)[i]]
  BY DEF Sorted
<1>3. QED BY <1>1, <1>2, ListOfLength

LEMMA AssembledIsListed ==
  ASSUME NEW list, Listed(list), NEW limits
  PROVE  /\ Listed(Assemble(list, limits).runs) /\ Len(Assemble(list, limits).runs) = Len(list)
         /\ DOMAIN Assemble(list, limits).runs = DOMAIN list
<1> DEFINE q == [i \in DOMAIN list |-> [method |-> list[i].method, record |-> list[i]]]
<1>1. Len(list) \in Nat /\ DOMAIN list = 1 .. Len(list)
  BY DEF Listed
<1>2. q = [i \in 1 .. Len(list) |-> q[i]] /\ DOMAIN q = DOMAIN list
  BY <1>1
<1>3. Assemble(list, limits).runs = Sorted(q)
  BY DEF Assemble
<1> HIDE DEF q
<1>4. Listed(q) /\ Len(q) = Len(list)
  BY <1>1, <1>2, ListOfLength
<1>5. QED BY <1>2, <1>3, <1>4, SortedIsListed

\* A context is never the absent one.
LEMMA ContextIsRecord ==
  \A c \in Contexts : c # None
<1> SUFFICES ASSUME NEW c \in Contexts PROVE c # None
  OBVIOUS
<1>1. DOMAIN c = {"method", "implementation", "backend", "limits", "evidence", "request", "answer"}
  BY DEF Contexts
<1>2. DOMAIN None = {"none"}
  BY DEF None
<1> QED
  BY <1>1, <1>2

\* The steps that only end the call.
LEMMA RefusalKeeps ==
  ASSUME IInv, Refuse, swaps' = swaps, ranBy' = ranBy, faulted' \in BOOLEAN
  PROVE  IInv'
<1>1. TypeOK'
  <2>1. /\ given' = given /\ pc' = "refused" /\ plan' = plan /\ pinned' = pinned
        /\ identity' = identity /\ records' = records
    BY DEF Refuse
  <2> QED
    BY <2>1 DEF IInv, TypeOK, Order, KeyOf
<1>2. Progress'
  BY DEF IInv, Progress, Refuse, InLoop, OrderIsComplete, Order
<1>3. Attestation'
  BY DEF IInv, Attestation, Refuse
<1>4. Checked'
  BY DEF Checked, Refuse
<1> QED
  BY <1>1, <1>2, <1>3, <1>4 DEF IInv

-----------------------------------------------------------------------------
(* The invariant *)

LEMMA InitInvariant == Init => IInv
<1> SUFFICES ASSUME Init PROVE IInv
  OBVIOUS
<1>1. identity \in [Methods -> Identities]
  BY Genuineness DEF Init, Identities
<1>2. /\ given \in Scenarios /\ given.entry \in {"evaluate", "build", "load"}
      /\ Listed(Order)
  BY EvaluationAssumption DEF Init, Order
<1>3. TypeOK
  <2>1. \A m \in Methods : identity[m].program \in Programs /\ identity[m].backend \in Backends
    BY <1>1 DEF Identities
  <2>2. swaps \in [Methods -> Nat] /\ callerLimits \in Limits
    BY EvaluationAssumption DEF Init
  <2>3. records = <<>> /\ Len(records) = 0 /\ DOMAIN records = {}
    BY DEF Init
  <2>4. Len(records) <= Len(Order) /\ \A i \in DOMAIN records : KeyOf(records[i]) = Order[i]
    BY <1>2, <2>3 DEF Listed
  <2> QED
    BY <1>2, <2>1, <2>2, <2>4 DEF Init, TypeOK
<1>4. Progress
  BY <1>1, <1>2 DEF Init, Progress, InLoop
<1>5. Attestation
  BY DEF Init, Attestation
<1>6. Checked
  BY DEF Init, Checked
<1> QED
  BY <1>3, <1>4, <1>5, <1>6 DEF IInv

\* The steps of the evaluator before its loop.
LEMMA StartPreserves ==
  ASSUME IInv, AcceptOrder \/ Pin
  PROVE  IInv'
<1>1. /\ given' = given /\ plan' = plan /\ identity' = identity /\ records' = records
      /\ context' = context /\ claims' = claims /\ swaps' = swaps /\ ranBy' = ranBy
      /\ faulted' = faulted /\ pinned' = pinned
      /\ (pc = "new" /\ pc' = "pin") \/ (pc = "pin" /\ pc' = "before")
      /\ given.entry = "evaluate" /\ OrderIsComplete
  BY EvaluationAssumption DEF AcceptOrder, Pin, IInv, Progress, history
<1>2. TypeOK'
  BY <1>1 DEF IInv, TypeOK, Order, KeyOf
<1>3. Progress'
  <2>1. 0 < Len(Order)
    BY <1>1, OrderNotEmpty DEF IInv, Progress
  <2>2. records = <<>> /\ Len(records) = 0
    BY <1>1 DEF IInv, Progress
  <2> QED
    BY <1>1, <2>1, <2>2 DEF IInv, Progress, InLoop, Order, OrderIsComplete
<1>4. Attestation'
  <2>1. records = <<>> /\ ranBy = <<>>
    BY <1>1 DEF IInv, Progress
  <2>2. pc' = "before" => \A m \in Methods : identity[m] = Genuine[m]
    BY <1>1 DEF Pin, AcceptOrder, Expected
  <2>3. pc' \in {"pin", "before"} /\ records' = <<>> /\ ranBy' = <<>> /\ Len(records') = 0 /\ Len(ranBy') = 0
    BY <1>1, <2>1
  <2>4. \A i \in 1 .. Len(records') : Attested(i)'
    BY <2>3
  <2>5. pc' = "before" => \A m \in Methods : identity'[m] = Genuine[m]
    BY <1>1, <2>2
  <2>6. pc' \notin {"after", "half after", "append"} /\ (pc' = "pin" \/ pc' = "before")
    BY <2>3
  <2>7. Len(ranBy') = Len(records') + (IF pc' \in {"after", "half after", "append"} THEN 1 ELSE 0)
    <3>1. (IF pc' \in {"after", "half after", "append"} THEN 1 ELSE 0) = 0
      BY <2>6
    <3>2. Len(ranBy') = 0 /\ Len(records') = 0
      BY <2>3, Zenon
    <3>3. 0 = 0 + 0
      OBVIOUS
    <3>4. QED BY <3>1, <3>2, <3>3, Zenon
  <2>8. pc' # "append" /\ pc' # "after" /\ pc' # "half after"
    BY <2>6
  <2> QED
    BY <2>4, <2>5, <2>6, <2>7, <2>8, Zenon DEF Attestation
<1>5. Checked'
  BY <1>1 DEF Checked
<1> QED
  BY <1>2, <1>3, <1>4, <1>5 DEF IInv

\* The identity of a method that presents both parts is the expected one.
LEMMA PartsAreAll ==
  ASSUME Progress, NEW m \in Methods
  PROVE  /\ Genuine[m].program = program[m] /\ Genuine[m].backend = expectedBackend
         /\ Expected(m) <=> identity[m].program = program[m] /\ identity[m].backend = expectedBackend
<1>1. identity[m] \in Identities /\ Genuine[m] = [program |-> program[m], backend |-> expectedBackend]
  BY DEF Progress, Genuine
<1>2. QED BY <1>1 DEF Expected, Identities

\* A backend's identity is looked at, before or after its run, or before it is bound.
LEMMA RecheckPreserves ==
  ASSUME IInv, RecheckProgram \/ RecheckBackend \/ BindProgram
  PROVE  IInv'
<1>1. /\ given' = given /\ plan' = plan /\ identity' = identity /\ records' = records
      /\ context' = context /\ claims' = claims /\ swaps' = swaps /\ ranBy' = ranBy
      /\ faulted' = faulted /\ pinned' = pinned
      /\ \/ pc = "before" /\ pc' = "half before"
         \/ pc = "half before" /\ pc' = "bind"
         \/ pc = "bind" /\ pc' = "half bind"
         \/ pc = "after" /\ pc' = "half after" /\ Presents("program")
         \/ pc = "half after" /\ pc' = "append" /\ Presents("backend")
  BY DEF RecheckProgram, RecheckBackend, BindProgram, history
<1>2. InLoop /\ Progress /\ Attestation
  BY <1>1 DEF InLoop, IInv
<1>3. TypeOK'
  BY <1>1 DEF IInv, TypeOK, Order, KeyOf
<1>4. Progress'
  BY <1>1 DEF IInv, Progress, InLoop, Order, OrderIsComplete
<1>5. Attestation'
  <2> DEFINE i == Len(records) + 1
  <2>1. given.entry = "evaluate" /\ MethodAt(i) = Key[1] /\ Key[1] \in Methods
    BY <1>2, KeyTyped
  <2>2. \A k : Attested(k)' = Attested(k) /\ MethodAt(k)' = MethodAt(k)
    BY <1>1 DEF Attested, MethodAt, Order
  <2>3. /\ Presents("program") <=> identity[Key[1]].program = program[Key[1]]
        /\ Presents("backend") <=> identity[Key[1]].backend = expectedBackend
        /\ Expected(Key[1]) <=> Presents("program") /\ Presents("backend")
    BY <1>2, <2>1, PartsAreAll DEF Presents
  <2>4. pc = "half after" /\ Presents("backend") => Attested(i)
    BY <1>2, <2>1, <2>3 DEF Attestation, Attested, MustChangeAgain
  <2>5. pc = "after" /\ Presents("program") =>
          ranBy[i] = Genuine[MethodAt(i)]
          \/ MustChangeAgain(i, identity[MethodAt(i)].backend = expectedBackend)
    BY <1>2, <2>1, <2>3 DEF Attestation, MustChangeAgain
  <2>6. QED BY <1>1, <1>2, <2>2, <2>4, <2>5 DEF Attestation, MustChangeAgain
<1>6. Checked'
  BY <1>1 DEF Checked
<1> QED
  BY <1>3, <1>4, <1>5, <1>6 DEF IInv

\* The run's context is made.
LEMMA BindPreserves ==
  ASSUME IInv, Bind
  PROVE  IInv'
<1>1. /\ given' = given /\ plan' = plan /\ identity' = identity /\ records' = records
      /\ claims' = claims /\ swaps' = swaps /\ ranBy' = ranBy
      /\ faulted' = faulted /\ pinned' = pinned
      /\ pc = "half bind" /\ pc' = "invoke"
  BY DEF Bind, history
<1>2. InLoop /\ Progress /\ Attestation /\ Checked
  BY <1>1 DEF InLoop, IInv
<1>3. context' \in Contexts /\ context' # None
  <2>1. Key[1] \in Methods /\ Key[2] \in Cases
    BY <1>2, KeyTyped
  <2>2. program[Key[1]] \in Programs /\ identity[Key[1]].backend \in Backends
    BY <1>2, <2>1, Genuineness DEF Progress, Identities
  <2>3. SnapshotLimits \in Limits
    BY <1>2, EvaluationAssumption DEF Progress, SnapshotLimits
  <2>4. context' \in Contexts
    BY <2>1, <2>2, <2>3 DEF Bind, Contexts
  <2> QED
    BY <2>4, ContextIsRecord
<1>4. TypeOK'
  BY <1>1, <1>3 DEF IInv, TypeOK, Order, KeyOf, None
<1>5. Progress'
  <2>1. /\ given' \in Scenarios /\ pinned' = callerLimits /\ identity' \in [Methods -> Identities]
        /\ records' \in Seq(Contexts) /\ ranBy' \in Seq(Identities)
    BY <1>1, <1>2, Kinds
  <2>2. Len(records') < Len(Order') /\ OrderIsComplete' /\ given'.entry = "evaluate"
    BY <1>1, <1>2, Kinds, KeyTyped DEF Order, OrderIsComplete
  <2>3. QED BY <1>1, <1>3, <2>1, <2>2 DEF Progress, InLoop, Contexts, Identities
<1>6. Attestation'
  <2>1. \A i : Attested(i)' = Attested(i)
    BY <1>1 DEF Attested, MethodAt, Order
  <2> QED
    BY <1>1, <1>2, <2>1 DEF Attestation
<1>7. Checked'
  BY <1>1 DEF Checked
<1> QED
  BY <1>4, <1>5, <1>6, <1>7 DEF IInv

\* The backend answers: the run carries the identity that answered it.
LEMMA InvokePreserves ==
  ASSUME IInv, NEW a \in Answers, Invoke(a)
  PROVE  IInv'
<1>1. /\ given' = given /\ plan' = plan /\ identity' = identity /\ records' = records
      /\ claims' = claims /\ swaps' = swaps /\ faulted' = faulted /\ pinned' = pinned
      /\ pc = "invoke" /\ pc' = "after"
      /\ context' = [context EXCEPT !.answer = a]
      /\ ranBy' = Append(ranBy, identity[Key[1]])
  BY DEF Invoke
<1>2. InLoop /\ Progress /\ Attestation /\ Checked
  BY <1>1 DEF InLoop, IInv
<1>3. context' \in Contexts /\ context' # None
  <2>1. context \in Contexts
    BY <1>1, <1>2 DEF Progress
  <2>2. context' \in Contexts
    BY <1>1, <2>1 DEF Contexts
  <2> QED
    BY <2>2, ContextIsRecord
<1>4. TypeOK'
  BY <1>1, <1>3 DEF IInv, TypeOK, Order, KeyOf, None
<1>5. /\ Key[1] \in Methods /\ MethodAt(Len(records) + 1) = Key[1]
      /\ given.entry = "evaluate"
  BY <1>2, KeyTyped
<1>6. /\ ranBy \in Seq(Identities) /\ identity[Key[1]] \in Identities
      /\ Len(records) \in Nat /\ Len(ranBy) = Len(records)
  BY <1>1, <1>2, <1>5 DEF Progress, Attestation
<1>7. /\ ranBy' \in Seq(Identities) /\ Len(ranBy') = Len(records) + 1
      /\ \A i \in 1 .. Len(records) : ranBy'[i] = ranBy[i]
      /\ ranBy'[Len(records) + 1] = identity[Key[1]]
  BY <1>1, <1>6
<1>8. Progress'
  <2>1. /\ given' \in Scenarios /\ pinned' = callerLimits /\ records' \in Seq(Contexts)
        /\ identity' \in [Methods -> Identities] /\ Len(records') < Len(Order)
    BY <1>1, <1>2 DEF Progress
  <2>2. Order' = Order /\ OrderIsComplete' /\ given'.entry = "evaluate"
    BY <1>1, <1>2 DEF Progress, Order, OrderIsComplete
  <2> QED
    BY <1>1, <1>3, <1>7, <2>1, <2>2 DEF Progress, InLoop, Contexts, Identities
<1>9. Attestation'
  <2>1. \A i \in 1 .. Len(records) : Attested(i) => Attested(i)'
    BY <1>1, <1>7 DEF Attested, MethodAt, Order
  <2>2. \A i : MethodAt(i)' = MethodAt(i)
    BY <1>1 DEF MethodAt, Order
  <2>3. identity[Key[1]] = Genuine[Key[1]] \/ swaps[Key[1]] >= 1
    BY <1>1, <1>2, <1>5 DEF Attestation
  <2>4. Expected(Key[1])' <=> identity[Key[1]] = Genuine[Key[1]]
    BY <1>1 DEF Expected, Key, Order
  <2>5. ranBy'[Len(records) + 1] = Genuine[Key[1]]
        \/ (swaps[Key[1]] >= 1 /\ identity[Key[1]] # Genuine[Key[1]])
    BY <1>7, <2>3
  <2>6. Expected(MethodAt(Len(records) + 1))' <=> identity[Key[1]] = Genuine[Key[1]]
    BY <1>1, <1>5, <2>2 DEF Expected
  <2> QED
    BY <1>1, <1>2, <1>5, <1>7, <2>1, <2>2, <2>5, <2>6 DEF Attestation, MustChangeAgain
<1>10. Checked'
  BY <1>1 DEF Checked
<1> QED
  BY <1>4, <1>8, <1>9, <1>10 DEF IInv

\* A record is added: it is the record of the pair the loop is at.
LEMMA AppendPreserves ==
  ASSUME IInv, AppendRecord
  PROVE  IInv'
<1>1. /\ given' = given /\ plan' = plan /\ identity' = identity /\ claims' = claims
      /\ swaps' = swaps /\ ranBy' = ranBy /\ faulted' = faulted /\ pinned' = pinned
      /\ pc = "append" /\ context' = None
      /\ records' = Append(records, context) /\ KeyOf(context) = Key
      /\ pc' = IF Len(records') = Len(Order) THEN "build" ELSE "before"
  BY DEF AppendRecord, RecordHolds, history
<1>2. InLoop /\ Progress /\ Attestation /\ Checked
  BY <1>1 DEF InLoop, IInv
<1>3. /\ given.entry = "evaluate" /\ OrderIsComplete
      /\ Len(records) \in Nat /\ Len(records) < Len(Order)
      /\ Len(Order) \in Nat
  BY <1>2, Kinds, KeyTyped, EvaluationAssumption DEF Listed, Order
<1>4. /\ records' \in Seq(Contexts) /\ Len(records') = Len(records) + 1
      /\ DOMAIN records' = 1 .. (Len(records) + 1) /\ DOMAIN records = 1 .. Len(records)
      /\ \A i \in 1 .. Len(records) : records'[i] = records[i]
      /\ records'[Len(records) + 1] = context
  BY <1>1, <1>2 DEF Progress
<1>5. TypeOK'
  <2>1. \A i \in DOMAIN records : KeyOf(records[i]) = Order[i]
    BY <1>3 DEF IInv, TypeOK
  <2>2. KeyOf(records'[Len(records) + 1]) = Order[Len(records) + 1]
    BY <1>1, <1>4 DEF Key
  <2>3. \A i \in DOMAIN records' : KeyOf(records'[i]) = Order[i]
    BY <1>3, <1>4, <2>1, <2>2
  <2>4. Len(records') <= Len(Order)
    BY <1>3, <1>4
  <2>5. Order' = Order
    BY <1>1 DEF Order
  <2>6. pc' \in {"build", "before"}
    BY <1>1
  <2> QED
    BY <1>1, <2>3, <2>4, <2>5, <2>6 DEF IInv, TypeOK, KeyOf
<1>6. Progress'
  <2>1. pc' = "before" => Len(records') < Len(Order)
    BY <1>1, <1>3, <1>4
  <2>2. Order' = Order /\ OrderIsComplete'
    BY <1>1, <1>3 DEF OrderIsComplete, Order
  <2>3. pc' \in {"build", "before"}
    BY <1>1
  <2>4. /\ given' \in Scenarios /\ pinned' = callerLimits /\ records' \in Seq(Contexts)
        /\ identity' \in [Methods -> Identities] /\ ranBy' \in Seq(Identities)
        /\ given'.entry = "evaluate" /\ context' = None
    BY <1>1, <1>2, <1>3, <1>4 DEF Progress
  <2>5. InLoop' => Len(records') < Len(Order')
    BY <2>1, <2>2, <2>3 DEF InLoop
  <2> QED
    BY <2>2, <2>3, <2>4, <2>5 DEF Progress, Contexts, Identities
<1>7. Attestation'
  <2>1. \A i : Attested(i)' = Attested(i)
    BY <1>1 DEF Attested, MethodAt, Order
  <2>2. \A i \in 1 .. (Len(records) + 1) : Attested(i)
    BY <1>1, <1>2, <1>3 DEF Attestation
  <2>3. pc' \in {"build", "before"} /\ Len(ranBy) = Len(records')
        /\ \A m \in Methods : identity[m] = Genuine[m] \/ swaps[m] >= 1
    BY <1>1, <1>2, <1>3, <1>4 DEF Attestation
  <2>4. Len(records') = Len(records) + 1
    BY <1>4
  <2>5. Len(records') \in Nat
    BY <1>3, <2>4
  <2> QED
    BY <1>1, <2>1, <2>2, <2>3, <2>4, <2>5 DEF Attestation
<1>8. Checked'
  BY <1>1 DEF Checked
<1> QED
  BY <1>5, <1>6, <1>7, <1>8 DEF IInv

\* A claim set is returned: it has been checked against the limits in force.
LEMMA ReturnPreserves ==
  ASSUME IInv, Build \/ Load
  PROVE  IInv'
<1>1. /\ given' = given /\ plan' = plan /\ identity' = identity /\ records' = records
      /\ context' = context /\ swaps' = swaps /\ ranBy' = ranBy
      /\ faulted' = faulted /\ pinned' = pinned
      /\ pc \in {"new", "build"} /\ pc' = "returned"
      /\ pc = "new" => given.entry # "evaluate"
  BY DEF Build, Load, Ready, history
<1>2. Progress /\ Attestation /\ pinned = callerLimits
  BY DEF IInv, Progress
<1>3. TypeOK'
  <2>1. context = None
    BY <1>1, <1>2 DEF Progress
  <2> QED
    BY <1>1, <2>1 DEF IInv, TypeOK, Order, KeyOf, None
<1>4. Progress'
  BY <1>1, <1>2 DEF Progress, InLoop, Order, OrderIsComplete
<1>5. Attestation'
  <2>1. \A i : Attested(i)' = Attested(i)
    BY <1>1 DEF Attested, MethodAt, Order
  <2> QED
    BY <1>1, <1>2, <2>1 DEF Attestation
<1>6. Checked'
  <2>1. CASE Build
    <3>1. Listed(Supplied)
      <4>1. Listed(records)
        BY <1>2, Kinds DEF Listed
      <4>2. Listed(given.records)
        BY <1>2, EvaluationAssumption DEF Progress
      <4> QED
        BY <4>1, <4>2 DEF Supplied
    <3>2. Listed(Assemble(Supplied, pinned).runs)
      BY <3>1, AssembledIsListed
    <3>3. Listed(claims'.runs)
      BY <2>1, <3>2 DEF Build, SnapshotLimits
    <3>4. /\ claims' = Assemble(Supplied, pinned)
          /\ Structural(Assemble(Supplied, pinned)) /\ BoundTo(Assemble(Supplied, pinned), pinned)
      BY <2>1 DEF Build, Builds, SnapshotLimits
    <3> QED
      BY <1>2, <3>3, <3>4 DEF Checked
  <2>2. CASE Load
    <3>1. Listed(given.payload.runs)
      BY <1>2, EvaluationAssumption DEF Progress
    <3> QED
      BY <1>2, <2>2, <3>1 DEF Load, Checked, SnapshotLimits
  <2> QED
    BY <2>1, <2>2
<1> QED
  BY <1>3, <1>4, <1>5, <1>6 DEF IInv

\* A backend presents another identity.
LEMMA SwapPreserves ==
  ASSUME IInv, NEW m \in Methods, NEW p \in Programs, NEW b \in Backends, Swap(m, p, b)
  PROVE  IInv'
<1> DEFINE other == [program |-> p, backend |-> b]
<1>1. /\ given' = given /\ pc' = pc /\ plan' = plan /\ pinned' = pinned
      /\ context' = context /\ records' = records /\ claims' = claims
      /\ ranBy' = ranBy /\ faulted' = faulted
      /\ pc \notin {"new", "returned", "refused"}
      /\ identity' = [identity EXCEPT ![m] = other]
      /\ swaps' = [swaps EXCEPT ![m] = @ + 1]
  BY DEF Swap, BackendsRun
<1>2. /\ identity' \in [Methods -> Identities] /\ swaps' \in [Methods -> Nat]
      /\ swaps'[m] = swaps[m] + 1 /\ swaps[m] \in Nat
      /\ \A n \in Methods : n # m => identity'[n] = identity[n] /\ swaps'[n] = swaps[n]
      /\ \A n \in Methods : swaps'[n] >= swaps[n] /\ swaps[n] \in Nat
  <2>1. identity \in [Methods -> Identities] /\ swaps \in [Methods -> Nat] /\ other \in Identities
    BY Kinds, Genuineness DEF IInv, TypeOK
  <2> HIDE DEF other
  <2>2. QED BY <1>1, <2>1
<1>3. TypeOK'
  BY <1>1, <1>2 DEF IInv, TypeOK, Order, KeyOf, Identities, None
<1>4. Progress'
  <2>1. /\ given' \in Scenarios /\ pinned' = callerLimits /\ identity' \in [Methods -> Identities]
        /\ records' \in Seq(Contexts) /\ ranBy' \in Seq(Identities)
    BY <1>1, <1>2, Kinds DEF IInv
  <2>2. OrderIsComplete' = OrderIsComplete /\ InLoop' = InLoop /\ Order' = Order
    BY <1>1 DEF OrderIsComplete, Order, InLoop
  <2>3. Contexts' = Contexts /\ Identities' = Identities
    BY DEF Contexts, Identities, None
  <2>4. QED BY <1>1, <2>1, <2>2, <2>3 DEF IInv, Progress
<1>5. Attestation'
  <2> SUFFICES ASSUME given.entry = "evaluate" PROVE Attestation'
    BY <1>1 DEF Attestation
  <2>1. Attestation /\ Progress /\ OrderIsComplete
    BY <1>1 DEF IInv, Progress
  <2>2. \A i \in DOMAIN Order : MethodAt(i) \in Methods /\ MethodAt(i)' = MethodAt(i)
    BY <1>1, <2>1 DEF OrderIsComplete, MethodAt, Order, Keys
  <2>3. \A i \in DOMAIN Order : Attested(i) => Attested(i)'
    BY <1>1, <1>2, <2>2 DEF Attested
  <2>4. pc # "pin" => \A n \in Methods : identity'[n] = Genuine[n] \/ swaps'[n] >= 1
    <3>1. pc # "pin" => \A n \in Methods : identity[n] = Genuine[n] \/ swaps[n] >= 1
      BY <1>1, <2>1 DEF Attestation
    <3> HIDE DEF other
    <3>2. QED BY <1>2, <3>1
  <2>5. 1 .. Len(records) \subseteq DOMAIN Order
    <3>1. Listed(Order) /\ Len(records) \in Nat
      BY <2>1, Kinds, EvaluationAssumption DEF Order
    <3>2. Len(records) <= Len(Order)
      BY DEF IInv, TypeOK
    <3>3. QED BY <3>1, <3>2 DEF Listed
  <2>6. InLoop => Len(records) + 1 \in DOMAIN Order
    BY <2>1, KeyTyped
  <2>7. ASSUME NEW passes, NEW passing, NEW i \in DOMAIN Order, passes # passing => MethodAt(i) = m,
               ranBy[i] = Genuine[MethodAt(i)] \/ MustChangeAgain(i, passes)
        PROVE  ranBy[i] = Genuine[MethodAt(i)]
               \/ (swaps'[MethodAt(i)] >= 1 /\ (passing => swaps'[MethodAt(i)] >= 2))
    <3>1. MethodAt(i) \in Methods
      BY <2>2
    <3>2. CASE MethodAt(i) = m
      BY <1>2, <2>7, <3>2 DEF MustChangeAgain
    <3>3. CASE MethodAt(i) # m
      BY <1>2, <2>7, <3>1, <3>3 DEF MustChangeAgain
    <3>4. QED BY <3>2, <3>3
  <2> DEFINE i == Len(records) + 1
             n == MethodAt(i)
  <2>8. ASSUME pc \in {"after", "half after"}
        PROVE  /\ i \in DOMAIN Order /\ MethodAt(i)' = n
               /\ n # m => identity'[n] = identity[n] /\ Expected(n)' = Expected(n)
    BY <1>1, <1>2, <2>2, <2>6, <2>8 DEF InLoop, Expected
  <2>9. ASSUME pc = "after"
        PROVE  ranBy[i] = Genuine[n] \/ MustChangeAgain(i, Expected(n))'
    BY <1>1, <2>1, <2>7, <2>8, <2>9 DEF Attestation, MustChangeAgain
  <2>10. ASSUME pc = "half after"
         PROVE  ranBy[i] = Genuine[n] \/ MustChangeAgain(i, identity[n].backend = expectedBackend)'
    BY <1>1, <2>1, <2>7, <2>8, <2>10 DEF Attestation, MustChangeAgain
  <2>11. QED
    BY <1>1, <2>1, <2>3, <2>4, <2>5, <2>6, <2>8, <2>9, <2>10 DEF Attestation, InLoop
<1>6. Checked'
  BY <1>1 DEF Checked
<1> QED
  BY <1>3, <1>4, <1>5, <1>6 DEF IInv

\* A backend writes to the plan, whose limits have been copied by then.
LEMMA WritePreserves ==
  ASSUME IInv, NEW l \in Limits, WritePlan(l)
  PROVE  IInv'
<1>1. /\ given' = given /\ pc' = pc /\ identity' = identity /\ records' = records
      /\ context' = context /\ claims' = claims /\ swaps' = swaps /\ ranBy' = ranBy
      /\ faulted' = faulted /\ pinned' = pinned
      /\ plan' \in Limits /\ pc \notin {"new", "returned"}
  BY DEF WritePlan, BackendsRun, history
<1>2. TypeOK'
  BY <1>1 DEF IInv, TypeOK, Order, KeyOf, None
<1>3. Progress'
  <2>1. /\ given' \in Scenarios /\ pinned' = callerLimits /\ identity' \in [Methods -> Identities]
        /\ records' \in Seq(Contexts) /\ ranBy' \in Seq(Identities)
    BY <1>1, Kinds DEF IInv
  <2>2. OrderIsComplete' = OrderIsComplete /\ InLoop' = InLoop /\ Order' = Order
    BY <1>1 DEF OrderIsComplete, Order, InLoop
  <2>3. Contexts' = Contexts /\ Identities' = Identities
    BY DEF Contexts, Identities, None
  <2>4. QED BY <1>1, <2>1, <2>2, <2>3 DEF IInv, Progress
<1>4. Attestation'
  <2>1. \A i : Attested(i)' = Attested(i) /\ MethodAt(i)' = MethodAt(i)
    BY <1>1 DEF Attested, MethodAt, Order
  <2> QED
    BY <1>1, <2>1 DEF IInv, Attestation, MustChangeAgain, Expected
<1>5. Checked'
  BY <1>1 DEF Checked
<1> QED
  BY <1>2, <1>3, <1>4, <1>5 DEF IInv

\* Every step keeps the invariant.
LEMMA NextPreserves ==
  ASSUME IInv, [Next]_vars
  PROVE  IInv'
<1>1. CASE AcceptOrder \/ Pin
  BY <1>1, StartPreserves
<1>2. CASE RecheckProgram \/ RecheckBackend \/ BindProgram
  BY <1>2, RecheckPreserves
<1>3. CASE Bind
  BY <1>3, BindPreserves
<1>4. CASE \E a \in Answers : Invoke(a)
  BY <1>4, InvokePreserves
<1>5. CASE AppendRecord
  BY <1>5, AppendPreserves
<1>6. CASE Build \/ Load
  BY <1>6, ReturnPreserves
<1>7. CASE RefuseOrder \/ RefusePlan \/ RefuseChanged \/ RefuseProgram \/ HarnessFails
           \/ RefuseRecord \/ RefuseBuild \/ RefuseLoad
  <2>1. Refuse /\ swaps' = swaps /\ ranBy' = ranBy /\ faulted' \in BOOLEAN
    BY <1>7 DEF RefuseOrder, RefusePlan, RefuseChanged, RefuseProgram, HarnessFails,
                RefuseRecord, RefuseBuild, RefuseLoad, history, IInv, TypeOK
  <2> QED
    BY <2>1, RefusalKeeps
<1>8. CASE \E m \in Methods, p \in Programs, b \in Backends : Swap(m, p, b)
  BY <1>8, SwapPreserves
<1>9. CASE \E l \in Limits : WritePlan(l)
  BY <1>9, WritePreserves
<1>10. CASE Done \/ UNCHANGED vars
  <2>1. UNCHANGED vars
    BY <1>10 DEF Done
  <2>2. TypeOK' /\ Progress'
    <3>1. TypeOK'
      BY <2>1 DEF vars, IInv, TypeOK, Order, KeyOf, None
    <3>2. OrderIsComplete' = OrderIsComplete
      BY <2>1 DEF vars, OrderIsComplete, Order
    <3>3. Progress'
      BY <2>1, <3>2 DEF vars, IInv, Progress, InLoop, Order, KeyOf, None, Contexts, Identities
    <3>4. QED BY <3>1, <3>3
  <2>3. Attestation'
    <3>1. \A i : Attested(i)' = Attested(i) /\ MethodAt(i)' = MethodAt(i)
      BY <2>1 DEF vars, Attested, MethodAt, Order
    <3> QED
      BY <2>1, <3>1 DEF vars, IInv, Attestation, MustChangeAgain, Expected
  <2>4. Checked'
    BY <2>1 DEF vars, IInv, Checked, Structural, BoundTo, Header, RunContext
  <2> QED
    BY <2>2, <2>3, <2>4 DEF IInv
<1> QED
  BY <1>1, <1>2, <1>3, <1>4, <1>5, <1>6, <1>7, <1>8, <1>9, <1>10 DEF Next, Evaluate

THEOREM EvaluationInvariant == Spec => []IInv
BY InitInvariant, NextPreserves, PTL DEF Spec

-----------------------------------------------------------------------------
(* What it means for a caller *)

\* The evaluator's state has its types, and the records are those of the order so far.
THEOREM EvaluationTypeOK == Spec => []TypeOK
<1>1. IInv => TypeOK
  BY DEF IInv
<1> QED
  BY <1>1, EvaluationInvariant, PTL

\* Every record of a returned claim set was answered by the backend that was pinned, or by
\* one that changed its identity and changed it back between the two identity checks.
THEOREM EvaluationRanAsPinned == Spec => []RanAsPinned
<1>1. IInv => RanAsPinned
  <2> SUFFICES ASSUME IInv, pc = "returned", given.entry = "evaluate"
               PROVE  \A i \in DOMAIN ranBy : Attested(i)
    BY DEF RanAsPinned, Attested, MethodAt
  <2>1. Len(ranBy) = Len(records) /\ \A i \in 1 .. Len(records) : Attested(i)
    BY DEF IInv, Attestation
  <2>2. DOMAIN ranBy = 1 .. Len(ranBy)
    BY DEF IInv, Progress
  <2> QED
    BY <2>1, <2>2
<1> QED
  BY <1>1, EvaluationInvariant, PTL

\* A set that passes both validations has a good record for every pair.
LEMMA CheckedIsComplete ==
  ASSUME NEW set, Listed(set.runs), Structural(set), BoundTo(set, callerLimits)
  PROVE  /\ set.limits = callerLimits /\ set.backend = expectedBackend
         /\ set.evidence = roots.evidence /\ set.assignment = roots.assignment
         /\ Complete(RecordsOf(set))
<1>1. /\ set.limits = callerLimits /\ set.backend = expectedBackend
      /\ set.evidence = roots.evidence /\ set.assignment = roots.assignment
  BY DEF BoundTo
<1>2. Len(RecordsOf(set)) = Cardinality(Keys) /\ DOMAIN RecordsOf(set) = DOMAIN set.runs
  <2>1. Len(set.runs) \in Nat /\ DOMAIN set.runs = 1 .. Len(set.runs)
    BY DEF Listed
  <2>2. RecordsOf(set) = [i \in 1 .. Len(set.runs) |-> set.runs[i].record]
    BY <2>1 DEF RecordsOf
  <2>3. Len(RecordsOf(set)) = Len(set.runs)
    BY <2>1, <2>2
  <2> QED
    BY <2>2, <2>3, <2>1 DEF Structural
<1>3. ASSUME NEW k \in Keys
      PROVE  \E i \in DOMAIN RecordsOf(set) : GoodRecord(RecordsOf(set)[i], k)
  <2>1. k[1] \in Methods /\ k[2] \in Cases /\ k = <<k[1], k[2]>>
    BY DEF Keys
  <2>2. k[2] \in EvidenceOf(set.runs, k[1])
    BY <2>1 DEF BoundTo
  <2>3. PICK i \in DOMAIN set.runs : set.runs[i].method = k[1] /\ set.runs[i].record.evidence = k[2]
    BY <2>2 DEF EvidenceOf
  <2> DEFINE r == set.runs[i].record
  <2>4. /\ r.method = k[1] /\ r.implementation = program[k[1]]
        /\ r.backend = set.backend /\ r.limits = set.limits
    BY <2>3 DEF Structural, RunContext
  <2>5. r.request = request[k[2]]
    BY <2>3 DEF BoundTo
  <2>6. GoodRecord(r, k)
    BY <1>1, <2>1, <2>3, <2>4, <2>5 DEF GoodRecord, KeyOf
  <2>7. RecordsOf(set)[i] = r
    BY <2>3 DEF RecordsOf
  <2> QED
    BY <1>2, <2>6, <2>7
<1> QED
  BY <1>1, <1>2, <1>3 DEF Complete

\* Whichever of the three calls returns a claim set, it holds exactly one record for every
\* pair, each of the method's own program and the case's own request, under the pinned
\* backend and the caller's limits, whatever the backends did to themselves and the plan.
THEOREM EvaluationReturnedIsBound == Spec => []ReturnedIsBound
<1>1. IInv => ReturnedIsBound
  BY CheckedIsComplete DEF IInv, Checked, ReturnedIsBound
<1> QED
  BY <1>1, EvaluationInvariant, PTL

-----------------------------------------------------------------------------
(* The sort.  Runs are ordered by the rank of the method, then by evidence,  *)
(* and runs that are equal so far by where they stand, since it is stable.   *)

RunKey(r) == <<r.method, r.record.evidence>>
Sortable(runs) ==
  /\ Listed(runs)
  /\ \A i \in DOMAIN runs : runs[i].method \in Methods /\ runs[i].record.evidence \in Cases
Distinct(runs) == \A i, j \in DOMAIN runs : RunKey(runs[i]) = RunKey(runs[j]) => i = j
Increasing(runs) == \A i, j \in DOMAIN runs : i < j => Precedes(runs[i], runs[j])

Before(runs, i, j) ==
  Precedes(runs[i], runs[j]) \/ (~ Precedes(runs[j], runs[i]) /\ i < j)
PlaceOf(runs, i) == Cardinality({j \in DOMAIN runs : Before(runs, j, i)}) + 1

LEMMA SortedByPlace ==
  ASSUME NEW runs
  PROVE  Sorted(runs) = [n \in DOMAIN runs |-> runs[CHOOSE i \in DOMAIN runs : PlaceOf(runs, i) = n]]
BY DEF Sorted, PlaceOf, Before

LEMMA RankFacts ==
  /\ Len(MethodList) \in Nat /\ DOMAIN MethodList = 1 .. Len(MethodList)
  /\ \A m \in Methods : Rank(m) \in 1 .. Len(MethodList) /\ MethodList[Rank(m)] = m
  /\ \A i \in 1 .. Len(MethodList) : MethodList[i] \in Methods /\ Rank(MethodList[i]) = i
<1>1. Len(MethodList) \in Nat /\ DOMAIN MethodList = 1 .. Len(MethodList)
  BY EvaluationAssumption DEF Listed
<1>2. \A m \in Methods : Rank(m) \in DOMAIN MethodList /\ MethodList[Rank(m)] = m
  BY DEF Methods, Rank
<1>3. \A i \in DOMAIN MethodList : MethodList[i] \in Methods
  BY DEF Methods
<1>4. \A i \in DOMAIN MethodList : Rank(MethodList[i]) = i
  BY <1>2, <1>3, EvaluationAssumption
<1>5. QED BY <1>1, <1>2, <1>3, <1>4

\* The order of two runs is the order of two pairs of numbers.
LEMMA PrecedesAsNumbers ==
  ASSUME NEW runs, Sortable(runs), NEW i \in DOMAIN runs, NEW j \in DOMAIN runs
  PROVE  LET a == Rank(runs[i].method)
             b == Rank(runs[j].method)
             c == runs[i].record.evidence
             d == runs[j].record.evidence
         IN  /\ a \in Nat /\ b \in Nat /\ c \in Nat /\ d \in Nat
             /\ Precedes(runs[i], runs[j]) <=> a < b \/ (a = b /\ c < d)
             /\ RunKey(runs[i]) = RunKey(runs[j]) <=> a = b /\ c = d
<1>1. /\ runs[i].method \in Methods /\ runs[j].method \in Methods
      /\ runs[i].record.evidence \in Nat /\ runs[j].record.evidence \in Nat
  BY EvaluationAssumption DEF Sortable
<1>2. runs[i].method = runs[j].method <=> Rank(runs[i].method) = Rank(runs[j].method)
  BY <1>1, RankFacts
<1>3. Rank(runs[i].method) \in Nat /\ Rank(runs[j].method) \in Nat
  BY <1>1, RankFacts
<1>4. Precedes(runs[i], runs[j]) <=>
        \/ Rank(runs[i].method) < Rank(runs[j].method)
        \/ /\ Rank(runs[i].method) = Rank(runs[j].method)
           /\ runs[i].record.evidence < runs[j].record.evidence
  BY <1>2 DEF Precedes
<1>5. QED BY <1>1, <1>2, <1>3, <1>4 DEF RunKey

LEMMA BeforeIsOrder ==
  ASSUME NEW runs, Sortable(runs)
  PROVE  /\ \A i \in DOMAIN runs : ~ Before(runs, i, i)
         /\ \A i, j \in DOMAIN runs : i = j \/ Before(runs, i, j) \/ Before(runs, j, i)
         /\ \A i, j, k \in DOMAIN runs :
              Before(runs, i, j) /\ Before(runs, j, k) => Before(runs, i, k)
<1> DEFINE rank == [i \in DOMAIN runs |-> Rank(runs[i].method)]
           evid == [i \in DOMAIN runs |-> runs[i].record.evidence]
<1>1. DOMAIN runs \subseteq Nat
  BY DEF Sortable, Listed
<1>2. \A i, j \in DOMAIN runs :
        /\ rank[i] \in Nat /\ evid[i] \in Nat /\ i \in Nat
        /\ Precedes(runs[i], runs[j]) <=> rank[i] < rank[j] \/ (rank[i] = rank[j] /\ evid[i] < evid[j])
  BY <1>1, PrecedesAsNumbers
<1> HIDE DEF rank, evid
<1>3. \A i, j \in DOMAIN runs :
        Before(runs, i, j) <=>
          \/ rank[i] < rank[j]
          \/ rank[i] = rank[j] /\ evid[i] < evid[j]
          \/ rank[i] = rank[j] /\ evid[i] = evid[j] /\ i < j
  BY <1>2 DEF Before
<1>4. \A i \in DOMAIN runs : ~ Before(runs, i, i)
  BY <1>2, <1>3
<1>5. \A i, j \in DOMAIN runs : i = j \/ Before(runs, i, j) \/ Before(runs, j, i)
  BY <1>2, <1>3
<1>6. \A i, j, k \in DOMAIN runs :
        Before(runs, i, j) /\ Before(runs, j, k) => Before(runs, i, k)
  BY <1>2, <1>3
<1>7. QED BY <1>4, <1>5, <1>6

LEMMA IntervalSize ==
  ASSUME NEW n \in Nat
  PROVE  IsFiniteSet(1 .. n) /\ Cardinality(1 .. n) = n
<1>1. IsFiniteSet(1 .. n) /\ Cardinality(1 .. n) = IF 1 > n THEN 0 ELSE n - 1 + 1
  BY FS_Interval
<1>2. QED BY <1>1

\* An injection of 1 .. n into itself hits every number.
LEMMA InjectionHits ==
  ASSUME NEW n \in Nat, NEW f \in [1 .. n -> 1 .. n],
         \A i, j \in 1 .. n : f[i] = f[j] => i = j
  PROVE  \A k \in 1 .. n : \E i \in 1 .. n : f[i] = k
<1>1. f \in Injection(1 .. n, 1 .. n)
  BY Fun_IsInj
<1>2. IsFiniteSet(1 .. n)
  BY FS_Interval
<1>3. f \in Surjection(1 .. n, 1 .. n)
  BY <1>1, <1>2, FS_Injection
<1>4. QED BY <1>3, Zenon DEF Surjection

\* Every place is taken by one run.
LEMMA PlacesArePermutation ==
  ASSUME NEW runs, Sortable(runs)
  PROVE  /\ \A i, j \in DOMAIN runs : Before(runs, i, j) <=> PlaceOf(runs, i) < PlaceOf(runs, j)
         /\ \A i \in DOMAIN runs : PlaceOf(runs, i) \in DOMAIN runs
         /\ \A i, j \in DOMAIN runs : PlaceOf(runs, i) = PlaceOf(runs, j) => i = j
         /\ \A n \in DOMAIN runs : \E i \in DOMAIN runs : PlaceOf(runs, i) = n
<1> DEFINE N == Len(runs)
           below(i) == {j \in DOMAIN runs : Before(runs, j, i)}
           f == [i \in 1 .. N |-> PlaceOf(runs, i)]
<1>1. N \in Nat /\ DOMAIN runs = 1 .. N
  BY DEF Sortable, Listed
<1>2. IsFiniteSet(DOMAIN runs) /\ Cardinality(DOMAIN runs) = N
  BY <1>1, IntervalSize
<1>3. \A i \in DOMAIN runs :
        /\ below(i) \subseteq DOMAIN runs \ {i}
        /\ IsFiniteSet(below(i)) /\ Cardinality(below(i)) \in Nat
        /\ Cardinality(below(i)) <= N - 1
  <2>1. SUFFICES ASSUME NEW i \in DOMAIN runs
                 PROVE  /\ below(i) \subseteq DOMAIN runs \ {i}
                        /\ IsFiniteSet(below(i)) /\ Cardinality(below(i)) \in Nat
                        /\ Cardinality(below(i)) <= N - 1
    OBVIOUS
  <2>2. below(i) \subseteq DOMAIN runs \ {i}
    BY <2>1, BeforeIsOrder
  <2>3. IsFiniteSet(DOMAIN runs \ {i}) /\ Cardinality(DOMAIN runs \ {i}) = N - 1
    BY <1>2, <2>1, FS_RemoveElement
  <2>4. IsFiniteSet(below(i)) /\ Cardinality(below(i)) <= N - 1
    BY <2>2, <2>3, FS_Subset
  <2>5. QED BY <2>2, <2>4, FS_CardinalityType
<1>4. ASSUME NEW i \in DOMAIN runs, NEW j \in DOMAIN runs, Before(runs, i, j)
      PROVE  PlaceOf(runs, i) < PlaceOf(runs, j)
  <2>1. below(i) \cup {i} \subseteq below(j) /\ i \notin below(i)
    BY <1>4, BeforeIsOrder
  <2>2. Cardinality(below(i) \cup {i}) = Cardinality(below(i)) + 1
    BY <1>3, <2>1, FS_AddElement
  <2>3. Cardinality(below(i) \cup {i}) <= Cardinality(below(j))
    BY <1>3, <2>1, FS_Subset
  <2>4. PlaceOf(runs, i) = Cardinality(below(i)) + 1 /\ PlaceOf(runs, j) = Cardinality(below(j)) + 1
    BY DEF PlaceOf
  <2>5. Cardinality(below(i)) \in Nat /\ Cardinality(below(j)) \in Nat
    BY <1>3
  <2> HIDE DEF below
  <2>6. QED BY <2>2, <2>3, <2>4, <2>5
<1>5. \A i \in DOMAIN runs : PlaceOf(runs, i) \in 1 .. N
  <2>1. \A i : PlaceOf(runs, i) = Cardinality(below(i)) + 1
    BY DEF PlaceOf
  <2> HIDE DEF below
  <2>2. QED BY <1>1, <1>3, <2>1
<1>6. \A i, j \in DOMAIN runs : PlaceOf(runs, i) = PlaceOf(runs, j) => i = j
  BY <1>4, <1>5, BeforeIsOrder
<1>7. \A i, j \in DOMAIN runs : Before(runs, i, j) <=> PlaceOf(runs, i) < PlaceOf(runs, j)
  BY <1>4, <1>5, BeforeIsOrder
<1>8. \A n \in 1 .. N : \E i \in 1 .. N : f[i] = n
  <2>1. f \in [1 .. N -> 1 .. N]
    BY <1>1, <1>5
  <2>2. \A i, j \in 1 .. N : f[i] = f[j] => i = j
    BY <1>1, <1>6
  <2> HIDE DEF f, N
  <2>3. QED BY <1>1, <2>1, <2>2, InjectionHits
<1>9. \A n \in DOMAIN runs : \E i \in DOMAIN runs : PlaceOf(runs, i) = n
  BY <1>1, <1>8
<1>10. QED BY <1>1, <1>5, <1>6, <1>7, <1>9

\* Sorting permutes the runs.
LEMMA SortPermutes ==
  ASSUME NEW runs, Sortable(runs)
  PROVE  \E f \in [DOMAIN runs -> DOMAIN runs] :
           /\ Sorted(runs) = [n \in DOMAIN runs |-> runs[f[n]]]
           /\ \A i \in DOMAIN runs : \E n \in DOMAIN runs : f[n] = i
           /\ \A n, p \in DOMAIN runs : n < p <=> Before(runs, f[n], f[p])
           /\ \A n, p \in DOMAIN runs : f[n] = f[p] => n = p
           /\ \A n \in DOMAIN runs : f[n] = CHOOSE i \in DOMAIN runs : PlaceOf(runs, i) = n
<1> DEFINE f == [n \in DOMAIN runs |-> CHOOSE i \in DOMAIN runs : PlaceOf(runs, i) = n]
<1>1. \A n \in DOMAIN runs : f[n] \in DOMAIN runs /\ PlaceOf(runs, f[n]) = n
  BY PlacesArePermutation
<1>2. f \in [DOMAIN runs -> DOMAIN runs]
  BY <1>1
<1>3. Sorted(runs) = [n \in DOMAIN runs |-> runs[f[n]]]
  BY SortedByPlace
<1>4. \A i \in DOMAIN runs : \E n \in DOMAIN runs : f[n] = i
  <2>1. \A i \in DOMAIN runs : PlaceOf(runs, i) \in DOMAIN runs
    BY PlacesArePermutation
  <2>2. \A i \in DOMAIN runs : f[PlaceOf(runs, i)] = i
    BY <1>1, <2>1, PlacesArePermutation
  <2>3. QED BY <2>1, <2>2
<1>5. \A n, p \in DOMAIN runs : n < p <=> Before(runs, f[n], f[p])
  BY <1>1, PlacesArePermutation
<1>6. \A n, p \in DOMAIN runs : f[n] = f[p] => n = p
  BY <1>1
<1>7. QED BY <1>2, <1>3, <1>4, <1>5, <1>6

\* A list of distinct runs that sorting leaves as it is is in increasing order.
LEMMA FixpointIncreases ==
  ASSUME NEW runs, Sortable(runs), Distinct(runs), runs = Sorted(runs)
  PROVE  Increasing(runs)
<1>1. PICK f \in [DOMAIN runs -> DOMAIN runs] :
           /\ Sorted(runs) = [n \in DOMAIN runs |-> runs[f[n]]]
           /\ \A n, p \in DOMAIN runs : n < p <=> Before(runs, f[n], f[p])
  BY SortPermutes
<1>2. \A n \in DOMAIN runs : runs[n] = runs[f[n]]
  BY <1>1
<1>3. \A n \in DOMAIN runs : f[n] = n
  BY <1>2 DEF Distinct
<1>4. \A n, p \in DOMAIN runs : n < p => Before(runs, n, p) /\ n # p
  BY <1>1, <1>3 DEF Sortable, Listed
<1>5. SUFFICES ASSUME NEW n \in DOMAIN runs, NEW p \in DOMAIN runs, n < p
               PROVE  Precedes(runs[n], runs[p])
  BY DEF Increasing
<1>6. RunKey(runs[n]) # RunKey(runs[p])
  BY <1>4, <1>5 DEF Distinct
<1>7. Precedes(runs[n], runs[p]) \/ ~ Precedes(runs[p], runs[n])
  BY <1>4, <1>5 DEF Before
<1>8. Precedes(runs[n], runs[p]) \/ Precedes(runs[p], runs[n])
  BY <1>6, PrecedesAsNumbers
<1>9. QED BY <1>7, <1>8

\* And conversely.
LEMMA IncreasingIsFixpoint ==
  ASSUME NEW runs, Sortable(runs), Increasing(runs)
  PROVE  runs = Sorted(runs)
<1> DEFINE N == Len(runs)
<1>1. N \in Nat /\ DOMAIN runs = 1 .. N
  BY DEF Sortable, Listed
<1>2. \A i, j \in DOMAIN runs : Before(runs, i, j) <=> i < j
  <2>1. \A i, j \in DOMAIN runs : i < j => Before(runs, i, j)
    BY DEF Increasing, Before
  <2>2. \A i, j \in DOMAIN runs : i \in Int /\ j \in Int
    BY <1>1
  <2>3. \A i, j \in DOMAIN runs : Before(runs, i, j) => ~ Before(runs, j, i) /\ i # j
    BY BeforeIsOrder
  <2>4. \A i, j \in DOMAIN runs : i < j \/ i = j \/ j < i
    BY <2>2
  <2>5. QED BY <2>1, <2>3, <2>4
<1>3. \A i \in DOMAIN runs : PlaceOf(runs, i) = i
  <2>1. SUFFICES ASSUME NEW i \in DOMAIN runs PROVE PlaceOf(runs, i) = i
    OBVIOUS
  <2>2. {j \in DOMAIN runs : Before(runs, j, i)} = 1 .. (i - 1)
    <3>1. {j \in DOMAIN runs : Before(runs, j, i)} = {j \in DOMAIN runs : j < i}
      BY <1>2, <2>1
    <3>2. {j \in 1 .. N : j < i} = 1 .. (i - 1)
      BY <1>1, <2>1
    <3>3. QED BY <1>1, <3>1, <3>2
  <2>3. Cardinality(1 .. (i - 1)) = i - 1
    BY <1>1, <2>1, IntervalSize
  <2>4. PlaceOf(runs, i) = Cardinality(1 .. (i - 1)) + 1
    BY <2>2 DEF PlaceOf
  <2>5. QED BY <1>1, <2>1, <2>3, <2>4
<1>4. PICK f \in [DOMAIN runs -> DOMAIN runs] :
           /\ Sorted(runs) = [n \in DOMAIN runs |-> runs[f[n]]]
           /\ \A n \in DOMAIN runs : f[n] = CHOOSE i \in DOMAIN runs : PlaceOf(runs, i) = n
  BY SortPermutes
<1>5. \A n \in DOMAIN runs : f[n] = n
  BY <1>3, <1>4
<1>6. Sorted(runs) = [n \in DOMAIN runs |-> runs[n]]
  BY <1>4, <1>5
<1>7. runs = [n \in DOMAIN runs |-> runs[n]]
  BY DEF Sortable, Listed
<1>8. QED BY <1>6, <1>7

-----------------------------------------------------------------------------
(* The places.  The pairs are numbered: Index counts the pairs before one,   *)
(* Place takes a number back to its pair.                                    *)

LEMMA TimesGrows ==
  ASSUME NEW x \in Nat, NEW y \in Nat, NEW s \in Nat, x <= y
  PROVE  x * s <= y * s
BY SMTT(30)

LEMMA Division ==
  ASSUME NEW s \in Nat \ {0}
  PROVE  /\ \A q \in Nat, b \in 0 .. (s - 1) :
              (q * s + b) \div s = q /\ ((q * s + b) % s) = b /\ q * s + b \in Nat
         /\ \A n \in Nat :
              n \div s \in Nat /\ (n % s) \in 0 .. (s - 1) /\ (n \div s) * s + (n % s) = n
<1>1. ASSUME NEW q \in Nat, NEW b \in 0 .. (s - 1)
      PROVE  (q * s + b) \div s = q /\ ((q * s + b) % s) = b /\ q * s + b \in Nat
  BY SMTT(30)
<1>2. ASSUME NEW n \in Nat
      PROVE  n \div s \in Nat /\ (n % s) \in 0 .. (s - 1) /\ (n \div s) * s + (n % s) = n
  BY SMTT(30)
<1>3. QED BY <1>1, <1>2

\* Numbers to a base are ordered by their digits.
LEMMA DigitOrder ==
  ASSUME NEW s \in Nat \ {0}, NEW q \in Nat, NEW r \in Nat,
         NEW b \in 0 .. (s - 1), NEW c \in 0 .. (s - 1)
  PROVE  q * s + b < r * s + c <=> q < r \/ (q = r /\ b < c)
<1>1. q * s \in Nat /\ r * s \in Nat /\ (q + 1) * s = q * s + s /\ (r + 1) * s = r * s + s
  BY SMTT(30)
<1>2. q < r => q * s + b < r * s + c
  <2>1. q < r => (q + 1) * s <= r * s
    BY TimesGrows
  <2>2. QED BY <1>1, <2>1, SMTT(30)
<1>3. r < q => r * s + c < q * s + b
  <2>1. r < q => (r + 1) * s <= q * s
    BY TimesGrows
  <2>2. QED BY <1>1, <2>1, SMTT(30)
<1>4. CASE q < r
  BY <1>2, <1>4, SMTT(30)
<1>5. CASE r < q
  BY <1>1, <1>3, <1>5, SMTT(30)
<1>6. CASE q = r
  BY <1>1, <1>6, SMTT(30)
<1>7. QED BY <1>4, <1>5, <1>6

Size == Cardinality(Cases)
Lower(c) == {d \in Cases : d < c}
Below(c) == Cardinality(Lower(c))
Index(k) == (Rank(k[1]) - 1) * Size + Below(k[2]) + 1

\* The cases are numbered from 0 by how many are below them.
LEMMA CasesAreNumbered ==
  /\ Size \in Nat \ {0}
  /\ \A c \in Cases : Below(c) \in 0 .. (Size - 1)
  /\ \A c, d \in Cases : Below(c) < Below(d) <=> c < d
  /\ \A c, d \in Cases : Below(c) = Below(d) => c = d
  /\ \A b \in 0 .. (Size - 1) : \E c \in Cases : Below(c) = b
<1>1. IsFiniteSet(Cases) /\ Cases # {} /\ Cases \subseteq Nat
  BY EvaluationAssumption
<1>2. Size \in Nat \ {0}
  BY <1>1, FS_CardinalityType, FS_EmptySet DEF Size
<1>3. \A c \in Cases : IsFiniteSet(Lower(c)) /\ Below(c) \in Nat /\ Below(c) <= Size - 1
  <2> SUFFICES ASSUME NEW c \in Cases
               PROVE  IsFiniteSet(Lower(c)) /\ Below(c) \in Nat /\ Below(c) <= Size - 1
    OBVIOUS
  <2>1. Lower(c) \subseteq Cases \ {c}
    BY <1>1 DEF Lower
  <2>2. IsFiniteSet(Cases \ {c}) /\ Cardinality(Cases \ {c}) = Size - 1
    BY <1>1, FS_RemoveElement DEF Size
  <2>3. IsFiniteSet(Lower(c)) /\ Below(c) <= Size - 1
    BY <2>1, <2>2, FS_Subset DEF Below
  <2>4. QED BY <2>3, FS_CardinalityType DEF Below
<1>4. ASSUME NEW c \in Cases, NEW d \in Cases, c < d
      PROVE  Below(c) < Below(d)
  <2>1. Lower(c) \cup {c} \subseteq Lower(d) /\ c \notin Lower(c)
    <3>1. \A e \in Cases : e \in Nat
      BY <1>1
    <3>2. \A e \in Cases : (e < c => e < d) /\ ~ (c < c)
      BY <1>4, <3>1
    <3>3. QED BY <1>4, <3>2 DEF Lower
  <2>2. Cardinality(Lower(c) \cup {c}) = Below(c) + 1
    BY <1>3, <2>1, FS_AddElement DEF Below
  <2>3. Cardinality(Lower(c) \cup {c}) <= Below(d)
    BY <1>3, <2>1, FS_Subset DEF Below
  <2>4. QED BY <1>3, <2>2, <2>3
<1>5. \A c, d \in Cases : Below(c) \in Nat /\ (c < d \/ c = d \/ d < c)
  BY <1>1, <1>3
<1>6. \A c, d \in Cases : Below(c) = Below(d) => c = d
  BY <1>4, <1>5
<1>7. \A c, d \in Cases : Below(c) < Below(d) <=> c < d
  BY <1>4, <1>5
<1>8. \A b \in 0 .. (Size - 1) : \E c \in Cases : Below(c) = b
  <2> DEFINE f == [c \in Cases |-> Below(c) + 1]
  <2>1. f \in [Cases -> 1 .. Size] /\ \A c, d \in Cases : f[c] = f[d] => c = d
    BY <1>2, <1>3, <1>6
  <2>2. \A c \in Cases : f[c] = Below(c) + 1 /\ Below(c) \in Nat
    BY <1>3
  <2> HIDE DEF f
  <2>3. f \in Injection(Cases, 1 .. Size)
    BY <2>1, Fun_IsInj
  <2>4. IsFiniteSet(1 .. Size) /\ Cardinality(1 .. Size) = Cardinality(Cases)
    BY <1>2, IntervalSize DEF Size
  <2>5. f \in Surjection(Cases, 1 .. Size)
    BY <2>3, <2>4, FS_Injection
  <2>6. \A n \in 1 .. Size : \E c \in Cases : f[c] = n
    BY <2>5, Fun_SurjectionProperties
  <2> SUFFICES ASSUME NEW b \in 0 .. (Size - 1) PROVE \E c \in Cases : Below(c) = b
    OBVIOUS
  <2>7. b + 1 \in 1 .. Size
    BY <1>2
  <2>8. PICK c \in Cases : f[c] = b + 1
    BY <2>6, <2>7
  <2>9. Below(c) = b
    BY <2>2, <2>8
  <2>10. QED BY <2>9
<1>9. \A c \in Cases : Below(c) \in 0 .. (Size - 1)
  BY <1>2, <1>3
<1>10. QED BY <1>2, <1>6, <1>7, <1>8, <1>9

LEMMA KeysAreCounted ==
  /\ IsFiniteSet(Keys) /\ Cardinality(Keys) = Len(MethodList) * Size
  /\ Cardinality(Keys) \in Nat
<1>1. IsFiniteSet(Methods) /\ IsFiniteSet(Cases)
  BY EvaluationAssumption
<1>2. Cardinality(Methods) = Len(MethodList)
  <2> DEFINE f == [m \in Methods |-> Rank(m)]
  <2>1. f \in [Methods -> 1 .. Len(MethodList)]
        /\ \A m, n \in Methods : f[m] = f[n] => m = n
    BY RankFacts
  <2>2. \A i \in 1 .. Len(MethodList) : \E m \in Methods : f[m] = i
    BY RankFacts
  <2> HIDE DEF f
  <2>3. f \in Injection(Methods, 1 .. Len(MethodList)) /\ f \in Surjection(Methods, 1 .. Len(MethodList))
    BY <2>1, <2>2, Fun_IsInj, Fun_IsSurj
  <2>4. Cardinality(1 .. Len(MethodList)) = Cardinality(Methods)
    BY <1>1, <2>3, FS_Surjection
  <2>5. QED BY <2>4, RankFacts, IntervalSize
<1>3. QED BY <1>1, <1>2, FS_Product, FS_CardinalityType DEF Keys, Size

\* Index numbers the pairs from 1 in their order, and Place is its inverse.
LEMMA PairsAreNumbered ==
  /\ \A k \in Keys : Index(k) \in 1 .. Cardinality(Keys) /\ Place(Index(k)) = k
  /\ \A k, l \in Keys :
       Index(k) < Index(l) <=> Rank(k[1]) < Rank(l[1]) \/ (Rank(k[1]) = Rank(l[1]) /\ k[2] < l[2])
  /\ \A k, l \in Keys : Index(k) = Index(l) => k = l
  /\ \A n \in 1 .. Cardinality(Keys) : Place(n) \in Keys /\ Index(Place(n)) = n
<1> DEFINE L == Len(MethodList)
<1>1. Size \in Nat \ {0} /\ L \in Nat /\ Cardinality(Keys) = L * Size
  BY CasesAreNumbered, KeysAreCounted, RankFacts
<1>2. \A k \in Keys : /\ k[1] \in Methods /\ k[2] \in Cases /\ k = <<k[1], k[2]>>
                      /\ Rank(k[1]) \in 1 .. L /\ MethodList[Rank(k[1])] = k[1]
                      /\ Below(k[2]) \in 0 .. (Size - 1)
  BY RankFacts, CasesAreNumbered DEF Keys
<1> HIDE DEF L
<1>3. \A n : Place(n) = <<MethodList[((n - 1) \div Size) + 1],
                          CHOOSE c \in Cases : Below(c) = (n - 1) % Size>>
  BY DEF Place, Size, Below, Lower
<1>4. ASSUME NEW k \in Keys
      PROVE  Index(k) \in 1 .. (L * Size) /\ Place(Index(k)) = k
  <2> DEFINE q == Rank(k[1]) - 1
             b == Below(k[2])
  <2>1. q \in Nat /\ q + 1 <= L /\ q + 1 = Rank(k[1]) /\ b \in 0 .. (Size - 1) /\ Index(k) = q * Size + b + 1
    BY <1>1, <1>2 DEF Index
  <2>2. k[2] \in Cases /\ b = Below(k[2])
    BY <1>2
  <2> HIDE DEF q, b
  <2>3. q * Size + b \in Nat /\ (q * Size + b) \div Size = q /\ ((q * Size + b) % Size) = b
    BY <1>1, <2>1, Division
  <2>4. Index(k) - 1 = q * Size + b
    BY <2>1, <2>3
  <2>5. (q + 1) * Size <= L * Size /\ (q + 1) * Size = q * Size + Size /\ q * Size \in Nat
    <3>1. (q + 1) * Size <= L * Size
      BY <1>1, <2>1, TimesGrows
    <3>2. QED BY <1>1, <2>1, <3>1, SMTT(30)
  <2>6. Index(k) \in 1 .. (L * Size)
    <3>1. L * Size \in Nat
      BY <1>1, SMTT(30)
    <3> DEFINE prod == q * Size
               all == L * Size
    <3>2. prod + b + 1 \in 1 .. all
      <4>1. prod \in Nat /\ all \in Nat /\ prod + Size <= all /\ b \in 0 .. (Size - 1) /\ Size \in Nat
        BY <1>1, <2>1, <2>5, <3>1
      <4> HIDE DEF prod, all
      <4>2. QED BY <4>1
    <3>3. QED BY <2>1, <3>2
  <2>7. (CHOOSE c \in Cases : Below(c) = b) = k[2]
    BY <2>2, CasesAreNumbered
  <2>8. Place(Index(k)) = <<MethodList[q + 1], CHOOSE c \in Cases : Below(c) = b>>
    BY <1>3, <2>3, <2>4
  <2>9. QED BY <1>2, <2>1, <2>6, <2>7, <2>8
<1>5. ASSUME NEW k \in Keys, NEW l \in Keys
      PROVE  Index(k) < Index(l) <=> Rank(k[1]) < Rank(l[1]) \/ (Rank(k[1]) = Rank(l[1]) /\ k[2] < l[2])
  <2> DEFINE q == Rank(k[1]) - 1
             r == Rank(l[1]) - 1
             b == Below(k[2])
             c == Below(l[2])
  <2>1. /\ q \in Nat /\ r \in Nat /\ b \in 0 .. (Size - 1) /\ c \in 0 .. (Size - 1)
        /\ Index(k) = q * Size + b + 1 /\ Index(l) = r * Size + c + 1
        /\ q < r <=> Rank(k[1]) < Rank(l[1])
        /\ q = r <=> Rank(k[1]) = Rank(l[1])
    BY <1>2 DEF Index
  <2>2. b < c <=> k[2] < l[2]
    BY <1>2, CasesAreNumbered
  <2> HIDE DEF q, r, b, c
  <2>3. q * Size + b < r * Size + c <=> q < r \/ (q = r /\ b < c)
    BY <1>1, <2>1, DigitOrder
  <2>4. q * Size + b \in Nat /\ r * Size + c \in Nat
    BY <1>1, <2>1, Division
  <2>5. Index(k) < Index(l) <=> q * Size + b < r * Size + c
    BY <2>1, <2>4
  <2>6. QED BY <2>1, <2>2, <2>3, <2>5
<1>6. \A k, l \in Keys : Index(k) = Index(l) => k = l
  BY <1>4
<1>7. ASSUME NEW n \in 1 .. (L * Size)
      PROVE  Place(n) \in Keys /\ Index(Place(n)) = n
  <2> DEFINE q == (n - 1) \div Size
             b == (n - 1) % Size
  <2>1. L * Size \in Nat
    BY <1>1, SMTT(30)
  <2>2. n - 1 \in Nat /\ n - 1 < L * Size /\ n \in Nat
    <3> DEFINE all == L * Size
    <3>1. all \in Nat /\ n \in 1 .. all
      BY <2>1
    <3> HIDE DEF all
    <3>2. n - 1 \in Nat /\ n - 1 < all /\ n \in Nat
      BY <3>1
    <3>3. QED BY <3>2 DEF all
  <2>3. q \in Nat /\ b \in 0 .. (Size - 1) /\ q * Size + b = n - 1
    BY <1>1, <2>2, Division
  <2>4. Place(n) = <<MethodList[q + 1], CHOOSE c \in Cases : Below(c) = b>>
    BY <1>3
  <2> HIDE DEF q, b
  <2>5. q < L
    <3>1. ASSUME L <= q PROVE FALSE
      <4>1. L * Size <= q * Size /\ q * Size \in Nat
        BY <1>1, <2>3, <3>1, TimesGrows, SMTT(30)
      <4>2. QED BY <1>1, <2>1, <2>2, <2>3, <4>1
    <3>2. QED BY <1>1, <2>3, <3>1
  <2>6. PICK c \in Cases : Below(c) = b
    BY <2>3, CasesAreNumbered
  <2>7. (CHOOSE d \in Cases : Below(d) = b) = c
    BY <2>6, CasesAreNumbered
  <2>8. q + 1 \in 1 .. L
    BY <1>1, <2>3, <2>5
  <2>9. MethodList[q + 1] \in Methods /\ Rank(MethodList[q + 1]) = q + 1
    BY <2>8, RankFacts DEF L
  <2>10. Place(n) = <<MethodList[q + 1], c>>
    BY <2>4, <2>7
  <2>11. Index(Place(n)) = ((q + 1) - 1) * Size + b + 1
    BY <2>6, <2>9, <2>10 DEF Index
  <2>12. (q + 1) - 1 = q
    BY <2>3
  <2>13. Index(Place(n)) = n
    BY <2>2, <2>3, <2>11, <2>12
  <2>14. QED BY <2>9, <2>10, <2>13 DEF Keys
<1>8. QED BY <1>1, <1>4, <1>5, <1>6, <1>7

\* A list that increases strictly within its own numbers is the numbers.
LEMMA IncreasingIsIdentity ==
  ASSUME NEW N \in Nat, NEW g \in [1 .. N -> 1 .. N],
         \A i, j \in 1 .. N : i < j => g[i] < g[j]
  PROVE  \A n \in 1 .. N : g[n] = n
<1>1. \A i, j \in 1 .. N : g[i] \in 1 .. N /\ (g[i] < g[j] <=> i < j) /\ (g[i] = g[j] => i = j)
  <2> SUFFICES ASSUME NEW i \in 1 .. N, NEW j \in 1 .. N
               PROVE  g[i] \in 1 .. N /\ (g[i] < g[j] <=> i < j) /\ (g[i] = g[j] => i = j)
    OBVIOUS
  <2>1. g[i] \in 1 .. N /\ g[j] \in 1 .. N
    OBVIOUS
  <2>2. CASE i < j
    BY <2>1, <2>2
  <2>3. CASE j < i
    BY <2>1, <2>3
  <2>4. CASE i = j
    BY <2>1, <2>4
  <2>5. QED BY <2>2, <2>3, <2>4
<1>2. \A k \in 1 .. N : \E i \in 1 .. N : g[i] = k
  <2>1. \A i, j \in 1 .. N : g[i] = g[j] => i = j
    BY <1>1
  <2>2. QED BY <2>1, InjectionHits
<1> SUFFICES ASSUME NEW n \in 1 .. N PROVE g[n] = n
  OBVIOUS
<1> DEFINE v == g[n]
           S == 1 .. (n - 1)
           T == 1 .. (v - 1)
           h == [i \in S |-> g[i]]
<1>3. v \in 1 .. N
  BY <1>1
<1>4. \A i \in S : i \in 1 .. N /\ i < n
  OBVIOUS
<1>5. \A i \in S : g[i] \in T
  <2>1. \A i \in S : g[i] < v /\ g[i] \in 1 .. N
    BY <1>1, <1>4
  <2> HIDE DEF v
  <2>2. QED BY <1>3, <2>1
<1>6. h \in [S -> T] /\ \A i, j \in S : h[i] = h[j] => i = j
  BY <1>1, <1>4, <1>5
<1>7. \A t \in T : \E i \in S : h[i] = t
  <2> SUFFICES ASSUME NEW t \in T PROVE \E i \in S : h[i] = t
    OBVIOUS
  <2>1. t \in 1 .. N /\ t < v
    BY <1>3
  <2>2. PICK i \in 1 .. N : g[i] = t
    BY <1>2, <2>1
  <2>3. i < n
    BY <1>1, <2>1, <2>2
  <2>4. i \in S
    BY <2>3
  <2>5. QED BY <2>2, <2>4
<1>8. IsFiniteSet(S) /\ Cardinality(S) = n - 1 /\ Cardinality(T) = v - 1
  BY <1>3, IntervalSize
<1>9. h \in Injection(S, T) /\ h \in Surjection(S, T)
  BY <1>6, <1>7, Fun_IsInj, Fun_IsSurj
<1>10. Cardinality(T) = Cardinality(S)
  <2> HIDE DEF h, S, T
  <2>1. QED BY <1>8, <1>9, FS_Surjection
<1>11. QED BY <1>3, <1>8, <1>10

\* Distinct runs for every pair stand in order exactly when each is at its own place.
LEMMA OrderedIsPlaced ==
  ASSUME NEW runs, Sortable(runs), Len(runs) = Cardinality(Keys)
  PROVE  Increasing(runs) <=> \A n \in DOMAIN runs : RunKey(runs[n]) = Place(n)
<1> DEFINE N == Cardinality(Keys)
           g == [n \in 1 .. N |-> Index(RunKey(runs[n]))]
<1>1. DOMAIN runs = 1 .. N /\ N \in Nat
  BY KeysAreCounted DEF Sortable, Listed
<1>2. \A n \in 1 .. N : RunKey(runs[n]) \in Keys
  BY <1>1 DEF Sortable, RunKey, Keys
<1>3. \A i, j \in 1 .. N : Precedes(runs[i], runs[j]) <=> Index(RunKey(runs[i])) < Index(RunKey(runs[j]))
  <2> SUFFICES ASSUME NEW i \in 1 .. N, NEW j \in 1 .. N
               PROVE  Precedes(runs[i], runs[j]) <=> Index(RunKey(runs[i])) < Index(RunKey(runs[j]))
    OBVIOUS
  <2>1. Precedes(runs[i], runs[j]) <=>
          \/ Rank(runs[i].method) < Rank(runs[j].method)
          \/ /\ Rank(runs[i].method) = Rank(runs[j].method)
             /\ runs[i].record.evidence < runs[j].record.evidence
    BY <1>1, PrecedesAsNumbers
  <2>2. /\ RunKey(runs[i])[1] = runs[i].method /\ RunKey(runs[i])[2] = runs[i].record.evidence
        /\ RunKey(runs[j])[1] = runs[j].method /\ RunKey(runs[j])[2] = runs[j].record.evidence
    BY DEF RunKey
  <2>3. QED BY <1>2, <2>1, <2>2, PairsAreNumbered
<1>4. ASSUME Increasing(runs)
      PROVE  \A n \in 1 .. N : RunKey(runs[n]) = Place(n)
  <2>1. g \in [1 .. N -> 1 .. N]
    BY <1>2, PairsAreNumbered
  <2>2. \A i, j \in 1 .. N : i < j => g[i] < g[j]
    BY <1>1, <1>3, <1>4 DEF Increasing
  <2>3. \A n \in 1 .. N : g[n] = Index(RunKey(runs[n]))
    OBVIOUS
  <2> HIDE DEF g, N
  <2>4. \A n \in 1 .. N : g[n] = n
    BY <1>1, <2>1, <2>2, IncreasingIsIdentity
  <2>5. QED BY <1>2, <2>3, <2>4, PairsAreNumbered DEF N
<1>5. ASSUME \A n \in 1 .. N : RunKey(runs[n]) = Place(n)
      PROVE  Increasing(runs)
  <2>1. \A n \in 1 .. N : Index(RunKey(runs[n])) = n
    BY <1>5, PairsAreNumbered
  <2>2. QED BY <1>1, <1>3, <2>1 DEF Increasing
<1>6. QED BY <1>1, <1>4, <1>5

-----------------------------------------------------------------------------
(* What is built and loaded *)

\* Sorting distinct runs puts them in increasing order and loses none.
LEMMA SortedIncreases ==
  ASSUME NEW q, Sortable(q), Distinct(q)
  PROVE  /\ Sortable(Sorted(q)) /\ Distinct(Sorted(q)) /\ Increasing(Sorted(q))
         /\ Len(Sorted(q)) = Len(q) /\ DOMAIN Sorted(q) = DOMAIN q
         /\ \A n \in DOMAIN q : \E i \in DOMAIN q : Sorted(q)[n] = q[i]
         /\ \A i \in DOMAIN q : \E n \in DOMAIN q : Sorted(q)[n] = q[i]
<1>1. PICK f \in [DOMAIN q -> DOMAIN q] :
           /\ Sorted(q) = [n \in DOMAIN q |-> q[f[n]]]
           /\ \A i \in DOMAIN q : \E n \in DOMAIN q : f[n] = i
           /\ \A n, p \in DOMAIN q : n < p <=> Before(q, f[n], f[p])
           /\ \A n, p \in DOMAIN q : f[n] = f[p] => n = p
  BY SortPermutes
<1>2. Listed(Sorted(q)) /\ Len(Sorted(q)) = Len(q) /\ DOMAIN Sorted(q) = DOMAIN q
  BY SortedIsListed DEF Sortable
<1>3. \A n \in DOMAIN q : f[n] \in DOMAIN q /\ Sorted(q)[n] = q[f[n]]
  BY <1>1
<1>4. Sortable(Sorted(q))
  BY <1>2, <1>3 DEF Sortable
<1>5. Distinct(Sorted(q))
  BY <1>1, <1>2, <1>3 DEF Distinct
<1>6. Increasing(Sorted(q))
  <2> SUFFICES ASSUME NEW n \in DOMAIN q, NEW p \in DOMAIN q, n < p
               PROVE  Precedes(Sorted(q)[n], Sorted(q)[p])
    BY <1>2 DEF Increasing
  <2>1. n # p
    BY DEF Sortable, Listed
  <2>2. f[n] \in DOMAIN q /\ f[p] \in DOMAIN q /\ RunKey(q[f[n]]) # RunKey(q[f[p]])
    BY <1>1, <1>3, <2>1 DEF Distinct
  <2>3. Precedes(q[f[n]], q[f[p]]) \/ ~ Precedes(q[f[p]], q[f[n]])
    BY <1>1 DEF Before
  <2>4. Precedes(q[f[n]], q[f[p]]) \/ Precedes(q[f[p]], q[f[n]])
    BY <2>2, PrecedesAsNumbers
  <2>5. QED BY <1>3, <2>3, <2>4
<1>7. QED BY <1>1, <1>2, <1>3, <1>4, <1>5, <1>6

\* A complete list has no room for a record of no pair, or for two of one.
LEMMA CompleteIsOneForEach ==
  ASSUME NEW list, Listed(list), Complete(list)
  PROVE  /\ \A i \in DOMAIN list : \E k \in Keys : GoodRecord(list[i], k)
         /\ \A i, j \in DOMAIN list : KeyOf(list[i]) = KeyOf(list[j]) => i = j
<1> DEFINE f == [k \in Keys |-> CHOOSE i \in DOMAIN list : GoodRecord(list[i], k)]
<1>1. \A k \in Keys : f[k] \in DOMAIN list /\ GoodRecord(list[f[k]], k)
  BY DEF Complete
<1>2. f \in [Keys -> DOMAIN list] /\ \A k, l \in Keys : f[k] = f[l] => k = l
  BY <1>1 DEF GoodRecord
<1> HIDE DEF f
<1>3. IsFiniteSet(DOMAIN list) /\ Cardinality(DOMAIN list) = Cardinality(Keys)
  BY IntervalSize DEF Listed, Complete
<1>4. f \in Injection(Keys, DOMAIN list)
  BY <1>2, Fun_IsInj
<1>5. f \in Surjection(Keys, DOMAIN list)
  BY <1>3, <1>4, FS_Injection
<1>6. \A i \in DOMAIN list : \E k \in Keys : f[k] = i
  BY <1>5, Fun_SurjectionProperties
<1>7. \A i \in DOMAIN list : KeyOf(list[i]) \in Keys /\ GoodRecord(list[i], KeyOf(list[i]))
                             /\ f[KeyOf(list[i])] = i
  BY <1>1, <1>6 DEF GoodRecord
<1>8. QED BY <1>7

\* A set of one good run for each pair, under its own method, is consistent and bound.
LEMMA GoodRunsBind ==
  ASSUME NEW set,
         set.backend = expectedBackend, set.limits = callerLimits,
         <<set.assignment, set.evidence>> = <<roots.assignment, roots.evidence>>,
         \A i \in DOMAIN set.runs : set.runs[i].method = set.runs[i].record.method,
         \A i \in DOMAIN set.runs : \E k \in Keys : GoodRecord(set.runs[i].record, k),
         \A k \in Keys : \E i \in DOMAIN set.runs : GoodRecord(set.runs[i].record, k)
  PROVE  RunContext(set) /\ BoundTo(set, callerLimits)
<1> DEFINE runs == set.runs
           rec(i) == runs[i].record
           seen == {runs[i].record.evidence : i \in DOMAIN runs}
<1>1. \A i \in DOMAIN runs :
        /\ rec(i).method = runs[i].method /\ rec(i).method \in Methods /\ rec(i).evidence \in Cases
        /\ rec(i).implementation = program[rec(i).method]
        /\ rec(i).backend = expectedBackend /\ rec(i).limits = callerLimits
        /\ rec(i).request = request[rec(i).evidence]
  <2> SUFFICES ASSUME NEW i \in DOMAIN runs
               PROVE  /\ rec(i).method = runs[i].method /\ rec(i).method \in Methods
                      /\ rec(i).evidence \in Cases
                      /\ rec(i).implementation = program[rec(i).method]
                      /\ rec(i).backend = expectedBackend /\ rec(i).limits = callerLimits
                      /\ rec(i).request = request[rec(i).evidence]
    OBVIOUS
  <2>1. PICK k \in Keys : GoodRecord(rec(i), k)
    OBVIOUS
  <2>2. k[1] \in Methods /\ k[2] \in Cases /\ k[1] = rec(i).method /\ k[2] = rec(i).evidence
    BY <2>1 DEF Keys, GoodRecord, KeyOf
  <2>3. QED BY <2>1, <2>2 DEF GoodRecord
<1>2. \A m \in Methods : EvidenceOf(runs, m) = Cases
  <2> SUFFICES ASSUME NEW m \in Methods PROVE EvidenceOf(runs, m) = Cases
    OBVIOUS
  <2>1. EvidenceOf(runs, m) \subseteq Cases
    BY <1>1 DEF EvidenceOf
  <2>2. ASSUME NEW c \in Cases PROVE c \in EvidenceOf(runs, m)
    <3>1. <<m, c>> \in Keys
      BY DEF Keys
    <3>2. PICK i \in DOMAIN runs : GoodRecord(rec(i), <<m, c>>)
      BY <3>1
    <3>3. rec(i).method = m /\ rec(i).evidence = c /\ runs[i].method = m
      BY <1>1, <3>2 DEF GoodRecord, KeyOf
    <3>4. QED BY <3>3 DEF EvidenceOf
  <2>3. QED BY <2>1, <2>2
<1>3. seen = Cases
  <2>1. PICK m \in Methods : TRUE
    BY EvaluationAssumption
  <2>2. EvidenceOf(runs, m) \subseteq seen
    BY DEF EvidenceOf
  <2>3. seen \subseteq Cases
    BY <1>1
  <2>4. QED BY <1>2, <2>2, <2>3
<1>4. \A e \in Cases : RequestsOf(runs, e) = {request[e]}
  <2> SUFFICES ASSUME NEW e \in Cases PROVE RequestsOf(runs, e) = {request[e]}
    OBVIOUS
  <2>1. RequestsOf(runs, e) \subseteq {request[e]}
    BY <1>1 DEF RequestsOf
  <2>2. PICK i \in DOMAIN runs : rec(i).evidence = e
    BY <1>3
  <2>3. request[e] \in RequestsOf(runs, e)
    BY <1>1, <2>2 DEF RequestsOf
  <2>4. QED BY <2>1, <2>3
<1>5. \A e \in Cases : Cardinality(RequestsOf(runs, e)) = 1
  <2>1. \A e : Cardinality({request[e]}) = 1
    BY FS_Singleton
  <2>2. QED BY <1>4, <2>1
<1>6. \A e, f \in Cases : RequestsOf(runs, e) = RequestsOf(runs, f) => e = f
  <2>1. \A e, f \in Cases : RequestsOf(runs, e) = RequestsOf(runs, f) => request[e] = request[f]
    BY <1>4
  <2>2. QED BY <2>1, EvaluationAssumption
<1>7. RunContext(set)
  BY <1>1, <1>2, <1>3, <1>5, <1>6 DEF RunContext
<1>8. BoundTo(set, callerLimits)
  BY <1>1, <1>2 DEF BoundTo
<1>9. QED BY <1>7, <1>8

\* A complete list of records, in whatever order, is built.
LEMMA CompleteBuilds ==
  ASSUME NEW list, Listed(list), Complete(list)
  PROVE  Builds(list, callerLimits)
<1> DEFINE set == Assemble(list, callerLimits)
           q == [i \in DOMAIN list |-> [method |-> list[i].method, record |-> list[i]]]
<1>1. /\ \A i \in DOMAIN list : \E k \in Keys : GoodRecord(list[i], k)
      /\ \A i, j \in DOMAIN list : KeyOf(list[i]) = KeyOf(list[j]) => i = j
  BY CompleteIsOneForEach
<1>2. \A i \in DOMAIN list :
        /\ list[i].limits = callerLimits /\ list[i].backend = expectedBackend
        /\ list[i].method \in Methods /\ list[i].evidence \in Cases
  <2>1. \A i \in DOMAIN list, k \in Keys : GoodRecord(list[i], k) =>
          /\ list[i].limits = callerLimits /\ list[i].backend = expectedBackend
          /\ list[i].method \in Methods /\ list[i].evidence \in Cases
    BY DEF GoodRecord, KeyOf, Keys
  <2>2. QED BY <1>1, <2>1
<1>3. Buildable(list, callerLimits)
  BY <1>1, <1>2 DEF Buildable, Complete
<1>4. /\ DOMAIN q = DOMAIN list /\ Len(q) = Cardinality(Keys)
      /\ \A i \in DOMAIN list : q[i].method = list[i].method /\ q[i].record = list[i]
      /\ Listed(q)
  <2>1. Len(list) \in Nat /\ DOMAIN list = 1 .. Len(list) /\ Len(list) = Cardinality(Keys)
    BY DEF Listed, Complete
  <2>2. q = [i \in 1 .. Len(list) |-> q[i]] /\ DOMAIN q = DOMAIN list
    BY <2>1
  <2>3. \A i \in DOMAIN list : q[i].method = list[i].method /\ q[i].record = list[i]
    OBVIOUS
  <2> HIDE DEF q
  <2>4. QED BY <2>1, <2>2, <2>3, ListOfLength
<1>5. set.runs = Sorted(q)
  BY DEF Assemble
<1> HIDE DEF q
<1>6. Sortable(q)
  BY <1>2, <1>4 DEF Sortable
<1>7. Distinct(q)
  BY <1>1, <1>4 DEF Distinct, RunKey, KeyOf
<1>8. /\ Sortable(set.runs) /\ Distinct(set.runs) /\ Increasing(set.runs)
      /\ Len(set.runs) = Len(q) /\ DOMAIN set.runs = DOMAIN q
      /\ \A n \in DOMAIN q : \E i \in DOMAIN q : set.runs[n] = q[i]
      /\ \A i \in DOMAIN q : \E n \in DOMAIN q : set.runs[n] = q[i]
  BY <1>5, <1>6, <1>7, SortedIncreases
<1>9. /\ set.backend = expectedBackend /\ set.limits = callerLimits
      /\ <<set.assignment, set.evidence>> = <<roots.assignment, roots.evidence>>
      /\ Header(set) /\ set.methods = MethodList
  BY DEF Assemble, Header
<1> HIDE DEF set
<1>10. RunContext(set) /\ BoundTo(set, callerLimits)
  <2>1. ASSUME NEW n \in DOMAIN set.runs
        PROVE  \E i \in DOMAIN list :
                 set.runs[n].method = list[i].method /\ set.runs[n].record = list[i]
    <3>1. n \in DOMAIN q
      BY <1>8
    <3>2. PICK i \in DOMAIN q : set.runs[n] = q[i]
      BY <1>8, <3>1
    <3>3. i \in DOMAIN list
      BY <1>4
    <3>4. q[i].method = list[i].method /\ q[i].record = list[i]
      BY <1>4, <3>3
    <3>5. QED BY <3>2, <3>3, <3>4
  <2>2. ASSUME NEW i \in DOMAIN list
        PROVE  \E n \in DOMAIN set.runs : set.runs[n].record = list[i]
    <3>1. i \in DOMAIN q
      BY <1>4
    <3>2. PICK n \in DOMAIN q : set.runs[n] = q[i]
      BY <1>8, <3>1
    <3>3. n \in DOMAIN set.runs
      BY <1>8
    <3>4. q[i].record = list[i]
      BY <1>4
    <3>5. QED BY <3>2, <3>3, <3>4
  <2>3. \A n \in DOMAIN set.runs : set.runs[n].method = set.runs[n].record.method
    BY <2>1
  <2>4. \A n \in DOMAIN set.runs : \E k \in Keys : GoodRecord(set.runs[n].record, k)
    BY <1>1, <2>1
  <2>5. \A k \in Keys : \E n \in DOMAIN set.runs : GoodRecord(set.runs[n].record, k)
    BY <2>2 DEF Complete
  <2>6. QED BY <1>9, <2>3, <2>4, <2>5, GoodRunsBind
<1>11. set.runs = Sorted(set.runs)
  BY <1>8, IncreasingIsFixpoint
<1>12. Structural(set)
  BY <1>4, <1>8, <1>9, <1>10, <1>11 DEF Structural, Distinct, RunKey, Sortable
<1>13. QED BY <1>3, <1>10, <1>12 DEF Builds, set

\* A set that passes both validations has every record at its own place.
LEMMA CheckedIsArranged ==
  ASSUME NEW set, Listed(set.runs), Structural(set), BoundTo(set, callerLimits)
  PROVE  Arranged(set)
<1> DEFINE runs == set.runs
<1>1. Sortable(runs)
  BY DEF Sortable, Structural, BoundTo
<1>2. Distinct(runs) /\ runs = Sorted(runs) /\ Len(runs) = Cardinality(Keys)
  BY DEF Structural, Distinct, RunKey
<1>3. \A n \in DOMAIN runs : RunKey(runs[n]) = Place(n)
  BY <1>1, <1>2, FixpointIncreases, OrderedIsPlaced
<1>4. \A n \in DOMAIN runs : runs[n].method = runs[n].record.method
  BY DEF Structural, RunContext
<1>5. QED BY <1>3, <1>4 DEF Arranged, RunKey, KeyOf

\* And a stored set that is the arrangement of a complete list passes them.
LEMMA ArrangedIsChecked ==
  ASSUME NEW set, Listed(set.runs), Complete(RecordsOf(set)), Arranged(set), Header(set),
         set.methods = MethodList, set.limits = callerLimits, set.backend = expectedBackend,
         <<set.assignment, set.evidence>> = <<roots.assignment, roots.evidence>>
  PROVE  Structural(set) /\ BoundTo(set, callerLimits)
<1> DEFINE runs == set.runs
           list == RecordsOf(set)
<1>1. /\ Listed(list) /\ Len(list) = Len(runs) /\ DOMAIN list = DOMAIN runs
      /\ \A i \in DOMAIN runs : list[i] = runs[i].record
  <2>1. Len(runs) \in Nat /\ DOMAIN runs = 1 .. Len(runs)
    BY DEF Listed
  <2>2. /\ DOMAIN list = DOMAIN runs
        /\ \A i \in DOMAIN runs : list[i] = runs[i].record
    BY DEF RecordsOf
  <2>3. list = [i \in DOMAIN runs |-> list[i]]
    BY DEF RecordsOf
  <2> HIDE DEF list, runs
  <2>4. list = [i \in 1 .. Len(runs) |-> list[i]]
    BY <2>1, <2>3
  <2>5. Listed(list) /\ Len(list) = Len(runs)
    BY <2>1, <2>4, ListOfLength
  <2>6. QED BY <2>2, <2>5
<1>2. \A i \in DOMAIN list : \E k \in Keys : GoodRecord(list[i], k)
  BY <1>1, CompleteIsOneForEach
<1>3. \A i, j \in DOMAIN list : KeyOf(list[i]) = KeyOf(list[j]) => i = j
  BY <1>1, CompleteIsOneForEach
<1>4. \A i \in DOMAIN runs : runs[i].method = runs[i].record.method /\ KeyOf(runs[i].record) = Place(i)
  BY DEF Arranged
<1>5. \A i \in DOMAIN runs : \E k \in Keys : GoodRecord(runs[i].record, k)
  BY <1>1, <1>2
<1>6. \A k \in Keys : \E i \in DOMAIN runs : GoodRecord(runs[i].record, k)
  BY <1>1 DEF Complete
<1>7. RunContext(set) /\ BoundTo(set, callerLimits)
  BY <1>4, <1>5, <1>6, GoodRunsBind
<1>8. Sortable(runs)
  <2>1. \A i \in DOMAIN runs : runs[i].record.method \in Methods /\ runs[i].record.evidence \in Cases
    BY <1>5 DEF GoodRecord, KeyOf, Keys
  <2>2. QED BY <1>4, <2>1 DEF Sortable
<1>9. \A i \in DOMAIN runs : RunKey(runs[i]) = KeyOf(runs[i].record)
  BY <1>4 DEF RunKey, KeyOf
<1>10. Distinct(runs)
  BY <1>1, <1>3, <1>9 DEF Distinct
<1>11. Len(runs) = Cardinality(Keys)
  BY <1>1 DEF Complete
<1>12. runs = Sorted(runs)
  BY <1>4, <1>8, <1>9, <1>11, OrderedIsPlaced, IncreasingIsFixpoint
<1>13. Structural(set)
  BY <1>7, <1>8, <1>10, <1>11, <1>12 DEF Structural, Distinct, RunKey, Sortable
<1>14. QED BY <1>7, <1>13

-----------------------------------------------------------------------------
(* What an evaluation that was not refused has so far *)

\* A steady method whose backend kept its identity is answered by its program.
AnswersAsItself(r) ==
  r.method \in Steady /\ swaps[r.method] = 0 => r.answer = answer[r.method][r.evidence]

\* The record under construction is the one for the pair the loop is at, unless the
\* backend was another one when it was bound, and then it has changed.
ContextFits ==
  /\ KeyOf(context) = Key /\ context.implementation = program[Key[1]]
  /\ context.limits = callerLimits /\ context.request = request[Key[2]]
  /\ context.backend = expectedBackend \/ swaps[Key[1]] >= 1

Sound ==
  given.entry = "evaluate" /\ pc # "refused" =>
    /\ \A i \in DOMAIN records : GoodRecord(records[i], Order[i]) /\ AnswersAsItself(records[i])
    /\ pc \in {"invoke", "after", "half after", "append"} => ContextFits
    /\ pc \in {"after", "half after", "append"} => AnswersAsItself(context)
    /\ pc = "build" => Len(records) = Len(Order)
    /\ pc = "returned" => claims = Assemble(records, callerLimits)

Earned == Sound /\ RefusalIsEarned

LEMMA InitEarned == Init => Earned
<1> SUFFICES ASSUME Init PROVE Earned
  OBVIOUS
<1>1. records = <<>> /\ DOMAIN records = {} /\ pc = "new"
  BY DEF Init
<1>2. QED BY <1>1 DEF Earned, Sound, RefusalIsEarned

\* The steps that touch no record.
LEMMA WaitKeepsSound ==
  ASSUME IInv, Sound, AcceptOrder \/ Pin \/ (\E l \in Limits : WritePlan(l))
         \/ RecheckProgram \/ RecheckBackend \/ BindProgram
  PROVE  Sound' /\ pc' # "refused"
<1>1. /\ given' = given /\ records' = records /\ context' = context /\ claims' = claims
      /\ swaps' = swaps /\ pc # "refused" /\ pc' # "refused"
      /\ pc' \in {"invoke", "after", "half after", "append"} => pc \in {"invoke", "after", "half after", "append"}
      /\ pc' \in {"after", "half after", "append"} => pc \in {"after", "half after", "append"}
      /\ pc' = "build" => pc = "build"
      /\ pc' # "returned"
  BY DEF AcceptOrder, Pin, WritePlan, RecheckProgram, RecheckBackend, BindProgram, BackendsRun, history
<1>2. \A r : AnswersAsItself(r)' <=> AnswersAsItself(r)
  BY <1>1 DEF AnswersAsItself
<1>3. Order' = Order /\ Key' = Key
  BY <1>1 DEF Order, Key
<1>4. ContextFits' <=> ContextFits
  BY <1>1, <1>3 DEF ContextFits, KeyOf
<1>5. \A r, k : GoodRecord(r, k)' <=> GoodRecord(r, k)
  BY DEF GoodRecord, KeyOf
<1>6. QED BY <1>1, <1>2, <1>3, <1>4, <1>5 DEF Sound

LEMMA SwapKeepsSound ==
  ASSUME IInv, Sound, NEW m \in Methods, NEW p \in Programs, NEW b \in Backends, Swap(m, p, b)
  PROVE  Sound' /\ pc' # "refused"
<1>1. /\ given' = given /\ records' = records /\ context' = context /\ claims' = claims
      /\ pc' = pc /\ swaps' = [swaps EXCEPT ![m] = @ + 1] /\ swaps \in [Methods -> Nat]
      /\ pc \notin {"new", "returned", "refused"} /\ given.entry = "evaluate"
  BY DEF Swap, BackendsRun, IInv, TypeOK
<1>2. \A n \in Methods : swaps[n] \in Nat /\ swaps'[n] \in Nat /\ swaps'[n] >= swaps[n]
  BY <1>1
<1>3. \A r : r.method \in Methods /\ AnswersAsItself(r) => AnswersAsItself(r)'
  BY <1>2 DEF AnswersAsItself
<1>4. Order' = Order /\ Key' = Key
  BY <1>1 DEF Order, Key
<1>5. \A i \in DOMAIN records : records[i].method \in Methods
  <2>1. \A i \in DOMAIN records : records[i] \in Contexts
    BY Kinds DEF IInv
  <2>2. QED BY <2>1 DEF Contexts
<1>6. ASSUME pc \in {"invoke", "after", "half after", "append"}
      PROVE  context.method \in Methods /\ ContextFits'
  <2>1. Key[1] \in Methods /\ context \in Contexts
    BY <1>6, KeyTyped DEF IInv, Progress, InLoop
  <2>2. ContextFits
    BY <1>1, <1>6 DEF Sound
  <2>3. swaps[Key[1]] >= 1 => swaps'[Key[1]] >= 1
    BY <1>2, <2>1
  <2>4. QED BY <1>1, <1>4, <2>1, <2>2, <2>3 DEF ContextFits, KeyOf, Contexts
<1>7. \A r, k : GoodRecord(r, k)' <=> GoodRecord(r, k)
  BY DEF GoodRecord, KeyOf
<1>8. QED BY <1>1, <1>3, <1>4, <1>5, <1>6, <1>7 DEF Sound

LEMMA BindKeepsSound ==
  ASSUME IInv, Sound, Bind
  PROVE  Sound' /\ pc' # "refused"
<1>1. /\ given' = given /\ records' = records /\ claims' = claims /\ swaps' = swaps
      /\ pc = "half bind" /\ pc' = "invoke" /\ identity' = identity
  BY DEF Bind, history
<1>2. given.entry = "evaluate" /\ Key[1] \in Methods
  BY <1>1, KeyTyped DEF IInv, InLoop
<1>3. Order' = Order /\ Key' = Key
  BY <1>1 DEF Order, Key
<1>4. ContextFits'
  <2>1. /\ context'.method = Key[1] /\ context'.evidence = Key[2]
        /\ context'.implementation = program[Key[1]] /\ context'.limits = callerLimits
        /\ context'.request = request[Key[2]] /\ context'.backend = identity[Key[1]].backend
    BY DEF Bind, SnapshotLimits, IInv, Progress
  <2>2. identity[Key[1]] = Genuine[Key[1]] \/ swaps[Key[1]] >= 1
    BY <1>1, <1>2 DEF IInv, Attestation
  <2>3. Genuine[Key[1]].backend = expectedBackend
    BY <1>2 DEF Genuine
  <2>4. Key = <<Key[1], Key[2]>>
    <3>1. Key \in Keys
      BY <1>1, KeyTyped DEF IInv, InLoop, Key, OrderIsComplete
    <3>2. QED BY <3>1 DEF Keys
  <2>5. QED BY <1>1, <1>3, <2>1, <2>2, <2>3, <2>4 DEF ContextFits, KeyOf
<1>5. \A r : AnswersAsItself(r)' <=> AnswersAsItself(r)
  BY <1>1 DEF AnswersAsItself
<1>6. \A r, k : GoodRecord(r, k)' <=> GoodRecord(r, k)
  BY DEF GoodRecord, KeyOf
<1>7. QED BY <1>1, <1>3, <1>4, <1>5, <1>6 DEF Sound

LEMMA InvokeKeepsSound ==
  ASSUME IInv, Sound, NEW a \in Answers, Invoke(a)
  PROVE  Sound' /\ pc' # "refused"
<1>1. /\ given' = given /\ records' = records /\ claims' = claims /\ swaps' = swaps
      /\ pc = "invoke" /\ pc' = "after" /\ context' = [context EXCEPT !.answer = a]
  BY DEF Invoke
<1>2. given.entry = "evaluate" /\ Key[1] \in Methods /\ context \in Contexts
  BY <1>1, KeyTyped DEF IInv, InLoop, Progress
<1>3. Order' = Order /\ Key' = Key
  BY <1>1 DEF Order, Key
<1>4. /\ context'.method = context.method /\ context'.evidence = context.evidence
      /\ context'.implementation = context.implementation /\ context'.limits = context.limits
      /\ context'.request = context.request /\ context'.backend = context.backend
      /\ context'.answer = a
  BY <1>1, <1>2 DEF Contexts
<1>5. ContextFits /\ ContextFits'
  <2>1. ContextFits
    BY <1>1, <1>2 DEF Sound
  <2>2. QED BY <1>1, <1>3, <1>4, <2>1 DEF ContextFits, KeyOf
<1>6. AnswersAsItself(context)'
  <2>1. context'.method = Key[1] /\ context'.evidence = Key[2]
    BY <1>4, <1>5 DEF ContextFits, KeyOf
  <2>2. swaps[Key[1]] = 0 => identity[Key[1]] = Genuine[Key[1]]
    BY <1>1, <1>2 DEF IInv, Attestation
  <2>3. swaps[Key[1]] = 0 /\ Key[1] \in Steady => a = answer[Key[1]][Key[2]]
    BY <2>2 DEF Invoke, Expected
  <2>4. QED BY <1>1, <1>4, <2>1, <2>3 DEF AnswersAsItself
<1>7. \A r : AnswersAsItself(r)' <=> AnswersAsItself(r)
  BY <1>1 DEF AnswersAsItself
<1>8. \A r, k : GoodRecord(r, k)' <=> GoodRecord(r, k)
  BY DEF GoodRecord, KeyOf
<1>9. QED BY <1>1, <1>3, <1>5, <1>6, <1>7, <1>8 DEF Sound

LEMMA AppendKeepsSound ==
  ASSUME IInv, Sound, AppendRecord
  PROVE  Sound' /\ pc' # "refused"
<1>1. /\ given' = given /\ claims' = claims /\ swaps' = swaps
      /\ pc = "append" /\ pc' = (IF Len(records') = Len(Order) THEN "build" ELSE "before")
      /\ records' = Append(records, context) /\ RecordHolds /\ pinned = callerLimits
  BY DEF AppendRecord, history, IInv, Progress
<1>2. given.entry = "evaluate" /\ context \in Contexts /\ records \in Seq(Contexts)
  BY <1>1, KeyTyped DEF IInv, InLoop, Progress
<1>3. Order' = Order
  BY <1>1 DEF Order
<1>4. /\ Len(records) \in Nat /\ DOMAIN records = 1 .. Len(records)
      /\ DOMAIN records' = 1 .. (Len(records) + 1)
      /\ \A i \in 1 .. Len(records) : records'[i] = records[i]
      /\ records'[Len(records) + 1] = context
  BY <1>1, <1>2
<1>5. GoodRecord(context, Order[Len(records) + 1])
  BY <1>1 DEF RecordHolds, GoodRecord, Key, SnapshotLimits
<1>6. AnswersAsItself(context)
  BY <1>1, <1>2 DEF Sound
<1>7. \A r : AnswersAsItself(r)' <=> AnswersAsItself(r)
  BY <1>1 DEF AnswersAsItself
<1>8. \A r, k : GoodRecord(r, k)' <=> GoodRecord(r, k)
  BY DEF GoodRecord, KeyOf
<1>9. \A i \in 1 .. Len(records) : GoodRecord(records[i], Order[i]) /\ AnswersAsItself(records[i])
  BY <1>1, <1>2, <1>4 DEF Sound
<1>10. \A i \in DOMAIN records' : GoodRecord(records'[i], Order[i]) /\ AnswersAsItself(records'[i])
  <2> SUFFICES ASSUME NEW i \in DOMAIN records'
               PROVE  GoodRecord(records'[i], Order[i]) /\ AnswersAsItself(records'[i])
    OBVIOUS
  <2>1. CASE i = Len(records) + 1
    BY <1>4, <1>5, <1>6, <2>1
  <2>2. CASE i # Len(records) + 1
    <3>1. i \in 1 .. Len(records)
      BY <1>4, <2>2
    <3>2. QED BY <1>4, <1>9, <3>1
  <2>3. QED BY <2>1, <2>2
<1>11. /\ pc' \notin {"invoke", "after", "half after", "append", "returned", "refused"}
       /\ pc' = "build" => Len(records') = Len(Order)
  BY <1>1
<1>12. \A i \in DOMAIN records' : (GoodRecord(records[i], Order[i]) /\ AnswersAsItself(records[i]))'
  BY <1>1, <1>3, <1>10 DEF GoodRecord, KeyOf, AnswersAsItself
<1>13. QED BY <1>3, <1>11, <1>12 DEF Sound

LEMMA ReturnKeepsSound ==
  ASSUME IInv, Sound, Build \/ Load
  PROVE  Sound' /\ pc' # "refused"
<1>1. /\ given' = given /\ records' = records /\ swaps' = swaps
      /\ pc' = "returned" /\ pinned = callerLimits
  BY DEF Build, Load, history, IInv, Progress
<1>2. given.entry = "evaluate" =>
        pc = "build" /\ claims' = Assemble(records, callerLimits)
  BY <1>1 DEF Build, Load, Ready, Supplied, SnapshotLimits
<1>3. Order' = Order
  BY <1>1 DEF Order
<1>4. \A r : AnswersAsItself(r)' <=> AnswersAsItself(r)
  BY <1>1 DEF AnswersAsItself
<1>5. \A r, k : GoodRecord(r, k)' <=> GoodRecord(r, k)
  BY DEF GoodRecord, KeyOf
<1>6. Assemble(records, callerLimits)' = Assemble(records, callerLimits)
  BY <1>1
<1>7. QED BY <1>1, <1>2, <1>3, <1>4, <1>5, <1>6 DEF Sound

\* An order that was refused leaves a pair out or is of the wrong length: one that names
\* every pair in as many places names none twice.
LEMMA RefusedOrderIsShort ==
  ASSUME given \in Scenarios, ~ OrderIsComplete
  PROVE  {Order[i] : i \in DOMAIN Order} # Keys \/ Len(Order) # Cardinality(Keys)
<1> SUFFICES ASSUME {Order[i] : i \in DOMAIN Order} = Keys, Len(Order) = Cardinality(Keys)
             PROVE  FALSE
  OBVIOUS
<1>1. Len(Order) \in Nat /\ DOMAIN Order = 1 .. Len(Order)
  BY EvaluationAssumption DEF Listed, Order
<1> DEFINE f == [i \in DOMAIN Order |-> Order[i]]
<1>2. f \in [DOMAIN Order -> Keys] /\ \A k \in Keys : \E i \in DOMAIN Order : f[i] = k
  OBVIOUS
<1>3. f \in Surjection(DOMAIN Order, Keys)
  <2> HIDE DEF f
  <2>1. QED BY <1>2, Fun_IsSurj
<1>4. IsFiniteSet(DOMAIN Order) /\ Cardinality(DOMAIN Order) = Cardinality(Keys)
  BY <1>1, IntervalSize
<1>5. f \in Injection(DOMAIN Order, Keys)
  <2> HIDE DEF f
  <2>1. QED BY <1>3, <1>4, FS_SurjSameCardinalityImpliesInj
<1>6. \A i, j \in DOMAIN Order : f[i] = f[j] => i = j
  <2> HIDE DEF f
  <2>1. QED BY <1>5, Fun_InjectionProperties
<1>7. QED BY <1>6 DEF OrderIsComplete

\* The records of an evaluation that worked its order off are complete.
LEMMA WorkedOffIsComplete ==
  ASSUME IInv, Sound, pc = "build"
  PROVE  Listed(records) /\ Complete(records)
<1>1. /\ given.entry = "evaluate" /\ OrderIsComplete /\ records \in Seq(Contexts)
      /\ Len(records) = Len(Order)
  BY DEF IInv, Progress, Sound
<1>2. Listed(records) /\ DOMAIN records = 1 .. Len(records)
  BY <1>1 DEF Listed
<1>3. DOMAIN Order = 1 .. Len(Order)
  BY EvaluationAssumption DEF IInv, Progress, Listed, Order
<1>4. \A i \in DOMAIN records : GoodRecord(records[i], Order[i])
  BY <1>1 DEF Sound
<1>5. \A k \in Keys : \E i \in DOMAIN records : GoodRecord(records[i], k)
  <2> SUFFICES ASSUME NEW k \in Keys PROVE \E i \in DOMAIN records : GoodRecord(records[i], k)
    OBVIOUS
  <2>1. PICK i \in DOMAIN Order : Order[i] = k
    BY <1>1 DEF OrderIsComplete
  <2>2. i \in DOMAIN records
    BY <1>1, <1>2, <1>3
  <2>3. QED BY <1>4, <2>1, <2>2
<1>6. QED BY <1>1, <1>2, <1>5 DEF Complete, OrderIsComplete

LEMMA RefusalsAreEarned ==
  ASSUME IInv, Sound,
         \/ RefuseOrder \/ RefusePlan \/ RefuseChanged \/ RefuseProgram \/ HarnessFails
         \/ RefuseRecord \/ RefuseBuild \/ RefuseLoad
  PROVE  Earned'
<1>1. /\ given' = given /\ identity' = identity /\ pc' = "refused" /\ swaps' = swaps
      /\ given \in Scenarios /\ pinned = callerLimits
      /\ given.entry \in {"evaluate", "build", "load"}
  BY DEF RefuseOrder, RefusePlan, RefuseChanged, RefuseProgram, HarnessFails, RefuseRecord,
         RefuseBuild, RefuseLoad, Refuse, history, IInv, Progress, TypeOK
<1>2. Sound'
  BY <1>1 DEF Sound
<1>3. \/ faulted' \/ identity # Genuine \/ \E m \in Methods : swaps[m] > 0
      \/ {Order[i] : i \in DOMAIN Order} # Keys \/ Len(Order) # Cardinality(Keys)
      \/ given.entry # "evaluate"
  <2> SUFFICES ASSUME given.entry = "evaluate"
               PROVE  \/ faulted' \/ identity # Genuine \/ \E m \in Methods : swaps[m] > 0
                      \/ {Order[i] : i \in DOMAIN Order} # Keys \/ Len(Order) # Cardinality(Keys)
    OBVIOUS
  <2>1. CASE RefuseOrder
    BY <1>1, <2>1, RefusedOrderIsShort DEF RefuseOrder
  <2>2. CASE RefusePlan
    BY <2>2 DEF RefusePlan, Expected
  <2>3. CASE RefuseChanged
    BY <2>3 DEF RefuseChanged, Presents
  <2>4. CASE RefuseProgram
    <3>1. Key[1] \in Methods
      BY <2>4, KeyTyped DEF RefuseProgram, IInv, InLoop
    <3>2. Genuine[Key[1]].program = program[Key[1]]
      BY <3>1, Genuineness
    <3>3. QED BY <2>4, <3>2 DEF RefuseProgram, Presents
  <2>5. CASE HarnessFails
    BY <2>5 DEF HarnessFails
  <2>6. CASE RefuseRecord
    <3>1. ContextFits /\ Key[1] \in Methods
      BY <2>6, KeyTyped DEF RefuseRecord, IInv, InLoop, Sound
    <3>2. swaps[Key[1]] >= 1 /\ swaps[Key[1]] \in Nat
      BY <1>1, <2>6, <3>1 DEF RefuseRecord, RecordHolds, ContextFits, SnapshotLimits, IInv, TypeOK
    <3>3. QED BY <3>1, <3>2
  <2>7. CASE RefuseBuild
    <3>1. pc = "build"
      BY <2>7 DEF RefuseBuild, Ready
    <3>2. Builds(records, callerLimits)
      BY <3>1, WorkedOffIsComplete, CompleteBuilds
    <3>3. QED BY <1>1, <2>7, <3>1, <3>2 DEF RefuseBuild, Supplied, SnapshotLimits
  <2>8. CASE RefuseLoad
    BY <2>8 DEF RefuseLoad
  <2>9. QED BY <2>1, <2>2, <2>3, <2>4, <2>5, <2>6, <2>7, <2>8
<1>4. given.entry = "build" => ~ Complete(given.records)
  <2> SUFFICES ASSUME given.entry = "build", Complete(given.records) PROVE FALSE
    OBVIOUS
  <2>1. RefuseBuild /\ pc = "new"
    BY DEF RefuseOrder, RefusePlan, RefuseChanged, RefuseProgram, HarnessFails, RefuseRecord,
           RefuseBuild, RefuseLoad, Ready, IInv, Progress
  <2>2. Builds(given.records, callerLimits)
    BY <1>1, EvaluationAssumption, CompleteBuilds
  <2>3. QED BY <1>1, <2>1, <2>2 DEF RefuseBuild, Supplied, SnapshotLimits
<1> DEFINE Loadable ==
       /\ Complete(RecordsOf(given.payload)) /\ Arranged(given.payload)
       /\ given.payload.methods = MethodList
       /\ given.payload.limits = callerLimits /\ given.payload.backend = expectedBackend
       /\ given.payload.baseline = "frozen"
       /\ <<given.payload.assignment, given.payload.evidence>> = <<roots.assignment, roots.evidence>>
       /\ given.payload.projection = <<given.payload.assignment, given.payload.evidence>>
<1>5. given.entry = "load" => ~ Loadable
  <2> SUFFICES ASSUME given.entry = "load", Loadable PROVE FALSE
    OBVIOUS
  <2>1. RefuseLoad
    BY DEF RefuseOrder, RefusePlan, RefuseChanged, RefuseProgram, HarnessFails, RefuseRecord,
           RefuseBuild, RefuseLoad, Ready, IInv, Progress
  <2>2. Listed(given.payload.runs)
    BY <1>1, EvaluationAssumption
  <2>3. Structural(given.payload) /\ BoundTo(given.payload, callerLimits)
    BY <2>2, ArrangedIsChecked DEF Header
  <2>4. QED BY <1>1, <2>1, <2>3 DEF RefuseLoad, SnapshotLimits
<1>6. RefusalIsEarned'
  <2>1. Order' = Order
    BY <1>1 DEF Order
  <2>2. (Complete(given.records))' <=> Complete(given.records)
    BY <1>1 DEF Complete, GoodRecord, KeyOf
  <2>3. Loadable' <=> Loadable
    BY <1>1 DEF Complete, GoodRecord, KeyOf, RecordsOf, Arranged, Place
  <2>4. CASE given.entry = "evaluate"
    BY <1>1, <1>3, <2>1, <2>4 DEF RefusalIsEarned
  <2>5. CASE given.entry = "build"
    BY <1>1, <1>4, <2>2, <2>5 DEF RefusalIsEarned
  <2>6. CASE given.entry = "load"
    BY <1>1, <1>5, <2>3, <2>6 DEF RefusalIsEarned
  <2>7. QED BY <1>1, <2>4, <2>5, <2>6
<1>7. QED BY <1>2, <1>6 DEF Earned

LEMMA NextEarned ==
  ASSUME IInv, Earned, [Next]_vars
  PROVE  Earned'
<1> USE DEF Earned
<1>1. CASE AcceptOrder \/ Pin \/ (\E l \in Limits : WritePlan(l))
           \/ RecheckProgram \/ RecheckBackend \/ BindProgram
  BY <1>1, WaitKeepsSound DEF RefusalIsEarned
<1>2. CASE \E m \in Methods, p \in Programs, b \in Backends : Swap(m, p, b)
  BY <1>2, SwapKeepsSound DEF RefusalIsEarned
<1>3. CASE Bind
  BY <1>3, BindKeepsSound DEF RefusalIsEarned
<1>4. CASE \E a \in Answers : Invoke(a)
  BY <1>4, InvokeKeepsSound DEF RefusalIsEarned
<1>5. CASE AppendRecord
  BY <1>5, AppendKeepsSound DEF RefusalIsEarned
<1>6. CASE Build \/ Load
  BY <1>6, ReturnKeepsSound DEF RefusalIsEarned
<1>7. CASE RefuseOrder \/ RefusePlan \/ RefuseChanged \/ RefuseProgram \/ HarnessFails
           \/ RefuseRecord \/ RefuseBuild \/ RefuseLoad
  BY <1>7, RefusalsAreEarned
<1>8. CASE Done \/ UNCHANGED vars
  <2>1. UNCHANGED vars
    BY <1>8 DEF Done
  <2>2. /\ given' = given /\ pc' = pc /\ identity' = identity /\ context' = context
        /\ records' = records /\ claims' = claims /\ swaps' = swaps /\ faulted' = faulted
    BY <2>1 DEF vars
  <2>3. Order' = Order /\ Key' = Key
    BY <2>2 DEF Order, Key
  <2>4. Sound'
    <3>1. \A r : AnswersAsItself(r)' <=> AnswersAsItself(r)
      BY <2>2 DEF AnswersAsItself
    <3>2. \A r, k : GoodRecord(r, k)' <=> GoodRecord(r, k)
      BY DEF GoodRecord, KeyOf
    <3>3. ContextFits' <=> ContextFits
      BY <2>2, <2>3 DEF ContextFits, KeyOf
    <3>4. QED BY <2>2, <2>3, <3>1, <3>2, <3>3 DEF Sound
  <2>5. RefusalIsEarned'
    BY <2>2, <2>3 DEF RefusalIsEarned, Complete, GoodRecord, KeyOf, RecordsOf, Arranged, Place
  <2>6. QED BY <2>4, <2>5
<1>9. QED BY <1>1, <1>2, <1>3, <1>4, <1>5, <1>6, <1>7, <1>8 DEF Next, Evaluate

LEMMA AlwaysEarned == Spec => []Earned
<1>1. Init => Earned
  BY InitEarned
<1>2. IInv /\ Earned /\ [Next]_vars => Earned'
  BY NextEarned
<1> QED
  BY <1>1, <1>2, EvaluationInvariant, PTL DEF Spec

\* Nothing correct is refused.  A complete order is refused only after a backend's identity
\* was not, or did not stay, the expected one, or after a harness error; a complete list of
\* records builds in any order; a stored set that is the canonical arrangement of one loads.
THEOREM EvaluationRefusalIsEarned == Spec => []RefusalIsEarned
<1>1. Earned => RefusalIsEarned
  BY DEF Earned
<1> QED
  BY <1>1, AlwaysEarned, PTL

\* The order the pairs were run in cannot be seen in the claim set: every record is at the
\* place of its pair, and a steady backend that kept its identity is shown with its own
\* program's answers.
THEOREM EvaluationScheduleInvisible == Spec => []ScheduleInvisible
<1>1. IInv /\ Earned => ScheduleInvisible
  <2> SUFFICES ASSUME IInv, Earned, pc = "returned", given.entry = "evaluate"
               PROVE  /\ Arranged(claims)
                      /\ \A n \in DOMAIN claims.runs :
                           LET m == claims.runs[n].method
                           IN  m \in Steady /\ swaps[m] = 0 =>
                                 claims.runs[n].record.answer
                                   = answer[m][claims.runs[n].record.evidence]
    BY DEF ScheduleInvisible
  <2>1. Listed(claims.runs) /\ Arranged(claims)
    BY CheckedIsArranged DEF IInv, Checked
  <2>2. claims = Assemble(records, callerLimits) /\ \A i \in DOMAIN records : AnswersAsItself(records[i])
    BY DEF Earned, Sound
  <2> DEFINE q == [i \in DOMAIN records |-> [method |-> records[i].method, record |-> records[i]]]
  <2>3. records \in Seq(Contexts)
    BY DEF IInv, Progress
  <2>4. /\ Listed(q) /\ DOMAIN q = DOMAIN records
        /\ \A i \in DOMAIN records : q[i].method = records[i].method /\ q[i].record = records[i]
    <3>1. Len(records) \in Nat /\ DOMAIN records = 1 .. Len(records)
      BY <2>3
    <3>2. /\ q = [i \in 1 .. Len(records) |-> q[i]] /\ DOMAIN q = DOMAIN records
          /\ \A i \in DOMAIN records : q[i].method = records[i].method /\ q[i].record = records[i]
      BY <3>1
    <3> HIDE DEF q
    <3>3. QED BY <3>1, <3>2, ListOfLength
  <2>5. claims.runs = Sorted(q)
    BY <2>2 DEF Assemble
  <2> HIDE DEF q
  <2>6. Sortable(q)
    <3>1. \A i \in DOMAIN records : records[i] \in Contexts
      BY <2>3
    <3>2. \A i \in DOMAIN records : records[i].method \in Methods /\ records[i].evidence \in Cases
      BY <3>1 DEF Contexts
    <3>3. QED BY <2>4, <3>2 DEF Sortable
  <2>7. \A n \in DOMAIN claims.runs : \E i \in DOMAIN q : claims.runs[n] = q[i]
    BY <2>5, <2>6, SortPermutes
  <2>8. \A n \in DOMAIN claims.runs : \E i \in DOMAIN records :
          claims.runs[n].method = records[i].method /\ claims.runs[n].record = records[i]
    <3> SUFFICES ASSUME NEW n \in DOMAIN claims.runs
                 PROVE  \E i \in DOMAIN records :
                          claims.runs[n].method = records[i].method /\ claims.runs[n].record = records[i]
      OBVIOUS
    <3>1. PICK i \in DOMAIN q : claims.runs[n] = q[i]
      BY <2>7
    <3>2. QED BY <2>4, <3>1
  <2>9. QED BY <2>1, <2>2, <2>8 DEF AnswersAsItself
<1> QED
  BY <1>1, EvaluationInvariant, AlwaysEarned, PTL

=============================================================================
