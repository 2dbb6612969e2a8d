---------------------------- MODULE MCEvaluation ----------------------------
(* Two methods and two cases: all 24 execution orders and malformed ones; complete records *)
(* in any order, and with any one field of any one record wrong; stored claim sets with    *)
(* any one field wrong, and one that gives two cases each other's requests.                *)
EXTENDS Evaluation, SequencesExt

MCMethods == <<"second", "first">>
MCProgram == [m \in {"second", "first"} |-> IF m = "first" THEN "program1" ELSE "program2"]
MCRequest == [c \in 1 .. 2 |-> <<"request1", "request2">>[c]]
MCRoots == [assignment |-> "assigned", evidence |-> "public"]
MCAnswer == [m \in {"second", "first"} |->
  [c \in 1 .. 2 |-> IF c = 1 THEN "claim" ELSE IF m = "first" THEN "other_claim" ELSE "failed"]]

Good(k) == [method |-> k[1], implementation |-> program[k[1]], backend |-> expectedBackend,
            limits |-> callerLimits, evidence |-> k[2], request |-> request[k[2]],
            answer |-> answer[k[1]][k[2]]]
Places == [n \in 1 .. Cardinality(Keys) |-> Place(n)]
AllGood == [n \in DOMAIN Places |-> Good(Places[n])]

Orders == SetToSeqs(Keys)
  \cup {<<>>, Tail(Places), [Places EXCEPT ![1] = Places[2]], [Places EXCEPT ![1] = <<"first", 9>>]}

\* One record with one field wrong.
Wrong(r) ==
  {[r EXCEPT !.method = m] : m \in Methods \cup {"third"}}
  \cup {[r EXCEPT !.implementation = p] : p \in Programs}
  \cup {[r EXCEPT !.backend = b] : b \in Backends} \cup {[r EXCEPT !.limits = l] : l \in Limits}
  \cup {[r EXCEPT !.evidence = e] : e \in {1, 2, 9}}
  \cup {[r EXCEPT !.request = q] : q \in {"request1", "request2", "request9"}}
OneWrong(list) == UNION {{[list EXCEPT ![i] = r] : r \in Wrong(list[i])} : i \in DOMAIN list}

\* The two cases with each other's requests, in every method.
Crossed == [i \in DOMAIN AllGood |-> [AllGood[i] EXCEPT !.request = request[3 - AllGood[i].evidence]]]
\* Every method on the same foreign case.
Foreign == [i \in DOMAIN AllGood |->
  IF AllGood[i].evidence = 2 THEN [AllGood[i] EXCEPT !.evidence = 9] ELSE AllGood[i]]

Lists == {[i \in DOMAIN s |-> Good(s[i])] : s \in SetToSeqs(Keys)}
  \cup OneWrong(AllGood) \cup OneWrong(Reverse(AllGood)) \cup {Crossed, Foreign, Tail(AllGood)}

\* A stored set with these records, in this order.
Stored(list) ==
  [Assemble(AllGood, callerLimits) EXCEPT
     !.runs = [i \in DOMAIN list |-> [method |-> list[i].method, record |-> list[i]]]]
GoodSet == Stored(AllGood)
\* Each method's runs under the name of the other.
Relabelled ==
  LET other(i) == IF i <= Cardinality(Cases) THEN i + Cardinality(Cases) ELSE i - Cardinality(Cases)
  IN  [GoodSet EXCEPT !.runs = [i \in DOMAIN @ |-> [@[i] EXCEPT !.record = AllGood[other(i)]]]]
Payloads == {Stored(list) : list \in Lists}
  \cup {[GoodSet EXCEPT !.limits = l] : l \in Limits} \cup {[GoodSet EXCEPT !.backend = b] : b \in Backends}
  \cup {[GoodSet EXCEPT !.baseline = "other"], [GoodSet EXCEPT !.methods = Reverse(@)],
        [GoodSet EXCEPT !.evidence = "private"],
        [GoodSet EXCEPT !.evidence = "private", !.projection = <<"assigned", "private">>],
        [GoodSet EXCEPT !.assignment = "other", !.projection = <<"other", "public">>],
        [GoodSet EXCEPT !.runs[1].method = "first"], Relabelled}
  \* Another backend and other limits throughout: sound in itself, bound to nothing.
  \cup {LET other == [i \in DOMAIN AllGood |-> [AllGood[i] EXCEPT !.backend = b, !.limits = l]]
        IN  [Stored(other) EXCEPT !.backend = b, !.limits = l] : b \in Backends, l \in Limits}

Call(entry, order, list, payload) ==
  [entry |-> entry, order |-> order, records |-> list, payload |-> payload]
MCScenarios ==
  {Call("evaluate", o, <<>>, GoodSet) : o \in Orders}
  \cup {Call("build", <<>>, l, GoodSet) : l \in Lists}
  \cup {Call("load", <<>>, <<>>, p) : p \in Payloads}
=============================================================================
