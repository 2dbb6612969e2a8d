------------------------------ MODULE Baselines ------------------------------
(***************************************************************************)
(* The four built-in reference methods (baselines.py): what each claims of *)
(* one public evidence record.  They see the record and the public         *)
(* vocabulary of its template, nothing else.                               *)
(***************************************************************************)
EXTENDS Views

Methods == {"always_unknown", "forced_environment", "refresh_success_only", "refresh_outcome"}

\* parse_request: a failing baseline run without interventions, and at most one further
\* observation, of a probe the template declares or of the refresh.
AcceptsRequest(e) ==
  /\ e.baseline.outcome = "FAILURE" /\ e.baseline.trace.interventions = {}
  /\ DOMAIN e.probes = {} \/ DOMAIN e.replies = {}
  /\ Cardinality(DOMAIN e.probes) <= 1 /\ DOMAIN e.probes \subseteq Probes
  /\ DOMAIN e.replies \subseteq {{"refresh"}}
  /\ \A s \in DOMAIN e.replies : e.replies[s].trace.interventions = s

Unknown == [kind |-> "ambiguous_worlds", family |-> {}, witnesses |-> {}]
Identified(t, witness) ==
  [kind |-> "identified_singleton", family |-> {{t}}, witnesses |-> {{witness}}]

Observed(e, outcome) == \E s \in DOMAIN e.replies : e.replies[s].outcome = outcome

\* Mutant: a record without a refresh receipt counts as a failed refresh.
PredictFromSilence(method, e) ==
  CASE method = "always_unknown" -> Unknown
    [] method = "forced_environment" \/ Observed(e, "SUCCESS") -> Identified("environment", "refresh")
    [] method = "refresh_outcome" /\ ~ Observed(e, "SUCCESS") -> Identified("policy", "repair")
    [] OTHER -> Unknown

Predict(method, e) ==
  CASE method = "always_unknown" -> Unknown
    [] method = "forced_environment" \/ Observed(e, "SUCCESS") -> Identified("environment", "refresh")
    [] method = "refresh_outcome" /\ Observed(e, "FAILURE") -> Identified("policy", "repair")
    [] OTHER -> Unknown
=============================================================================
