--------------------------- MODULE WorkerContract ---------------------------
(***************************************************************************)
(* What one worker invocation promises its evaluator, whatever happens on  *)
(* the pipes (docs/worker-boundary.md): exactly one answer, which never    *)
(* changes; the worker's process group runs only until the answer, and     *)
(* never again; and an answer always comes, also when the worker itself    *)
(* never does anything.  Module WorkerExchange implements it.              *)
(***************************************************************************)
CONSTANTS
  WorkerAnswers, \* a claim, or a failure of the participant
  HarnessErrors  \* faults of the evaluator's own infrastructure

VARIABLES
  group,  \* the worker's process group
  answer  \* what the invocation returned or raised

vars == <<group, answer>>

Init == group = "idle" /\ answer = "none"

\* The one fresh process of this invocation is started.
Start ==
  /\ group = "idle" /\ answer = "none"
  /\ group' = "running"
  /\ UNCHANGED answer

\* Every process of the group has ended or has been killed.
Empty ==
  /\ group = "running"
  /\ group' = "gone"
  /\ UNCHANGED answer

\* Only a group that ran and is gone yields an answer about the participant.
Answer(a) ==
  /\ answer = "none"
  /\ \/ group = "gone" /\ a \in WorkerAnswers \cup HarnessErrors
     \/ group = "idle" /\ a \in HarnessErrors
  /\ answer' = a
  /\ UNCHANGED group

Next == Start \/ Empty \/ \E a \in WorkerAnswers \cup HarnessErrors : Answer(a)

Spec == Init /\ [][Next]_vars /\ WF_vars(Next)
=============================================================================
