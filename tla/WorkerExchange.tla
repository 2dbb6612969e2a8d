--------------------------- MODULE WorkerExchange ---------------------------
(***************************************************************************)
(* One worker invocation (src/src/witnessgap/workspace100/worker.py):      *)
(* LocalPythonProcessBackend.invoke and _normalize_worker_exit.  The       *)
(* parent stages and spawns a participant, multiplexes its three pipes     *)
(* against a deadline and two output limits, kills its process group,      *)
(* reaps it, removes the staging directory and turns the raw exit into a   *)
(* claim or a failure.                                                     *)
(*                                                                         *)
(* Everything runs concurrently with that loop: the clock, the child, one  *)
(* descendant of the child (the helper) that inherits the pipes or not and *)
(* stays in the process group or leaves it, and the kernel, which carries  *)
(* out a SIGKILL some time after it was sent.                              *)
(*                                                                         *)
(* Bytes are counted, never spelt.  A pipe is the number of bytes in it.   *)
(***************************************************************************)
EXTENDS Integers

CONSTANTS
  RequestSize, \* len(request)
  ClaimSize,   \* length of a canonical claim
  Limit,       \* WorkerLimits: stdout_bytes and stderr_bytes
  Capacity,    \* kernel pipe buffer
  Chunk,       \* _IO_CHUNK_BYTES
  Scripts      \* what a participant may set out to do

Outputs == {"stdout", "stderr"}
Streams == {"stdin"} \cup Outputs
Processes == {"child", "helper"}

ASSUME WorkerAssumption ==
  /\ RequestSize \in Nat \ {0} /\ ClaimSize \in Nat \ {0}
  /\ Capacity \in Nat \ {0} /\ Chunk \in Nat \ {0}
  /\ Limit \in [Outputs -> Nat]
  /\ Scripts \subseteq
       [stdout : Nat, stderr : Nat,   \* bytes it means to write
        claim : BOOLEAN,              \* its first ClaimSize bytes are a claim
        reads : {"never", "first", "last", "any"}, \* when it reads its input, to the end
        code : {"zero", "nonzero"}]   \* its exit status when it is done

VARIABLES
  script,     \* what this participant sets out to do
  process,    \* state of the child and of its helper
  code,       \* the child's return code
  ends,       \* the pipe ends each process holds
  pipe,       \* bytes in each pipe
  got,        \* bytes of the request the child has read
  put,        \* bytes the worker has written to each output
  late,       \* the monotonic clock has passed the deadline
  pc,         \* where the parent is
  registered, \* streams in the selector; the parent's other ends are closed
  ready,      \* events of the last select still to be handled
  offset,     \* request bytes written
  buffer,     \* output bytes kept
  over,       \* output_limit_exceeded
  raw,        \* kind of the RawWorkerExit
  error,      \* the WorkerHarnessError being raised
  answer      \* what the invocation returned or raised

worker == <<process, code, ends, got, put>>
loop == <<registered, ready, offset, buffer, over>>
vars == <<script, worker, pipe, late, pc, loop, raw, error, answer>>

Failures == {"timed_out", "output_limit_exceeded", "nonzero_exit", "empty_output",
             "invalid_claim"}
WorkerAnswers == {"claimed"} \cup Failures
HarnessErrors == {"staging_failed", "spawn_failed", "pipe_io_failed", "reap_failed"}

Least(a, b) == IF a <= b THEN a ELSE b

TypeOK ==
  /\ script \in Scripts
  /\ process \in [child : {"none", "running", "killed", "zombie", "reaped"},
                  helper : {"none", "running", "escaped", "killed", "dead"}]
  /\ code \in {"none", "zero", "nonzero", "signal"}
  /\ ends \in [Processes -> SUBSET Streams]
  /\ pipe \in [Streams -> 0 .. Capacity]
  /\ got \in 0 .. RequestSize /\ offset \in 0 .. RequestSize
  /\ put \in [stdout : 0 .. script.stdout, stderr : 0 .. script.stderr]
  /\ buffer \in [stdout : 0 .. Limit.stdout, stderr : 0 .. Limit.stderr]
  /\ late \in BOOLEAN /\ over \in BOOLEAN
  /\ pc \in {"new", "loop", "wait", "select", "handle", "reaping", "aborting", "cleanup",
             "done"}
  /\ registered \subseteq Streams /\ ready \subseteq registered
  /\ raw \in {"none", "exited", "timed_out", "output_limit_exceeded"}
  /\ error \in {"none"} \cup HarnessErrors
  /\ answer \in {"none"} \cup WorkerAnswers \cup HarnessErrors

Init ==
  /\ script \in Scripts
  /\ process = [child |-> "none", helper |-> "none"]
  /\ code = "none"
  /\ ends = [p \in Processes |-> {}]
  /\ pipe = [s \in Streams |-> 0]
  /\ got = 0
  /\ put = [s \in Outputs |-> 0]
  /\ late = FALSE
  /\ pc = "new"
  /\ registered = {}
  /\ ready = {}
  /\ offset = 0
  /\ buffer = [s \in Outputs |-> 0]
  /\ over = FALSE
  /\ raw = "none"
  /\ error = "none"
  /\ answer = "none"

-----------------------------------------------------------------------------
(* The worker: the child, its helper and the kernel *)

Alive(p) == process[p] \in {"running", "escaped"}
Open(s) == {p \in Processes : s \in ends[p]}

HasRead == script.reads = "never" \/ (pipe.stdin = 0 /\ "stdin" \notin registered)
HasWritten == \A s \in Outputs : put[s] = script[s]

Reads ==
  /\ process.child = "running" /\ pipe.stdin > 0
  /\ script.reads # "never" /\ (script.reads = "last" => HasWritten)
  /\ pipe' = [pipe EXCEPT !.stdin = @ - 1]
  /\ got' = got + 1
  /\ UNCHANGED <<script, process, code, ends, put, late, pc, loop, raw, error, answer>>

\* A full pipe blocks its writer.
Writes(p, s) ==
  /\ Alive(p) /\ s \in ends[p]
  /\ p = "child" /\ script.reads = "first" => HasRead
  /\ put[s] < script[s] /\ pipe[s] < Capacity
  /\ pipe' = [pipe EXCEPT ![s] = @ + 1]
  /\ put' = [put EXCEPT ![s] = @ + 1]
  /\ UNCHANGED <<script, process, code, ends, got, late, pc, loop, raw, error, answer>>

\* The child closes its outputs and lives on.
ClosesOutputs ==
  /\ process.child = "running" /\ HasWritten
  /\ ends.child \cap Outputs # {}
  /\ ends' = [ends EXCEPT !.child = @ \ Outputs]
  /\ UNCHANGED <<script, process, code, pipe, got, put, late, pc, loop, raw, error, answer>>

\* The child starts a helper, with its own pipe ends or with none of them, in its own
\* process group or in a new session.
Forks ==
  /\ process.child = "running" /\ process.helper = "none"
  /\ \E state \in {"running", "escaped"} : process' = [process EXCEPT !.helper = state]
  /\ \E inherited \in {{}, ends.child} : ends' = [ends EXCEPT !.helper = inherited]
  /\ UNCHANGED <<script, code, pipe, got, put, late, pc, loop, raw, error, answer>>

\* The child ends with status c.
Ends(c) ==
  /\ process.child = "running"
  /\ process' = [process EXCEPT !.child = "zombie"]
  /\ code' = c
  /\ ends' = [ends EXCEPT !.child = {}]
  /\ UNCHANGED <<script, pipe, got, put, late, pc, loop, raw, error, answer>>

Exits == HasRead /\ HasWritten /\ Ends(script.code)
Crashes == Ends("nonzero")

HelperExits ==
  /\ Alive("helper")
  /\ process' = [process EXCEPT !.helper = "dead"]
  /\ ends' = [ends EXCEPT !.helper = {}]
  /\ UNCHANGED <<script, code, pipe, got, put, late, pc, loop, raw, error, answer>>

\* A SIGKILL takes effect.
Dies(p) ==
  /\ process[p] = "killed"
  /\ process' = [process EXCEPT ![p] = IF p = "child" THEN "zombie" ELSE "dead"]
  /\ code' = IF p = "child" THEN "signal" ELSE code
  /\ ends' = [ends EXCEPT ![p] = {}]
  /\ UNCHANGED <<script, pipe, got, put, late, pc, loop, raw, error, answer>>

\* What a participant does that is neither a crash nor a fork.
ChildWorks == Reads \/ (\E s \in Outputs : Writes("child", s)) \/ Exits
HelperWorks == HelperExits \/ \E s \in Outputs : Writes("helper", s)

Worker ==
  \/ ChildWorks \/ HelperWorks
  \/ ClosesOutputs \/ Forks \/ Crashes
  \/ \E p \in Processes : Dies(p)

\* The deadline is counted from the spawn.
Tick ==
  /\ pc \notin {"new", "cleanup", "done"}
  /\ ~ late
  /\ late' = TRUE
  /\ UNCHANGED <<script, worker, pipe, pc, loop, raw, error, answer>>

-----------------------------------------------------------------------------
(* The parent *)

\* invoke: the staging directory cannot be made or filled.
StagingFails ==
  /\ pc = "new"
  /\ answer' = "staging_failed"
  /\ pc' = "done"
  /\ UNCHANGED <<script, worker, pipe, late, loop, raw, error>>

SpawnFails ==
  /\ pc = "new"
  /\ error' = "spawn_failed"
  /\ pc' = "cleanup"
  /\ UNCHANGED <<script, worker, pipe, late, loop, raw, answer>>

\* Popen succeeds; the three pipes are registered and the deadline is set.
Spawn ==
  /\ pc = "new"
  /\ process' = [process EXCEPT !.child = "running"]
  /\ ends' = [ends EXCEPT !.child = Streams]
  /\ registered' = Streams
  /\ pc' = "loop"
  /\ UNCHANGED <<script, code, pipe, got, put, late, ready, offset, buffer, over, raw, error,
                 answer>>

\* _signal_process_group with SIGKILL: reaches every process still in the group.
Signalled(state) == IF state = "running" THEN "killed" ELSE state

\* Mutant: the child is killed alone.
SignalChild == process' = [process EXCEPT !.child = Signalled(@)]

SignalGroup ==
  process' = [process EXCEPT !.child = Signalled(@), !.helper = Signalled(@)]

\* The exchange is cut short: the group is signalled and then the child is awaited.
Terminate(kind) ==
  /\ SignalGroup
  /\ raw' = kind
  /\ pc' = "reaping"
  /\ UNCHANGED <<script, code, ends, got, put, pipe, late, loop, error, answer>>

\* The head of the loop: the output limit is looked at first, then the clock.
LimitHit == pc = "loop" /\ over /\ Terminate("output_limit_exceeded")
DeadlineHit == pc = "loop" /\ ~ over /\ late /\ Terminate("timed_out")

\* Then the parent waits for the child if no pipe is left, and selects otherwise.
Continue ==
  /\ pc = "loop" /\ ~ over /\ ~ late
  /\ pc' = IF registered = {} THEN "wait" ELSE "select"
  /\ UNCHANGED <<script, worker, pipe, late, loop, raw, error, answer>>

\* _completed_process_exit: the child has ended.  What is left of its group is killed.
Completed ==
  /\ pc = "wait" /\ process.child = "zombie"
  /\ process' = [process EXCEPT !.child = "reaped", !.helper = Signalled(@)]
  /\ raw' = "exited"
  /\ pc' = "cleanup"
  /\ UNCHANGED <<script, code, ends, got, put, pipe, late, loop, error, answer>>

\* The child has not ended within the 50 ms, or the rest of the deadline.
WaitExpires ==
  /\ pc = "wait" /\ process.child # "zombie"
  /\ pc' = "loop"
  /\ UNCHANGED <<script, worker, pipe, late, loop, raw, error, answer>>

\* Mutant: the request is written before any output is read.
ReadyInTurn ==
  IF "stdin" \in registered
  THEN {s \in {"stdin"} : pipe.stdin < Capacity \/ Open("stdin") = {}}
  ELSE {s \in registered : pipe[s] > 0 \/ Open(s) = {}}

\* The streams select() reports.
Ready ==
  {s \in registered :
     IF s = "stdin" THEN pipe.stdin < Capacity \/ Open("stdin") = {}
                    ELSE pipe[s] > 0 \/ Open(s) = {}}

\* Mutant: select() without a timeout.
SelectForever ==
  /\ pc = "select"
  /\ Ready # {}
  /\ ready' = Ready
  /\ pc' = "handle"
  /\ UNCHANGED <<script, worker, pipe, late, registered, offset, buffer, over, raw, error,
                 answer>>

\* select() returns on an event, or at the deadline with none.
Select ==
  /\ pc = "select"
  /\ Ready # {} \/ late
  /\ ready' = Ready
  /\ pc' = IF Ready = {} THEN "loop" ELSE "handle"
  /\ UNCHANGED <<script, worker, pipe, late, registered, offset, buffer, over, raw, error,
                 answer>>

\* _write_worker_request.  With no reader left the write breaks the pipe and the rest of
\* the request is given up; after the last byte the child gets its end of file.
WriteRequest ==
  LET n == IF Open("stdin") = {} THEN 0
           ELSE Least(Least(Chunk, RequestSize - offset), Capacity - pipe.stdin)
  IN  /\ pipe' = [pipe EXCEPT !.stdin = @ + n]
      /\ offset' = offset + n
      /\ registered' = IF Open("stdin") = {} \/ offset' = RequestSize
                       THEN registered \ {"stdin"} ELSE registered
      /\ UNCHANGED <<buffer, over>>

\* Mutant: the chunk that crosses the limit is kept whole.
ReadWholeChunk(s) ==
  LET n == Least(Chunk, pipe[s])
  IN  /\ pipe' = [pipe EXCEPT ![s] = @ - n]
      /\ registered' = IF n = 0 THEN registered \ {s} ELSE registered
      /\ buffer' = [buffer EXCEPT ![s] = @ + n]
      /\ over' = (over \/ buffer'[s] > Limit[s])
      /\ UNCHANGED offset

\* Mutant: one byte over the limit is dropped without a word.
ReadPastLimit(s) ==
  LET n == Least(Chunk, pipe[s])
      room == Limit[s] - buffer[s]
  IN  /\ pipe' = [pipe EXCEPT ![s] = @ - n]
      /\ registered' = IF n = 0 THEN registered \ {s} ELSE registered
      /\ buffer' = [buffer EXCEPT ![s] = @ + Least(n, room)]
      /\ over' = (over \/ n > room + 1)
      /\ UNCHANGED offset

\* _read_worker_output and _append_bounded: an empty read is the end of the file; of a
\* chunk that does not fit, the part that fits is kept.
ReadOutput(s) ==
  LET n == Least(Chunk, pipe[s])
      room == Limit[s] - buffer[s]
  IN  /\ pipe' = [pipe EXCEPT ![s] = @ - n]
      /\ registered' = IF n = 0 THEN registered \ {s} ELSE registered
      /\ buffer' = [buffer EXCEPT ![s] = @ + Least(n, room)]
      /\ over' = (over \/ n > room)
      /\ UNCHANGED offset

\* _handle_process_event for one event of the batch; the limit is not looked at again
\* before the batch is done.
Handle(s) ==
  /\ pc = "handle" /\ s \in ready
  /\ ready' = ready \ {s}
  /\ pc' = IF ready' = {} THEN "loop" ELSE "handle"
  /\ IF s = "stdin" THEN WriteRequest ELSE ReadOutput(s)
  /\ UNCHANGED <<script, worker, late, raw, error, answer>>

\* An OSError of select, read, write or close: _abort_process.
PipeFails ==
  /\ pc \in {"select", "handle"}
  /\ SignalGroup
  /\ error' = "pipe_io_failed"
  /\ pc' = "aborting"
  /\ UNCHANGED <<script, code, ends, got, put, pipe, late, loop, raw, answer>>

\* wait() after the signal: every pipe is closed on the way out.
Reaps ==
  /\ pc \in {"reaping", "aborting"} /\ process.child = "zombie"
  /\ process' = [process EXCEPT !.child = "reaped"]
  /\ registered' = {} /\ ready' = {}
  /\ pc' = "cleanup"
  /\ UNCHANGED <<script, code, ends, got, put, pipe, late, offset, buffer, over, raw, error,
                 answer>>

\* The kernel has not ended the child within _REAP_TIMEOUT_SECONDS.
ReapExpires ==
  /\ pc \in {"reaping", "aborting"} /\ process.child = "killed"
  /\ error' = "reap_failed"
  /\ registered' = {} /\ ready' = {}
  /\ pc' = "cleanup"
  /\ UNCHANGED <<script, worker, pipe, late, offset, buffer, over, raw, answer>>

\* Mutant: the return code is looked at before the kind of the exit.
NormalizeByCode ==
  IF code # "zero" THEN "nonzero_exit"
  ELSE IF raw # "exited" THEN raw
  ELSE IF buffer.stdout = 0 THEN "empty_output"
  ELSE IF script.claim /\ buffer.stdout = ClaimSize THEN "claimed"
  ELSE "invalid_claim"

\* _normalize_worker_exit, in its order of precedence.
Normalize ==
  IF \E s \in Outputs : buffer[s] > Limit[s] THEN "output_limit_exceeded"
  ELSE IF raw # "exited" THEN raw
  ELSE IF code # "zero" THEN "nonzero_exit"
  ELSE IF buffer.stdout = 0 THEN "empty_output"
  ELSE IF script.claim /\ buffer.stdout = ClaimSize THEN "claimed"
  ELSE "invalid_claim"

\* The staging directory is removed; a harness error goes on to the evaluator.
Cleanup ==
  /\ pc = "cleanup"
  /\ answer' = IF error # "none" THEN error ELSE Normalize
  /\ pc' = "done"
  /\ UNCHANGED <<script, worker, pipe, late, loop, raw, error>>

\* It cannot be removed: that takes the place of any answer and of any other error.
CleanupFails ==
  /\ pc = "cleanup"
  /\ answer' = "staging_failed"
  /\ pc' = "done"
  /\ UNCHANGED <<script, worker, pipe, late, loop, raw, error>>

Done == pc = "done" /\ UNCHANGED vars

Parent ==
  \/ Spawn \/ LimitHit \/ DeadlineHit \/ Continue \/ Completed \/ WaitExpires
  \/ Select \/ (\E s \in Streams : Handle(s)) \/ Reaps \/ ReapExpires \/ Cleanup
Faults == StagingFails \/ SpawnFails \/ PipeFails \/ CleanupFails

Next == Parent \/ Faults \/ Worker \/ Tick \/ Done

\* The parent's thread and the clock go on.  Nothing is assumed of the worker.
Spec == Init /\ [][Next]_vars /\ WF_vars(Parent) /\ WF_vars(Tick)

\* The parent and the worker go on.  Nothing is assumed of the clock.
PatientSpec ==
  Init /\ [][Next]_vars /\ WF_vars(Parent) /\ WF_vars(ChildWorks) /\ WF_vars(HelperWorks)

-----------------------------------------------------------------------------
(* Properties *)

\* A claim is accepted only when the parent holds every byte the worker wrote, nobody can
\* write any more, nothing was over a limit and the child ended by itself with status 0.
\* A truncated, partial or interleaved output is never read as a claim.
ClaimIsWhole ==
  answer = "claimed" =>
    /\ script.claim /\ put.stdout = ClaimSize
    /\ \A s \in Outputs : buffer[s] = put[s] /\ put[s] <= Limit[s] /\ Open(s) = {}
    /\ code = "zero"

\* A failure is put down to the participant only for what the participant did: the
\* parent's own SIGKILL never reads as a nonzero exit, an output bound never as a timeout.
BlameIsEarned ==
  /\ answer = "timed_out" => late /\ ~ over
  /\ answer = "output_limit_exceeded" => \E s \in Outputs : put[s] > Limit[s]
  /\ answer = "nonzero_exit" => code = "nonzero"
  /\ answer = "empty_output" => code = "zero" /\ put.stdout = 0
  /\ answer = "invalid_claim" =>
       code = "zero" /\ put.stdout > 0 /\ ~ (script.claim /\ put.stdout = ClaimSize)

\* However the invocation ends, no process of the group is left running, every pipe end of
\* the parent is closed, and the child is reaped unless that very thing was reported.
NothingLeftBehind ==
  pc = "done" =>
    /\ process.child # "running" /\ process.helper # "running"
    /\ registered = {}
    /\ process.child \in {"none", "reaped"} \/ error = "reap_failed"

\* The invocation is the one-answer service of WorkerContract.
Contract == INSTANCE WorkerContract WITH
  group <- IF process.child = "none" THEN "idle"
           ELSE IF "running" \in {process.child, process.helper} THEN "running" ELSE "gone"
Implements == Contract!Spec

\* A participant that reads its input, writes a claim within the limits and exits, in any
\* order and with any pipe full, gets its claim through: the two sides never wait for each
\* other.  Only the deadline, a crash of the child or a harness error can take it away.
ClaimComesThrough ==
  /\ script.claim /\ script.stdout = ClaimSize /\ script.code = "zero"
  /\ \A s \in Outputs : script[s] <= Limit[s]
  => <>(late \/ code = "nonzero" \/ answer \in HarnessErrors \/ answer = "claimed")
=============================================================================
