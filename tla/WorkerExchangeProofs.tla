------------------------- MODULE WorkerExchangeProofs -------------------------
(* What one invocation guarantees, for every request, limit, pipe size, chunk *)
(* and set of participants, in every interleaving of the parent, the child,   *)
(* its helper, the kernel and the clock.                                      *)
EXTENDS WorkerExchange, TLAPS

Exchanging == {"loop", "wait", "select", "handle"}
Over == {"cleanup", "done"}

\* Where the processes are while the parent is somewhere.
Phases ==
  /\ process.child = "none" =>
       /\ process.helper = "none" /\ raw = "none" /\ registered = {}
       /\ pc \in {"new"} \cup Over
       /\ pc = "cleanup" => error # "none"
       /\ pc = "done" => answer \in HarnessErrors
  /\ pc = "new" => process.child = "none" /\ error = "none"
  /\ pc \in Exchanging =>
       /\ raw = "none" /\ error = "none"
       /\ process.child \in {"running", "zombie"}
       /\ process.child = "zombie" => code \in {"zero", "nonzero"}
  /\ pc = "wait" => registered = {} /\ ~ over
  /\ pc = "select" => ~ over
  /\ pc \in {"reaping", "aborting"} =>
       process.child \in {"killed", "zombie"} /\ process.helper # "running"
  /\ pc = "reaping" => raw # "none" /\ error = "none"
  /\ pc = "aborting" => error # "none"
  /\ pc \in Over =>
       /\ process.child \in {"none", "reaped"} \/ error = "reap_failed"
       /\ process.child # "running" /\ process.helper # "running"
       /\ registered = {} /\ (raw # "none" \/ error # "none" \/ answer \in HarnessErrors)

\* Every byte written is in a pipe, with its reader, or over a limit.
Bytes ==
  /\ got + pipe.stdin = offset
  /\ ~ over => \A s \in Outputs : buffer[s] + pipe[s] = put[s]
  /\ over => \E s \in Outputs : put[s] > Limit[s]

\* An output that is reported ready has bytes or no writer; one that is no longer
\* registered was read to its end.
Drained ==
  pc \in Exchanging =>
    /\ \A s \in Outputs \cap ready : pipe[s] > 0 \/ Open(s) = {}
    /\ \A s \in Outputs \ registered : pipe[s] = 0 /\ Open(s) = {}

\* What each kind of exit was concluded from.
Concluded ==
  /\ raw = "exited" =>
       /\ ~ over /\ process.child = "reaped" /\ code \in {"zero", "nonzero"}
       /\ \A s \in Outputs : pipe[s] = 0 /\ Open(s) = {}
  /\ raw = "timed_out" => late /\ ~ over
  /\ raw = "output_limit_exceeded" => over

\* The answer is what the exchange ended with, and comes with the end.
Answered ==
  /\ answer = "none" <=> pc # "done"
  /\ answer \in {"none", "staging_failed"} \/ answer = IF error # "none" THEN error ELSE Normalize

IInv == TypeOK /\ Phases /\ Bytes /\ Drained /\ Concluded /\ Answered

LEMMA InitIInv == Init => IInv
<1> SUFFICES ASSUME Init PROVE IInv
  OBVIOUS
<1>1. /\ put = [stdout |-> 0, stderr |-> 0] /\ buffer = [stdout |-> 0, stderr |-> 0]
      /\ pipe = [stdin |-> 0, stdout |-> 0, stderr |-> 0]
      /\ ends = [child |-> {}, helper |-> {}]
  BY DEF Init, Outputs, Streams, Processes
<1>2. TypeOK
  <2>1. put \in [stdout : 0 .. script.stdout, stderr : 0 .. script.stderr]
    BY <1>1, WorkerAssumption DEF Init
  <2>2. buffer \in [stdout : 0 .. Limit.stdout, stderr : 0 .. Limit.stderr]
    BY <1>1, WorkerAssumption DEF Outputs
  <2>3. pipe \in [Streams -> 0 .. Capacity] /\ ends \in [Processes -> SUBSET Streams]
    BY WorkerAssumption DEF Init
  <2>4. got \in 0 .. RequestSize /\ offset \in 0 .. RequestSize
    BY WorkerAssumption DEF Init
  <2>5. QED BY <2>1, <2>2, <2>3, <2>4 DEF Init, TypeOK
<1>3. Phases
  BY DEF Init, Phases, Exchanging, Over
<1>4. Bytes
  BY DEF Init, Bytes, Outputs, Streams
<1>5. Drained /\ Concluded /\ Answered
  BY DEF Init, Drained, Exchanging, Concluded, Answered
<1>6. QED BY <1>2, <1>3, <1>4, <1>5 DEF IInv

-----------------------------------------------------------------------------
(* Steps of the worker: the parent stands still. *)

ParentStands == UNCHANGED <<script, late, pc, loop, raw, error, answer>>

\* What a worker's step must keep for the parent's part of the invariant to stand: nobody
\* gets an end of a pipe that is closed, and the child's status comes when it ends.
LEMMA ParentUndisturbed ==
  ASSUME IInv, ParentStands,
         \A s \in Outputs : Open(s) = {} => Open(s)' = {} /\ pipe'[s] = pipe[s],
         \A s \in Outputs : pipe'[s] \in Int /\ pipe'[s] >= pipe[s],
         \/ process'.child = process.child /\ code' = code
         \/ /\ process.child = "running" /\ process'.child = "zombie"
            /\ code' \in {"zero", "nonzero"}
         \/ process.child = "killed" /\ process'.child = "zombie",
         process'.helper = "running" =>
           process.helper = "running" \/ process.child = "running",
         process.child = "none" => process'.helper = "none"
  PROVE  Phases' /\ Drained' /\ Concluded' /\ Answered'
<1>1. UNCHANGED <<script, late, pc, registered, ready, offset, buffer, over, raw, error, answer>>
  BY DEF ParentStands, loop
<1>2. Phases'
  BY <1>1 DEF IInv, Phases, Exchanging, Over
<1>3. Drained'
  <2>1. \A s \in Outputs : pipe[s] \in Int /\ pipe'[s] \in Int /\ pipe'[s] >= pipe[s]
    BY DEF IInv, TypeOK, Streams, Outputs
  <2>2. SUFFICES ASSUME pc \in Exchanging
                 PROVE  /\ \A s \in Outputs \cap ready : pipe'[s] > 0 \/ Open(s)' = {}
                        /\ \A s \in Outputs \ registered : pipe'[s] = 0 /\ Open(s)' = {}
    BY <1>1 DEF Drained, Exchanging
  <2>3. QED BY <2>1, <2>2 DEF IInv, Drained
<1>4. Concluded'
  BY <1>1 DEF IInv, Concluded
<1>5. Answered'
  BY <1>1 DEF IInv, Answered, Normalize, Phases, Over
<1>6. QED BY <1>2, <1>3, <1>4, <1>5

LEMMA ReadsIInv ==
  ASSUME IInv, Reads
  PROVE  IInv'
<1>1. TypeOK'
  BY WorkerAssumption DEF IInv, Reads, TypeOK, Streams, Outputs, loop, Bytes
<1>2. ParentStands /\ \A s \in Outputs : pipe'[s] = pipe[s] /\ Open(s)' = Open(s)
  BY DEF Reads, ParentStands, Outputs, Streams, IInv, TypeOK, Open
<1>3. Bytes'
  BY <1>2 DEF Reads, IInv, Bytes, TypeOK, Streams, Outputs, loop
<1>4. Phases' /\ Drained' /\ Concluded' /\ Answered'
  BY <1>2, ParentUndisturbed DEF Reads, IInv, TypeOK, Streams, Outputs
<1>5. QED BY <1>1, <1>3, <1>4 DEF IInv

LEMMA WritesIInv ==
  ASSUME IInv, NEW p \in Processes, NEW s \in Outputs, Writes(p, s)
  PROVE  IInv'
<1>1. TypeOK'
  BY WorkerAssumption DEF IInv, Writes, TypeOK, Streams, Outputs, loop, Bytes
<1>2. /\ ParentStands /\ \A t : Open(t)' = Open(t)
      /\ p \in Open(s) /\ \A t \in Outputs \ {s} : pipe'[t] = pipe[t] /\ put'[t] = put[t]
      /\ pipe'[s] = pipe[s] + 1 /\ put'[s] = put[s] + 1 /\ pipe'.stdin = pipe.stdin
  BY DEF Writes, ParentStands, Outputs, Streams, IInv, TypeOK, Open
<1>3. Bytes'
  BY <1>2, WorkerAssumption DEF Writes, IInv, Bytes, TypeOK, Streams, Outputs, loop
<1>4. Phases' /\ Drained' /\ Concluded' /\ Answered'
  <2>1. \A t \in Outputs : pipe[t] \in Int /\ pipe'[t] \in Int /\ pipe'[t] >= pipe[t]
    BY <1>1, <1>2 DEF IInv, TypeOK, Streams, Outputs
  <2>2. \A t \in Outputs : Open(t) = {} => Open(t)' = {} /\ pipe'[t] = pipe[t]
    BY <1>2
  <2>3. UNCHANGED <<process, code>>
    BY DEF Writes
  <2>4. process.child = "none" => process.helper = "none"
    BY DEF IInv, Phases
  <2>5. QED BY <1>2, <2>1, <2>2, <2>3, <2>4, ParentUndisturbed
<1>5. QED BY <1>1, <1>3, <1>4 DEF IInv

\* The child or its helper gives up some of its ends, or ends altogether.
Leaves(p, state, status, kept) ==
  /\ process' = [process EXCEPT ![p] = state]
  /\ ends' = [ends EXCEPT ![p] = kept]
  /\ code' = status
  /\ UNCHANGED <<pipe, got, put>>
  /\ ParentStands

LEMMA LeavesIInv ==
  ASSUME IInv, NEW p \in Processes, NEW state, NEW status, NEW kept \in SUBSET ends[p],
         Leaves(p, state, status, kept),
         \/ p = "helper" /\ state = "dead" /\ process.helper # "none" /\ status = code
         \/ /\ p = "child" /\ process.child = "running" /\ state = "zombie"
            /\ status \in {"zero", "nonzero"}
         \/ p = "child" /\ process.child = "killed" /\ state = "zombie" /\ status = "signal"
         \/ p = "child" /\ state = process.child /\ status = code
  PROVE  IInv'
<1>1. TypeOK'
  BY DEF IInv, Leaves, ParentStands, TypeOK, Streams, Outputs, Processes, loop
<1>2. \A s : Open(s)' \subseteq Open(s)
  BY DEF IInv, Leaves, TypeOK, Open, Processes
<1>3. Bytes'
  BY DEF IInv, Leaves, ParentStands, Bytes, loop
<1>4. Phases' /\ Drained' /\ Concluded' /\ Answered'
  <2>1. \A s \in Outputs : pipe'[s] \in Int /\ pipe'[s] >= pipe[s]
    BY DEF Leaves, IInv, TypeOK, Outputs, Streams
  <2>2. \A s \in Outputs : Open(s) = {} => Open(s)' = {} /\ pipe'[s] = pipe[s]
    BY <1>2 DEF Leaves
  <2>3. /\ \/ process'.child = process.child /\ code' = code
           \/ /\ process.child = "running" /\ process'.child = "zombie"
              /\ code' \in {"zero", "nonzero"}
           \/ process.child = "killed" /\ process'.child = "zombie"
        /\ process'.helper = "running" => process.helper = "running"
        /\ process.child = "none" => process'.helper = "none"
    BY DEF Leaves, IInv, TypeOK, Phases, Processes
  <2>4. QED BY <2>1, <2>2, <2>3, ParentUndisturbed DEF Leaves
<1>5. QED BY <1>1, <1>3, <1>4 DEF IInv

LEMMA ForksIInv ==
  ASSUME IInv, Forks
  PROVE  IInv'
<1>1. TypeOK'
  BY DEF IInv, Forks, TypeOK, Streams, Outputs, loop, Processes
<1>2. /\ ParentStands /\ pipe' = pipe /\ code' = code /\ process.child = "running"
      /\ process'.child = process.child
  BY DEF Forks, ParentStands, IInv, TypeOK
<1>3. \A s : Open(s) = {} => Open(s)' = {}
  BY DEF Forks, Open, IInv, TypeOK, Processes
<1>4. Bytes'
  BY DEF IInv, Forks, Bytes, loop
<1>5. Phases' /\ Drained' /\ Concluded' /\ Answered'
  BY <1>2, <1>3, ParentUndisturbed DEF IInv, TypeOK, Streams, Outputs
<1>6. QED BY <1>1, <1>4, <1>5 DEF IInv

LEMMA WorkerIInv ==
  ASSUME IInv, Worker
  PROVE  IInv'
<1>1. /\ "child" \in Processes /\ "helper" \in Processes
      /\ script.code \in {"zero", "nonzero"}
      /\ \A p \in Processes : {} \in SUBSET ends[p]
  BY WorkerAssumption DEF Processes, IInv, TypeOK
<1>2. CASE Reads
  BY <1>2, ReadsIInv
<1>3. ASSUME NEW p \in Processes, NEW s \in Outputs, Writes(p, s) PROVE IInv'
  BY <1>3, WritesIInv
<1>4. CASE ClosesOutputs
  <2>1. Leaves("child", process.child, code, ends.child \ Outputs)
    BY <1>4 DEF ClosesOutputs, Leaves, ParentStands, IInv, TypeOK
  <2>2. QED BY <1>1, <2>1, LeavesIInv
<1>5. CASE Exits \/ Crashes
  <2>1. PICK c \in {"zero", "nonzero"} : Ends(c)
    BY <1>1, <1>5 DEF Exits, Crashes
  <2>2. Leaves("child", "zombie", c, {})
    BY <2>1 DEF Ends, Leaves, ParentStands, IInv, TypeOK
  <2>3. QED BY <1>1, <2>1, <2>2, LeavesIInv DEF Ends
<1>6. CASE HelperExits
  <2>1. Leaves("helper", "dead", code, {}) /\ process.helper # "none"
    BY <1>6 DEF HelperExits, Alive, Leaves, ParentStands, IInv, TypeOK
  <2>2. QED BY <1>1, <2>1, LeavesIInv
<1>7. CASE Dies("child")
  <2>1. Leaves("child", "zombie", "signal", {}) /\ process.child = "killed"
    BY <1>7 DEF Dies, Leaves, ParentStands, IInv, TypeOK
  <2>2. QED BY <1>1, <2>1, LeavesIInv
<1>8. CASE Dies("helper")
  <2>1. Leaves("helper", "dead", code, {}) /\ process.helper # "none"
    BY <1>8 DEF Dies, Leaves, ParentStands, IInv, TypeOK
  <2>2. QED BY <1>1, <2>1, LeavesIInv
<1>9. CASE Forks
  BY <1>9, ForksIInv
<1>10. QED BY <1>1, <1>2, <1>3, <1>4, <1>5, <1>6, <1>7, <1>8, <1>9
       DEF Worker, ChildWorks, HelperWorks, Processes

-----------------------------------------------------------------------------
(* Steps of the parent and of the clock. *)

\* What most of them leave alone.
LEMMA BytesKept ==
  ASSUME IInv, UNCHANGED <<got, put, pipe, offset, buffer, over>>
  PROVE  Bytes'
BY DEF IInv, Bytes

LEMMA StartIInv ==
  ASSUME IInv, StagingFails \/ SpawnFails \/ Spawn
  PROVE  IInv'
<1>1. /\ pc = "new" /\ process.child = "none" /\ process.helper = "none"
      /\ raw = "none" /\ error = "none" /\ answer = "none" /\ registered = {} /\ ready = {}
  BY DEF StagingFails, SpawnFails, Spawn, IInv, Phases, Answered, TypeOK
<1>2. Bytes'
  BY BytesKept DEF StagingFails, SpawnFails, Spawn, worker, loop
<1>3. CASE StagingFails
  <2>1. TypeOK'
    BY <1>3 DEF StagingFails, IInv, TypeOK, worker, loop, HarnessErrors
  <2>2. Phases' /\ Drained' /\ Concluded' /\ Answered'
    BY <1>1, <1>3 DEF StagingFails, IInv, Phases, Drained, Concluded, Answered, worker, loop,
       Exchanging, Over, HarnessErrors
  <2>3. QED BY <1>2, <2>1, <2>2 DEF IInv
<1>4. CASE SpawnFails
  <2>1. TypeOK'
    BY <1>4 DEF SpawnFails, IInv, TypeOK, worker, loop, HarnessErrors
  <2>2. Phases' /\ Drained' /\ Concluded' /\ Answered'
    BY <1>1, <1>4 DEF SpawnFails, IInv, Phases, Drained, Concluded, Answered, worker, loop,
       Exchanging, Over, HarnessErrors
  <2>3. QED BY <1>2, <2>1, <2>2 DEF IInv
<1>5. CASE Spawn
  <2>1. TypeOK'
    BY <1>1, <1>5 DEF Spawn, IInv, TypeOK, Processes
  <2>2. process'.child = "running" /\ process'.helper = "none"
    BY <1>1, <1>5 DEF Spawn, IInv, TypeOK
  <2>3. Phases' /\ Concluded' /\ Answered'
    BY <1>1, <1>5, <2>2 DEF Spawn, IInv, Phases, Concluded, Answered, Exchanging, Over
  <2>4. Drained'
    BY <1>1, <1>5 DEF Spawn, Drained, Streams
  <2>5. QED BY <1>2, <2>1, <2>3, <2>4 DEF IInv
<1>6. QED BY <1>3, <1>4, <1>5

\* The head of the loop, the wait that expires, the clock, and standing still.
LEMMA ControlIInv ==
  ASSUME IInv, Continue \/ WaitExpires \/ Tick \/ UNCHANGED vars
  PROVE  IInv'
<1>1. /\ UNCHANGED <<script, process, code, ends, got, put, pipe, registered, ready, offset,
                      buffer, over, raw, error, answer>>
      /\ late => late'
  BY DEF Continue, WaitExpires, Tick, vars, worker, loop
<1>2. \/ pc = pc'
      \/ /\ pc \in {"loop", "wait"} /\ pc' \in {"loop", "wait", "select"}
         /\ pc' = "wait" => registered = {} /\ ~ over
         /\ pc' = "select" => ~ over
  BY DEF Continue, WaitExpires, Tick, vars
<1>3. late' \in BOOLEAN
  BY DEF Continue, WaitExpires, Tick, vars, IInv, TypeOK
<1>4. TypeOK'
  BY <1>1, <1>2, <1>3 DEF IInv, TypeOK
<1>5. Phases'
  BY <1>1, <1>2 DEF IInv, Phases, Exchanging, Over
<1>6. Bytes'
  BY <1>1, BytesKept
<1>7. Drained'
  BY <1>1, <1>2 DEF IInv, Drained, Exchanging, Open
<1>8. Concluded'
  BY <1>1 DEF IInv, Concluded, Open
<1>9. Answered'
  BY <1>1, <1>2 DEF IInv, Answered, Normalize
<1>10. QED BY <1>4, <1>5, <1>6, <1>7, <1>8, <1>9 DEF IInv

LEMMA SignalIInv ==
  ASSUME IInv, LimitHit \/ DeadlineHit \/ PipeFails
  PROVE  IInv'
<1>1. /\ UNCHANGED <<script, code, ends, got, put, pipe, late, registered, ready, offset,
                      buffer, over, answer>>
      /\ pc \in Exchanging
      /\ SignalGroup
      /\ \/ /\ pc' = "reaping" /\ raw' \in {"timed_out", "output_limit_exceeded"} /\ error' = error
            /\ raw' = "timed_out" => late /\ ~ over
            /\ raw' = "output_limit_exceeded" => over
         \/ pc' = "aborting" /\ raw' = raw /\ error' = "pipe_io_failed"
  BY DEF LimitHit, DeadlineHit, PipeFails, Terminate, Exchanging, loop
<1>2. /\ raw = "none" /\ error = "none" /\ answer = "none"
      /\ process.child \in {"running", "zombie"}
  BY <1>1 DEF IInv, Phases, Answered, Exchanging
<1>3. /\ process'.child \in {"killed", "zombie"} /\ process'.helper # "running"
      /\ process'.helper \in {"none", "escaped", "killed", "dead"}
      /\ process' \in [child : {"none", "running", "killed", "zombie", "reaped"},
                       helper : {"none", "running", "escaped", "killed", "dead"}]
  BY <1>1, <1>2 DEF SignalGroup, Signalled, IInv, TypeOK
<1>4. TypeOK'
  BY <1>1, <1>3 DEF IInv, TypeOK, HarnessErrors
<1>5. Phases'
  BY <1>1, <1>2, <1>3 DEF IInv, Phases, Exchanging, Over
<1>6. Bytes'
  BY <1>1, BytesKept
<1>7. Drained' /\ Concluded'
  BY <1>1, <1>2 DEF IInv, Drained, Exchanging, Concluded
<1>8. Answered'
  BY <1>1, <1>2 DEF IInv, Answered, Exchanging
<1>9. QED BY <1>4, <1>5, <1>6, <1>7, <1>8 DEF IInv

\* The parent waits only when every pipe has been read to its end, so the child's own end
\* comes after its last byte.
LEMMA CompletedIInv ==
  ASSUME IInv, Completed
  PROVE  IInv'
<1>1. /\ UNCHANGED <<script, code, ends, got, put, pipe, late, registered, ready, offset,
                      buffer, over, error, answer>>
      /\ pc = "wait" /\ pc' = "cleanup" /\ raw' = "exited" /\ process.child = "zombie"
  BY DEF Completed, loop
<1>2. /\ raw = "none" /\ error = "none" /\ answer = "none" /\ registered = {} /\ ~ over
      /\ code \in {"zero", "nonzero"}
      /\ \A s \in Outputs : pipe[s] = 0 /\ Open(s) = {}
  BY <1>1 DEF IInv, Phases, Answered, Exchanging, Drained
<1>3. /\ process'.child = "reaped" /\ process'.helper # "running"
      /\ process' \in [child : {"none", "running", "killed", "zombie", "reaped"},
                       helper : {"none", "running", "escaped", "killed", "dead"}]
  BY DEF Completed, Signalled, IInv, TypeOK
<1>4. TypeOK'
  BY <1>1, <1>3 DEF IInv, TypeOK
<1>5. Phases'
  BY <1>1, <1>2, <1>3 DEF Phases, Exchanging, Over
<1>6. Bytes'
  BY <1>1, BytesKept
<1>7. Drained' /\ Concluded' /\ Answered'
  BY <1>1, <1>2, <1>3 DEF Drained, Exchanging, Concluded, Answered, Open
<1>8. QED BY <1>4, <1>5, <1>6, <1>7 DEF IInv

LEMMA SelectIInv ==
  ASSUME IInv, Select
  PROVE  IInv'
<1>1. /\ UNCHANGED <<script, process, code, ends, got, put, pipe, late, registered, offset,
                      buffer, over, raw, error, answer>>
      /\ pc = "select" /\ pc' \in {"loop", "handle"} /\ ready' = Ready
  BY DEF Select, worker
<1>2. ready' \subseteq registered /\ \A s \in Outputs \cap ready' : pipe[s] > 0 \/ Open(s) = {}
  BY <1>1 DEF Ready, Outputs
<1>3. TypeOK'
  BY <1>1, <1>2 DEF IInv, TypeOK
<1>4. Phases'
  BY <1>1 DEF IInv, Phases, Exchanging, Over
<1>5. Bytes'
  BY <1>1, BytesKept
<1>6. Drained'
  BY <1>1, <1>2 DEF IInv, Drained, Exchanging, Open
<1>7. Concluded' /\ Answered'
  BY <1>1 DEF IInv, Concluded, Answered, Open, Phases, Exchanging
<1>8. QED BY <1>3, <1>4, <1>5, <1>6, <1>7 DEF IInv

\* Handling an event moves bytes and can only set `over`; the rest of the invariant stands.
LEMMA HandleFrame ==
  ASSUME IInv, NEW s \in Streams, Handle(s), TypeOK', Bytes', Drained'
  PROVE  IInv'
<1>1. /\ UNCHANGED <<script, process, code, ends, put, late, raw, error, answer>>
      /\ pc = "handle" /\ pc' \in {"loop", "handle"}
  BY DEF Handle, worker
<1>2. Phases'
  BY <1>1 DEF IInv, Phases, Exchanging, Over
<1>3. raw = "none" /\ error = "none" /\ answer = "none"
  BY <1>1 DEF IInv, Phases, Exchanging, Answered
<1>4. Concluded' /\ Answered'
  BY <1>1, <1>3 DEF Concluded, Answered
<1>5. QED BY <1>2, <1>4 DEF IInv

LEMMA WriteRequestIInv ==
  ASSUME IInv, Handle("stdin")
  PROVE  IInv'
<1> DEFINE n == IF Open("stdin") = {} THEN 0
                ELSE Least(Least(Chunk, RequestSize - offset), Capacity - pipe.stdin)
<1>1. /\ UNCHANGED <<script, process, code, ends, got, put, late, raw, error, answer, buffer, over>>
      /\ pc = "handle" /\ pc' \in {"loop", "handle"}
      /\ pipe' = [pipe EXCEPT !.stdin = @ + n] /\ offset' = offset + n
      /\ registered' \in {registered, registered \ {"stdin"}}
      /\ ready' = ready \ {"stdin"}
  BY DEF Handle, worker, WriteRequest
<1>2. n \in Nat /\ offset + n \in 0 .. RequestSize /\ pipe.stdin + n \in 0 .. Capacity
  BY WorkerAssumption DEF IInv, TypeOK, Streams, Least
<1> HIDE DEF n
<1>3. /\ pipe' \in [Streams -> 0 .. Capacity] /\ pipe'.stdin = pipe.stdin + n
      /\ \A s \in Outputs : pipe'[s] = pipe[s]
  BY <1>1, <1>2 DEF IInv, TypeOK, Streams, Outputs
<1>4. TypeOK'
  BY <1>1, <1>2, <1>3 DEF IInv, TypeOK
<1>5. Bytes'
  BY <1>1, <1>2, <1>3 DEF IInv, TypeOK, Bytes, Streams
<1>6. Drained'
  BY <1>1, <1>3 DEF IInv, Drained, Exchanging, Open, Outputs
<1>7. QED BY <1>4, <1>5, <1>6, HandleFrame DEF Streams

\* A read takes the bytes out of the pipe and keeps them, or sets `over` for good; an empty
\* read closes a stream that has no writer left.
LEMMA ReadOutputIInv ==
  ASSUME IInv, NEW s \in Outputs, Handle(s)
  PROVE  IInv'
<1> DEFINE n == Least(Chunk, pipe[s])
           room == Limit[s] - buffer[s]
<1>1. /\ UNCHANGED <<script, process, code, ends, got, put, late, raw, error, answer, offset>>
      /\ pc = "handle" /\ pc' \in {"loop", "handle"}
      /\ pipe' = [pipe EXCEPT ![s] = @ - n]
      /\ buffer' = [buffer EXCEPT ![s] = @ + Least(n, room)]
      /\ over' = (over \/ n > room)
      /\ registered' = IF n = 0 THEN registered \ {s} ELSE registered
      /\ ready' = ready \ {s} /\ s \in ready
  BY DEF Handle, worker, ReadOutput, Outputs
<1>2. /\ pipe[s] \in 0 .. Capacity /\ buffer[s] \in 0 .. Limit[s] /\ Limit[s] \in Nat
      /\ Chunk \in Nat \ {0} /\ put[s] \in Nat
  BY WorkerAssumption DEF IInv, TypeOK, Streams, Outputs
<1>3. /\ n \in 0 .. pipe[s] /\ room \in Nat /\ Least(n, room) \in Nat
      /\ buffer[s] + Least(n, room) \in 0 .. Limit[s]
      /\ n <= room => Least(n, room) = n
      /\ n = 0 => pipe[s] = 0
  BY <1>2 DEF Least
<1> HIDE DEF n, room
<1>4. /\ pipe' \in [Streams -> 0 .. Capacity] /\ pipe'[s] = pipe[s] - n
      /\ pipe'.stdin = pipe.stdin
      /\ \A t \in Outputs \ {s} : pipe'[t] = pipe[t]
  <2>1. pipe[s] - n \in 0 .. Capacity
    BY <1>2, <1>3, WorkerAssumption
  <2>2. pipe \in [Streams -> 0 .. Capacity] /\ s \in Streams /\ s # "stdin"
    BY DEF IInv, TypeOK, Streams, Outputs
  <2>3. QED BY <1>1, <2>1, <2>2 DEF Streams
<1>5. /\ buffer' \in [stdout : 0 .. Limit.stdout, stderr : 0 .. Limit.stderr]
      /\ buffer'[s] = buffer[s] + Least(n, room)
      /\ \A t \in Outputs \ {s} : buffer'[t] = buffer[t]
  BY <1>1, <1>3 DEF IInv, TypeOK, Outputs
<1>6. TypeOK'
  <2>1. over' \in BOOLEAN
    BY <1>1
  <2>2. registered' \subseteq Streams /\ ready' \subseteq registered'
    BY <1>1 DEF IInv, TypeOK
  <2>3. QED BY <1>1, <1>4, <1>5, <2>1, <2>2 DEF IInv, TypeOK
<1>7. Bytes'
  <2>1. got' + pipe'.stdin = offset'
    BY <1>1, <1>4 DEF IInv, Bytes
  <2>2. ASSUME ~ over' PROVE \A t \in Outputs : buffer'[t] + pipe'[t] = put'[t]
    <3>1. ~ over /\ ~ (n > room)
      BY <1>1, <2>2
    <3>2. \A t \in Outputs : buffer[t] + pipe[t] = put[t]
      BY <3>1 DEF IInv, Bytes
    <3>3. buffer'[s] + pipe'[s] = put[s]
      BY <1>2, <1>3, <1>4, <1>5, <3>1, <3>2
    <3>4. QED BY <1>1, <1>4, <1>5, <3>2, <3>3
  <2>3. ASSUME over' PROVE \E t \in Outputs : put'[t] > Limit[t]
    <3>1. CASE over
      BY <1>1, <3>1 DEF IInv, Bytes
    <3>2. CASE ~ over
      <4>1. n > room /\ buffer[s] + pipe[s] = put[s]
        BY <1>1, <2>3, <3>2 DEF IInv, Bytes
      <4>2. put[s] > Limit[s]
        BY <1>2, <1>3, <4>1 DEF room
      <4>3. QED BY <1>1, <4>2
    <3>3. QED BY <3>1, <3>2
  <2>4. QED BY <2>1, <2>2, <2>3 DEF Bytes
<1>8. Drained'
  <2>1. pc \in Exchanging
    BY <1>1 DEF Exchanging
  <2>2. \A t \in Outputs \cap ready' : pipe'[t] > 0 \/ Open(t)' = {}
    BY <1>1, <1>4, <2>1 DEF IInv, Drained, Open
  <2>3. n = 0 => pipe'[s] = 0 /\ Open(s)' = {}
    BY <1>1, <1>2, <1>3, <1>4, <2>1 DEF IInv, Drained, Open
  <2>4. \A t \in Outputs \ registered : pipe[t] = 0 /\ Open(t) = {}
    BY <2>1 DEF IInv, Drained
  <2>5. s \in registered
    BY <1>1 DEF IInv, TypeOK
  <2>6. \A t \in Outputs \ registered' : pipe'[t] = 0 /\ Open(t)' = {}
    <3>1. SUFFICES ASSUME NEW t \in Outputs \ registered' PROVE pipe'[t] = 0 /\ Open(t)' = {}
      OBVIOUS
    <3>2. CASE t = s
      BY <1>1, <2>3, <2>5, <3>1, <3>2
    <3>3. CASE t # s
      BY <1>1, <1>4, <2>4, <3>1, <3>3 DEF Open
    <3>4. QED BY <3>2, <3>3
  <2>7. QED BY <2>2, <2>6 DEF Drained
<1>9. QED BY <1>6, <1>7, <1>8, HandleFrame DEF Streams

LEMMA ReapIInv ==
  ASSUME IInv, Reaps \/ ReapExpires
  PROVE  IInv'
<1>1. /\ UNCHANGED <<script, code, ends, got, put, pipe, late, offset, buffer, over, raw, answer>>
      /\ pc \in {"reaping", "aborting"} /\ pc' = "cleanup" /\ registered' = {} /\ ready' = {}
  BY DEF Reaps, ReapExpires, worker
<1>2. \/ process' = [process EXCEPT !.child = "reaped"] /\ error' = error
      \/ process' = process /\ error' = "reap_failed" /\ process.child = "killed"
  BY DEF Reaps, ReapExpires, worker
<1>3. process'.child \in {"killed", "reaped"} /\ process'.helper = process.helper
  BY <1>2 DEF IInv, TypeOK
<1>4. TypeOK'
  BY <1>1, <1>2 DEF IInv, TypeOK, HarnessErrors
<1>5. Phases'
  BY <1>1, <1>2, <1>3 DEF IInv, Phases, Exchanging, Over, TypeOK
<1>6. Bytes'
  BY <1>1, BytesKept
<1>7. Drained'
  BY <1>1 DEF Drained, Exchanging
<1>8. Concluded'
  <2>1. raw # "exited"
    BY <1>1 DEF IInv, Phases, Concluded
  <2>2. QED BY <1>1, <2>1 DEF IInv, Concluded
<1>9. Answered'
  BY <1>1 DEF IInv, Answered
<1>10. QED BY <1>4, <1>5, <1>6, <1>7, <1>8, <1>9 DEF IInv

\* What the run of the worker is judged to be is one of its possible answers.
LEMMA NormalizeType ==
  ASSUME TypeOK, raw # "none"
  PROVE  Normalize \in WorkerAnswers
BY DEF TypeOK, Normalize, WorkerAnswers, Failures

LEMMA CleanupIInv ==
  ASSUME IInv, Cleanup \/ CleanupFails
  PROVE  IInv'
<1>1. /\ UNCHANGED <<script, process, code, ends, got, put, pipe, late, registered, ready,
                      offset, buffer, over, raw, error>>
      /\ pc = "cleanup" /\ pc' = "done"
      /\ answer' = "staging_failed" \/ answer' = IF error # "none" THEN error ELSE Normalize
  BY DEF Cleanup, CleanupFails, worker, loop
<1>2. answer = "none" /\ (raw # "none" \/ error # "none")
  BY <1>1 DEF IInv, Answered, Phases, Over, HarnessErrors
<1>3. /\ answer' \in WorkerAnswers \cup HarnessErrors
      /\ error # "none" => answer' \in HarnessErrors
  <2>1. raw # "none" => Normalize \in WorkerAnswers
    BY NormalizeType DEF IInv
  <2>2. error # "none" => error \in HarnessErrors
    BY DEF IInv, TypeOK
  <2>3. "staging_failed" \in HarnessErrors
    BY DEF HarnessErrors
  <2>4. QED BY <1>1, <1>2, <2>1, <2>2, <2>3
<1>4. TypeOK'
  BY <1>1, <1>3 DEF IInv, TypeOK
<1>5. Phases'
  BY <1>1, <1>2, <1>3 DEF IInv, Phases, Exchanging, Over
<1>6. Bytes'
  BY <1>1, BytesKept
<1>7. Drained' /\ Concluded'
  BY <1>1 DEF IInv, Drained, Exchanging, Concluded, Open
<1>8. Answered'
  <2>1. Normalize' = Normalize
    BY <1>1 DEF Normalize
  <2>2. "none" \notin WorkerAnswers \cup HarnessErrors
    BY DEF WorkerAnswers, Failures, HarnessErrors
  <2>3. QED BY <1>1, <1>3, <2>1, <2>2 DEF Answered
<1>9. QED BY <1>4, <1>5, <1>6, <1>7, <1>8 DEF IInv

LEMMA NextIInv == IInv /\ [Next]_vars => IInv'
<1> SUFFICES ASSUME IInv, [Next]_vars PROVE IInv'
  OBVIOUS
<1>1. CASE Worker
  BY <1>1, WorkerIInv
<1>2. CASE StagingFails \/ SpawnFails \/ Spawn
  BY <1>2, StartIInv
<1>3. CASE Continue \/ WaitExpires \/ Tick \/ Done \/ UNCHANGED vars
  BY <1>3, ControlIInv DEF Done
<1>4. CASE LimitHit \/ DeadlineHit \/ PipeFails
  BY <1>4, SignalIInv
<1>5. CASE Completed
  BY <1>5, CompletedIInv
<1>6. CASE Select
  BY <1>6, SelectIInv
<1>7. ASSUME NEW s \in Streams, Handle(s) PROVE IInv'
  BY <1>7, WriteRequestIInv, ReadOutputIInv DEF Streams
<1>8. CASE Reaps \/ ReapExpires
  BY <1>8, ReapIInv
<1>9. CASE Cleanup \/ CleanupFails
  BY <1>9, CleanupIInv
<1>10. QED BY <1>1, <1>2, <1>3, <1>4, <1>5, <1>6, <1>7, <1>8, <1>9 DEF Next, Parent, Faults

\* Without fairness, so that it holds of both specifications.
LEMMA SafetyInvariant == Init /\ [][Next]_vars => []IInv
<1>1. QED BY InitIInv, NextIInv, PTL

THEOREM WorkerInvariant == Spec => []IInv
<1>1. QED BY SafetyInvariant, PTL DEF Spec

-----------------------------------------------------------------------------
(* The theorems. *)

\* In every interleaving no pipe holds more than it can, no buffer outgrows its limit, and
\* nothing is reported ready that is not registered.
THEOREM WorkerTypeOK == Spec => []TypeOK
<1>1. IInv => TypeOK
  BY DEF IInv
<1>2. QED BY <1>1, WorkerInvariant, PTL

\* An answer about the participant that is neither a time-out nor an output bound was
\* concluded from its own exit and from every byte it ever wrote.
LEMMA ConcludedFromAll ==
  ASSUME IInv, answer \in {"claimed", "nonzero_exit", "empty_output", "invalid_claim"}
  PROVE  /\ answer = Normalize /\ raw = "exited" /\ code \in {"zero", "nonzero"}
         /\ \A s \in Outputs : /\ buffer[s] = put[s] /\ buffer[s] <= Limit[s] /\ Open(s) = {}
                               /\ put[s] \in Nat
<1>1. answer = Normalize /\ pc = "done" /\ error = "none"
  BY DEF IInv, Answered, TypeOK, HarnessErrors
<1>2. raw # "none"
  BY <1>1 DEF IInv, Phases, Over, HarnessErrors
<1>3. \A s \in Outputs : buffer[s] \in 0 .. Limit[s] /\ Limit[s] \in Nat /\ put[s] \in Nat
  BY WorkerAssumption DEF IInv, TypeOK, Outputs
<1>4. raw = "exited"
  BY <1>1, <1>2, <1>3 DEF Normalize, IInv, TypeOK
<1>5. \A s \in Outputs : pipe[s] = 0 /\ Open(s) = {} /\ buffer[s] + pipe[s] = put[s]
  BY <1>4 DEF IInv, Concluded, Bytes
<1>6. QED BY <1>1, <1>3, <1>4, <1>5 DEF IInv, Concluded

\* A claim is accepted only when it is everything the worker wrote, nothing was over a limit,
\* nobody can write any more and the child ended by itself with status 0.
THEOREM WorkerClaimIsWhole == Spec => []ClaimIsWhole
<1>1. IInv => ClaimIsWhole
  <2>1. SUFFICES ASSUME IInv, answer = "claimed" PROVE ClaimIsWhole
    BY DEF ClaimIsWhole
  <2>2. /\ answer = Normalize /\ raw = "exited"
        /\ \A s \in Outputs : buffer[s] = put[s] /\ buffer[s] <= Limit[s] /\ Open(s) = {}
    BY <2>1, ConcludedFromAll
  <2>3. script.claim /\ buffer.stdout = ClaimSize /\ code = "zero"
    BY <2>1, <2>2 DEF Normalize
  <2>4. QED BY <2>2, <2>3 DEF ClaimIsWhole, Outputs
<1>2. QED BY <1>1, WorkerInvariant, PTL

\* Every failure of a participant is its own: a time-out is a deadline that passed within the
\* limits, an output failure an output over its limit, an exit failure its own exit status.
THEOREM WorkerBlameIsEarned == Spec => []BlameIsEarned
<1>1. IInv => BlameIsEarned
  <2> SUFFICES ASSUME IInv PROVE BlameIsEarned
    OBVIOUS
  <2>2. \A s \in Outputs : buffer[s] \in 0 .. Limit[s] /\ Limit[s] \in Nat
    BY WorkerAssumption DEF IInv, TypeOK, Outputs
  <2>3. answer \in {"timed_out", "output_limit_exceeded"} => answer = Normalize
    BY DEF IInv, Answered, TypeOK, HarnessErrors
  <2>4. answer \in {"timed_out", "output_limit_exceeded"} => raw = answer
    BY <2>2, <2>3 DEF Normalize
  <2>5. answer = "timed_out" => late /\ ~ over
    BY <2>4 DEF IInv, Concluded
  <2>6. answer = "output_limit_exceeded" => \E s \in Outputs : put[s] > Limit[s]
    BY <2>4 DEF IInv, Concluded, Bytes
  <2>7. answer = "nonzero_exit" => code = "nonzero"
    <3>1. ASSUME answer = "nonzero_exit" PROVE code # "zero"
      BY <3>1, ConcludedFromAll DEF Normalize
    <3>2. QED BY <3>1, ConcludedFromAll
  <2>8. answer = "empty_output" => code = "zero" /\ put.stdout = 0
    <3>1. ASSUME answer = "empty_output" PROVE code = "zero" /\ buffer.stdout = 0
      BY <3>1, ConcludedFromAll DEF Normalize
    <3>2. QED BY <3>1, ConcludedFromAll DEF Outputs
  <2>9. answer = "invalid_claim" =>
          code = "zero" /\ put.stdout > 0 /\ ~ (script.claim /\ put.stdout = ClaimSize)
    <3>1. ASSUME answer = "invalid_claim"
          PROVE  code = "zero" /\ buffer.stdout # 0 /\ ~ (script.claim /\ buffer.stdout = ClaimSize)
      BY <3>1, ConcludedFromAll DEF Normalize
    <3>2. QED BY <3>1, ConcludedFromAll DEF Outputs
  <2>10. QED BY <2>5, <2>6, <2>7, <2>8, <2>9 DEF BlameIsEarned
<1>2. QED BY <1>1, WorkerInvariant, PTL

\* However an invocation ends, nothing of its process group runs on, the parent holds no
\* pipe, and the child is reaped unless that failed and was reported.
THEOREM WorkerNothingLeftBehind == Spec => []NothingLeftBehind
<1>1. IInv => NothingLeftBehind
  BY DEF IInv, Phases, Over, NothingLeftBehind
<1>2. QED BY <1>1, WorkerInvariant, PTL

-----------------------------------------------------------------------------
(* The invocation implements the contract: each step is one of its steps or  *)
(* leaves its two variables alone.                                           *)

\* Steps without an answer: a group that runs may end, one that ended stays so.
LEMMA GroupStep ==
  ASSUME IInv, UNCHANGED answer, process.child # "none", process'.child # "none",
         process'.child = "running" => process.child = "running",
         process'.helper = "running" => process.helper = "running" \/ process.child = "running"
  PROVE  [Contract!Next]_Contract!vars
BY DEF Contract!Next, Contract!Empty, Contract!vars

LEMMA StepImplements == IInv /\ [Next]_vars => [Contract!Next]_Contract!vars
<1> SUFFICES ASSUME IInv, [Next]_vars PROVE [Contract!Next]_Contract!vars
  OBVIOUS
<1>1. CASE Spawn
  <2>1. /\ process.child = "none" /\ answer = "none" /\ answer' = answer
        /\ process'.child = "running"
    BY <1>1 DEF Spawn, IInv, TypeOK, Phases, Answered
  <2>2. Contract!Start
    BY <2>1 DEF Contract!Start
  <2>3. QED BY <2>2 DEF Contract!Next
<1>2. CASE Cleanup \/ CleanupFails \/ StagingFails
  <2>1. answer = "none" /\ process' = process
    BY <1>2 DEF Cleanup, CleanupFails, StagingFails, IInv, Answered, worker
  <2>2. process.child = "none" => answer' \in HarnessErrors
    BY <1>2, <2>1 DEF Cleanup, CleanupFails, StagingFails, IInv, Phases, TypeOK, HarnessErrors
  <2>3. process.child # "none" =>
          /\ process.child # "running" /\ process.helper # "running"
          /\ answer' \in WorkerAnswers \cup HarnessErrors
    <3>1. SUFFICES ASSUME process.child # "none"
                   PROVE  /\ process.child # "running" /\ process.helper # "running"
                          /\ answer' \in WorkerAnswers \cup HarnessErrors
      OBVIOUS
    <3>2. pc = "cleanup" /\ (raw # "none" \/ error # "none")
      BY <1>2, <2>1, <3>1 DEF Cleanup, CleanupFails, StagingFails, IInv, Phases, Over, HarnessErrors
    <3>3. QED BY <1>2, <3>2, NormalizeType
              DEF Cleanup, CleanupFails, StagingFails, IInv, Phases, Over, TypeOK, HarnessErrors
  <2>4. \E a \in WorkerAnswers \cup HarnessErrors : Contract!Answer(a)
    <3>1. CASE process.child = "none"
      BY <2>1, <2>2, <3>1 DEF Contract!Answer
    <3>2. CASE process.child # "none"
      BY <2>1, <2>3, <3>2 DEF Contract!Answer
    <3>3. QED BY <3>1, <3>2
  <2>5. QED BY <2>4 DEF Contract!Next
<1>3. CASE UNCHANGED <<process, answer>>
  BY <1>3 DEF Contract!vars
<1>4. CASE Worker
  <2>1. /\ UNCHANGED answer /\ process.child # "none" /\ process'.child # "none"
        /\ process'.child = "running" => process.child = "running"
        /\ process'.helper = "running" => process.helper = "running" \/ process.child = "running"
    BY <1>4 DEF Worker, ChildWorks, HelperWorks, Reads, Writes, Exits, Crashes, Ends, HelperExits,
       ClosesOutputs, Forks, Dies, Alive, Processes, IInv, TypeOK, Phases
  <2>2. QED BY <2>1, GroupStep
<1>5. CASE LimitHit \/ DeadlineHit \/ PipeFails \/ Completed
  <2>1. /\ UNCHANGED answer /\ process.child # "none" /\ process'.child # "none"
        /\ process'.child = "running" => process.child = "running"
        /\ process'.helper = "running" => process.helper = "running" \/ process.child = "running"
    BY <1>5 DEF LimitHit, DeadlineHit, PipeFails, Completed, Terminate, SignalGroup, Signalled,
       IInv, TypeOK, Phases, Over
  <2>2. QED BY <2>1, GroupStep
<1>6. CASE Reaps
  <2>1. /\ UNCHANGED answer /\ process.child = "zombie" /\ process'.child = "reaped"
        /\ process'.helper = process.helper
    BY <1>6 DEF Reaps, IInv, TypeOK
  <2>2. QED BY <2>1, GroupStep
<1>7. CASE \/ SpawnFails \/ Continue \/ WaitExpires \/ Tick \/ Done \/ Select \/ ReapExpires
           \/ (\E s \in Streams : Handle(s)) \/ UNCHANGED vars
  BY <1>3, <1>7 DEF SpawnFails, Continue, WaitExpires, Tick, Done, Select, ReapExpires, Handle, vars, worker
<1>8. QED BY <1>1, <1>2, <1>4, <1>5, <1>6, <1>7 DEF Next, Parent, Faults

\* Whatever happens on the pipes, the invocation gives exactly one answer, which never
\* changes, about the participant only once its group has ended; and the group never runs
\* again.  (That an answer comes at all is the fairness part of Implements.)
THEOREM WorkerImplementsContract == Spec => Contract!Init /\ [][Contract!Next]_Contract!vars
<1>1. Init => Contract!Init
  BY DEF Init, Contract!Init
<1>2. QED BY <1>1, WorkerInvariant, StepImplements, PTL DEF Spec
=============================================================================
