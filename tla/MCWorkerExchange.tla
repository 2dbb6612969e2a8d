-------------------------- MODULE MCWorkerExchange --------------------------
(* A request of two bytes, pipes of two, chunks of two, claims of two bytes *)
(* under a limit of two, so that one chunk can straddle the limit and a     *)
(* truncated output can look like a claim.                                  *)
EXTENDS WorkerExchange

MCLimit == [stdout |-> 2, stderr |-> 1]

Script(out, err, isClaim, reading, status) ==
  [stdout |-> out, stderr |-> err, claim |-> isClaim, reads |-> reading, code |-> status]

MCScripts ==
  { Script(2, 1, TRUE, "first", "zero"),  \* well-behaved, reads before it writes
    Script(2, 1, TRUE, "last", "zero"),   \* well-behaved, writes before it reads
    Script(2, 0, TRUE, "any", "zero"),    \* well-behaved, reads and writes in any order
    Script(2, 0, TRUE, "never", "zero"),  \* answers without reading
    Script(3, 0, TRUE, "last", "zero"),   \* one byte after its claim
    Script(2, 2, TRUE, "never", "zero"),  \* a claim, and too much on stderr
    Script(1, 0, TRUE, "first", "zero"),  \* half a claim
    Script(0, 1, FALSE, "never", "zero"), \* nothing
    Script(2, 0, FALSE, "any", "zero"),   \* garbage
    Script(2, 0, TRUE, "never", "nonzero") }
=============================================================================
