--------------------------- MODULE MCProcessPids ---------------------------
(* Small instances of Process and of GetPid for TLC, one or the other in a behaviour:
   the slots of Process stand for the pids that GetPid hands out. *)
EXTENDS Process, GetPid

CONSTANTS p1, p2, p3

VARIABLE part   \* which of the two this behaviour is about

\* The slots besides idle and init are interchangeable.
Symmetry == Permutations(Proc \ {idle, init})

BothInit == Init /\ PidInit /\ part \in {"processes", "pids"}

BothNext ==
  /\ UNCHANGED part
  /\ \/ part = "processes" /\ Next /\ UNCHANGED pidVars
     \/ part = "pids" /\ PidNext /\ UNCHANGED vars

BothSpec == BothInit /\ [][BothNext]_<<vars, pidVars, part>>
=============================================================================
