-------------------------- MODULE MCRunnerAttempts --------------------------
(***************************************************************************)
(* Instances of RunnerAttempts for TLC.  The attempts are a1 and a2; they   *)
(* belong to one task (a2 is the later epoch) or to two tasks.              *)
(***************************************************************************)
EXTENDS RunnerAttempts

CONSTANTS a1, a2

OneTask      == [a \in Attempts |-> 1]
TwoTasks     == [a \in Attempts |-> IF a = a1 THEN 1 ELSE 2]
Successive   == [a \in Attempts |-> IF a = a1 THEN 1 ELSE 2]
FirstEpoch   == [a \in Attempts |-> 1]

=============================================================================
