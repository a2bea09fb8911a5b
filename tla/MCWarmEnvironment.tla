------------------------- MODULE MCWarmEnvironment -------------------------
(* Instances of WarmEnvironment for TLC. *)
EXTENDS WarmEnvironment, TLC

CONSTANTS a1, a2, a3, e1, e2

\* Two attempts follow each other in one environment, a third has its own.
TwoEnvironments == (a1 :> e1) @@ (a2 :> e1) @@ (a3 :> e2)
====
