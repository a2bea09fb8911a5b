--------------------------- MODULE MCHarnessPlane ---------------------------
(* Instances of HarnessPlane for TLC. *)
EXTENDS HarnessPlane, TLC

Both   == {"claude", "codex"}
WithLimits == {"claude"}
Strict == [on |-> Both, lim |-> 0]
Bypass == [on |-> Both, lim |-> 1]
Single == [on |-> {"claude"}, lim |-> 0]
ThreeSettings == {Strict, Bypass, Single}
=============================================================================
