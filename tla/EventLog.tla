------------------------------- MODULE EventLog -------------------------------
(***************************************************************************)
(* What the event journal promises: every attempt has one log of events     *)
(* with consecutive cursors, which only ever grows at its end or is removed *)
(* as a whole together with its attempt.  Crashes, failed writes, cache     *)
(* eviction and restarts do not show.                                       *)
(***************************************************************************)
EXTENDS Naturals, Sequences, SequencesExt

CONSTANT Attempts

VARIABLE log

Consecutive(s) == \A i \in 1..(Len(s) - 1) : s[i + 1].cur = s[i].cur + 1

Init == log = [a \in Attempts |-> <<>>]

\* One save commits what several attempts have appended since the last one.
Next ==
    /\ DOMAIN log' = Attempts
    /\ \A a \in Attempts :
          /\ IsPrefix(log[a], log'[a]) \/ log'[a] = <<>>
          /\ Consecutive(log'[a])

Spec == Init /\ [][Next]_log

===============================================================================
