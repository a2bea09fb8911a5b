----------------------------- MODULE OneTimeStore -----------------------------
(***************************************************************************)
(* What the hub's shared store promises the handlers built on it: a record *)
(* is in the hands of at most one caller, the one that removed it from the *)
(* store, and is granted at most once.  A record may also vanish without   *)
(* being granted: it expired, it was revoked or replaced, or the caller    *)
(* that removed it did not use it.                                         *)
(***************************************************************************)
CONSTANTS Keys, Callers, Entries, Absent

VARIABLES store, held, granted

Init ==
  /\ store = [k \in Keys |-> Absent]
  /\ held = [c \in Callers |-> {}]
  /\ granted = {}

\* A record that was never taken is stored under k.
Put(k) ==
  /\ store'[k] \in Entries \ {Absent}
  /\ <<k, store'[k]>> \notin granted \cup UNION {held[c] : c \in Callers}
  /\ store' = [store EXCEPT ![k] = store'[k]]
  /\ UNCHANGED <<held, granted>>

\* The record under k moves into the hands of c.
Take(c, k) ==
  /\ store[k] # Absent
  /\ held[c] = {}
  /\ held' = [held EXCEPT ![c] = {<<k, store[k]>>}]
  /\ store' = [store EXCEPT ![k] = Absent]
  /\ UNCHANGED granted

\* The record under k is gone, and nobody has it.
Lose(k) ==
  /\ store[k] # Absent
  /\ store' = [store EXCEPT ![k] = Absent]
  /\ UNCHANGED <<held, granted>>

\* c answers with the record it holds, or drops it.
Grant(c) ==
  /\ held[c] # {}
  /\ held[c] \cap granted = {}
  /\ granted' = granted \cup held[c]
  /\ held' = [held EXCEPT ![c] = {}]
  /\ UNCHANGED store

Discard(c) ==
  /\ held[c] # {}
  /\ held' = [held EXCEPT ![c] = {}]
  /\ UNCHANGED <<store, granted>>

Next ==
  \/ \E k \in Keys : Put(k) \/ Lose(k)
  \/ \E c \in Callers : Grant(c) \/ Discard(c) \/ \E k \in Keys : Take(c, k)

Spec == Init /\ [][Next]_<<store, held, granted>>
=============================================================================
