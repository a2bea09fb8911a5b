--------------------------- MODULE HubStore_proofs ---------------------------
(***************************************************************************)
(* Proofs about the hub's shared store, for any number of handlers,        *)
(* sweepers, keys, writes and failed calls, and any clocks within the      *)
(* skew that actionproof allows.                                           *)
(***************************************************************************)
EXTENDS HubStore, FiniteSetTheorems, TLAPS

-----------------------------------------------------------------------------
(* The inductive invariant                                                 *)

\* The requests that may write a Secret.
Writers == {"mint", "issue", "prove"}

\* Where a request of each kind may stand, and the collection its key is in.
Placed(r) ==
  /\ r.op = "none" <=> r.pc = "idle"
  /\ r.op = "mint" => r.pc \in {"create", "update"} /\ r.key \in Codes
  /\ r.op = "issue" => r.pc \in {"peek", "reap", "create", "update"} /\ r.key \in Sessions
  /\ r.op = "resolve" => r.pc \in {"peek", "reap"} /\ r.key \in Sessions
  /\ r.op = "logout" => r.pc = "remove" /\ r.key \in Sessions
  /\ r.op = "exchange" => r.pc \in {"get", "delete", "taken"} /\ r.key \in Codes
  /\ r.op = "identity" =>
       r.pc \in {"peek", "reap", "checks", "get", "delete", "taken"} /\ r.key \in Codes
  /\ r.op = "prove" => r.pc \in {"admit", "create"} /\ r.key \in Proofs
  /\ r.op = "sweep" => r.pc \in {"next", "drop"}

\* What a request carries is what its step needs: a Secret that was read where
\* one is to be deleted or answered with, one that has expired where it is
\* reaped, and the expiry where one is to be written.
Carries(c, r) ==
  /\ r \in Request
  /\ r.seen # Absent <=> r.pc \in {"reap", "delete", "taken", "drop"}
  /\ r.pc \in {"reap", "drop"} => Expired(c, r.seen)
  /\ \A i \in r.list : i[2] # Absent
  /\ r.exp =< MaxTime + TTL + Skew
  /\ r.pc = "create" /\ r.op = "prove" => r.exp = AcceptedUntil

\* A proof under way was verified before it expired, and not long ago.
Prompt(c, r) ==
  r.op = "prove" => r.at + Ahead[c] < ProofExpiry /\ now =< r.at + MaxHold

Sound(c, r) ==
  /\ Placed(r) /\ Carries(c, r) /\ Prompt(c, r)
  /\ IF c \in Handlers THEN r.op # "sweep" ELSE r.op \in {"none", "sweep"}

RequestsOK == DOMAIN req = Callers /\ \A c \in Callers : Sound(c, req[c])

\* A stored version was written, the claim of a proof lasts as long as the proof is
\* accepted, and a proof whose claim is gone is accepted by no replica.
StoreOK ==
  /\ used \in {Codes, Sessions, Proofs}
  /\ now \in 0..MaxTime /\ faults \in 0..MaxFaults
  /\ api \in [Keys -> Entries]
  /\ writes \in [Keys -> Nat]
  /\ \A k \in Keys : api[k].ver =< writes[k]
  /\ \A k \in Keys : api[k] # Absent => api[k].ver > 0

ClaimsOK ==
  /\ claims \in [Proofs -> 0..1]
  /\ \A k \in Proofs : claims[k] =< writes[k]
  /\ \A k \in Proofs : api[k] # Absent => api[k].exp = AcceptedUntil
  /\ \A k \in Proofs :
       claims[k] = 1 => api[k] # Absent \/ \E c \in Callers : AcceptedUntil =< Clock(c)

\* The requests under way that may still write k.
Busy(k) == {c \in Handlers : req[c].key = k /\ req[c].op \in Writers}

RoomKept == \A k \in Keys : writes[k] + Cardinality(Busy(k)) =< MaxWrites

\* A record somebody answered with, or is about to, was written, is no longer in
\* the store, and no other caller holds it.
TakenOK ==
  /\ granted \subseteq Keys \X Entries
  /\ \A g \in granted : g[2] # Absent /\ g[2].ver =< writes[g[1]] /\ g[2] # api[g[1]]
  /\ \A c \in Callers : req[c].pc = "taken" =>
       /\ req[c].seen.ver =< writes[req[c].key]
       /\ req[c].seen # api[req[c].key]
       /\ <<req[c].key, req[c].seen>> \notin granted
  /\ \A c, d \in Callers :
       req[c].pc = "taken" /\ req[d].pc = "taken" /\ c # d =>
         <<req[c].key, req[c].seen>> # <<req[d].key, req[d].seen>>

\* The inductive invariant.
HubInv == RequestsOK /\ StoreOK /\ ClaimsOK /\ RoomKept /\ TakenOK

-----------------------------------------------------------------------------
(* Requests                                                                *)

\* The request of a caller that does nothing, and the type of a Secret's fields.
LEMMA IdleSound ==
    /\ Absent \in Entries
    /\ Idle.key \in Keys
    /\ Idle \in Request
    /\ \A c \in Callers : Sound(c, Idle)
<1>1. Absent \in Entries
  BY HubAssumption DEF Absent, Entries
<1>2. Idle.key \in Keys
  BY HubAssumption DEF Idle
<1>3. Idle \in Request
  BY <1>1, <1>2, HubAssumption DEF Idle, Request, Ops, Steps
<1>4. \A c \in Callers : Sound(c, Idle)
  BY <1>3, HubAssumption DEF Idle, Sound, Placed, Carries, Prompt, Callers
<1> QED BY <1>1, <1>2, <1>3, <1>4

\* What one step of a caller leaves of its request: it ends, or it goes on with
\* the same operation, on the same key unless it is a sweep.
Onward(c, r) ==
  /\ req' = [req EXCEPT ![c] = r]
  /\ Sound(c, r)
  /\ r = Idle \/ (r.op = req[c].op /\ (r.key = req[c].key \/ r.op = "sweep"))

\* The rest of Get after ErrNotFound: Issue goes on to store, the others end.
LEMMA NotFoundOnward ==
    ASSUME HubInv, NEW c \in Callers, req[c].pc \in {"peek", "reap"}, NotFound(c)
    PROVE  \E r : Onward(c, r) /\ r.pc # "taken"
<1> DEFINE s == [req[c] EXCEPT !.pc = "create", !.seen = Absent]
<1>1. Sound(c, req[c])
  BY DEF HubInv, RequestsOK
<1>2. CASE req[c].op = "issue"
  <2>1. s \in Request
    BY <1>1, IdleSound DEF Sound, Carries, Request, Steps
  <2>2. Sound(c, s) /\ s.pc # "taken"
    BY <1>1, <1>2, <2>1 DEF Sound, Placed, Carries, Prompt, Request
  <2>3. s.op = req[c].op /\ s.key = req[c].key
    BY <1>1 DEF Sound, Carries, Request
  <2> QED BY <1>2, <2>2, <2>3 DEF NotFound, Goes, Onward
<1>3. CASE req[c].op # "issue"
  BY <1>3, IdleSound DEF NotFound, Goes, Ends, Onward, Idle
<1> QED BY <1>2, <1>3

\* What a step of a caller does to its request, and that it writes a Secret only
\* as the last thing it does.
StepShape(c) ==
  \E r :
    /\ Onward(c, r)
    /\ (UNCHANGED <<api, writes>>) \/ (Applied(req[c]) /\ (Writes(req[c]) => r = Idle))

\* Get, Reap and the checks of an identity exchange.
LEMMA GetShape ==
    ASSUME HubInv, NEW c \in Callers, Get(c) \/ Reap(c) \/ Checks(c)
    PROVE  StepShape(c)
<1> DEFINE e == api[req[c].key]
<1>1. Sound(c, req[c]) /\ req[c] \in Request
  BY DEF HubInv, RequestsOK, Sound, Carries
<1>2. e \in Entries
  BY <1>1 DEF HubInv, StoreOK, Request
<1>3. CASE Get(c)
  <2>1. req[c].pc = "peek" /\ Applied(req[c]) /\ ~Writes(req[c])
    BY <1>3 DEF Get, Call, Writes
  <2>2. CASE e = Absent /\ NotFound(c)
    BY <2>1, <2>2, NotFoundOnward DEF StepShape
  <2>3. CASE e # Absent /\ Expired(c, e) /\ Goes(c, [req[c] EXCEPT !.pc = "reap", !.seen = e])
    <3> DEFINE s == [req[c] EXCEPT !.pc = "reap", !.seen = e]
    <3>1. s \in Request /\ s.op = req[c].op /\ s.key = req[c].key /\ s.seen = e /\ s.pc = "reap"
      BY <1>1, <1>2 DEF Request, Steps
    <3>2. Sound(c, s)
      BY <1>1, <2>1, <2>3, <3>1 DEF Sound, Placed, Carries, Prompt, Request
    <3> QED BY <2>1, <2>3, <3>1, <3>2 DEF StepShape, Onward, Goes
  <2>4. CASE req[c].op = "identity" /\ Goes(c, [req[c] EXCEPT !.pc = "checks", !.base = e])
    <3> DEFINE s == [req[c] EXCEPT !.pc = "checks", !.base = e]
    <3>1. s \in Request /\ s.op = req[c].op /\ s.key = req[c].key /\ s.pc = "checks"
      BY <1>1, <1>2 DEF Request, Steps
    <3>2. Sound(c, s)
      BY <1>1, <2>1, <2>4, <3>1 DEF Sound, Placed, Carries, Prompt, Request
    <3> QED BY <2>1, <2>4, <3>1, <3>2 DEF StepShape, Onward, Goes
  <2>5. CASE Ends(c)
    BY <2>1, <2>5, IdleSound DEF StepShape, Onward, Ends, Goes
  <2> QED BY <1>3, <2>2, <2>3, <2>4, <2>5 DEF Get
<1>4. CASE Reap(c)
  <2>1. req[c].pc = "reap" /\ Applied(req[c]) /\ ~Writes(req[c]) /\ NotFound(c)
    BY <1>4 DEF Reap, Call, Writes
  <2> QED BY <2>1, NotFoundOnward DEF StepShape
<1>5. CASE Checks(c)
  <2>1. req[c].pc = "checks" /\ UNCHANGED <<api, writes>>
    BY <1>5 DEF Checks
  <2>2. CASE Ends(c)
    BY <2>1, <2>2, IdleSound DEF StepShape, Onward, Ends, Goes
  <2>3. ASSUME NEW ok \in BOOLEAN, Goes(c, [req[c] EXCEPT !.pc = "get", !.ok = ok])
        PROVE  StepShape(c)
    <3> DEFINE s == [req[c] EXCEPT !.pc = "get", !.ok = ok]
    <3>1. s \in Request /\ s.op = req[c].op /\ s.key = req[c].key /\ s.pc = "get"
      BY <1>1 DEF Request, Steps
    <3>2. Sound(c, s)
      BY <1>1, <2>1, <2>3, <3>1 DEF Sound, Placed, Carries, Prompt, Request
    <3> QED BY <2>1, <2>3, <3>1, <3>2 DEF StepShape, Onward, Goes
  <2> QED BY <1>5, <2>2, <2>3 DEF Checks
<1> QED BY <1>3, <1>4, <1>5

\* Take and what answers with its record.
LEMMA TakeShape ==
    ASSUME HubInv, NEW c \in Callers, TakeReads(c) \/ TakeDeletes(c) \/ Answer(c)
    PROVE  StepShape(c)
<1> DEFINE e == api[req[c].key]
<1>1. Sound(c, req[c]) /\ req[c] \in Request
  BY DEF HubInv, RequestsOK, Sound, Carries
<1>2. e \in Entries
  BY <1>1 DEF HubInv, StoreOK, Request
<1>3. CASE TakeReads(c)
  <2>1. req[c].pc = "get" /\ Applied(req[c]) /\ ~Writes(req[c])
    BY <1>3 DEF TakeReads, Call, Writes
  <2>2. CASE Ends(c)
    BY <2>1, <2>2, IdleSound DEF StepShape, Onward, Ends, Goes
  <2>3. CASE e # Absent /\ Goes(c, [req[c] EXCEPT !.pc = "delete", !.seen = e])
    <3> DEFINE s == [req[c] EXCEPT !.pc = "delete", !.seen = e]
    <3>1. s \in Request /\ s.op = req[c].op /\ s.key = req[c].key /\ s.seen = e /\ s.pc = "delete"
      BY <1>1, <1>2 DEF Request, Steps
    <3>2. Sound(c, s)
      BY <1>1, <2>1, <2>3, <3>1 DEF Sound, Placed, Carries, Prompt, Request
    <3> QED BY <2>1, <2>3, <3>1, <3>2 DEF StepShape, Onward, Goes
  <2> QED BY <1>3, <2>2, <2>3 DEF TakeReads
<1>4. CASE TakeDeletes(c)
  <2>1. req[c].pc = "delete" /\ Applied(req[c]) /\ ~Writes(req[c])
    BY <1>4 DEF TakeDeletes, Call, Writes
  <2>2. CASE Ends(c)
    BY <2>1, <2>2, IdleSound DEF StepShape, Onward, Ends, Goes
  <2>3. CASE Goes(c, [req[c] EXCEPT !.pc = "taken"])
    <3> DEFINE s == [req[c] EXCEPT !.pc = "taken"]
    <3>1. s \in Request /\ s.op = req[c].op /\ s.key = req[c].key /\ s.pc = "taken"
      BY <1>1 DEF Request, Steps
    <3>2. Sound(c, s)
      BY <1>1, <2>1, <3>1 DEF Sound, Placed, Carries, Prompt, Request
    <3> QED BY <2>1, <2>3, <3>1, <3>2 DEF StepShape, Onward, Goes
  <2> QED BY <1>4, <2>2, <2>3 DEF TakeDeletes
<1>5. CASE Answer(c)
  BY <1>5, IdleSound DEF Answer, StepShape, Onward, Ends, Goes
<1> QED BY <1>3, <1>4, <1>5

\* Put, CreateIfAbsent and Delete.
LEMMA WriteShape ==
    ASSUME HubInv, NEW c \in Callers, Admit(c) \/ Create(c) \/ Update(c) \/ Delete(c)
    PROVE  StepShape(c)
<1>1. Sound(c, req[c]) /\ req[c] \in Request
  BY DEF HubInv, RequestsOK, Sound, Carries
<1>2. CASE Admit(c)
  <2>1. req[c].pc = "admit" /\ UNCHANGED <<api, writes>>
    BY <1>2 DEF Admit
  <2>2. CASE Ends(c)
    BY <2>1, <2>2, IdleSound DEF StepShape, Onward, Ends, Goes
  <2>3. CASE Goes(c, [req[c] EXCEPT !.pc = "create", !.exp = AcceptedUntil])
    <3> DEFINE s == [req[c] EXCEPT !.pc = "create", !.exp = AcceptedUntil]
    <3>0. AcceptedUntil \in Nat /\ AcceptedUntil =< MaxTime + TTL + Skew
      BY HubAssumption DEF AcceptedUntil, ProofExpiry
    <3>1. /\ s \in Request /\ s.op = req[c].op /\ s.key = req[c].key /\ s.pc = "create"
          /\ s.exp = AcceptedUntil
      BY <1>1, <3>0 DEF Request, Steps
    <3>2. Sound(c, s)
      BY <1>1, <2>1, <3>0, <3>1 DEF Sound, Placed, Carries, Prompt, Request
    <3> QED BY <2>1, <2>3, <3>1, <3>2 DEF StepShape, Onward, Goes
  <2> QED BY <1>2, <2>2, <2>3 DEF Admit
<1>3. CASE Create(c)
  <2>1. req[c].pc = "create" /\ Applied(req[c])
    BY <1>3 DEF Create, Call
  <2>2. CASE Ends(c)
    BY <2>1, <2>2, IdleSound DEF StepShape, Onward, Ends, Goes
  <2>3. CASE /\ ~Writes(req[c]) /\ req[c].op # "prove"
             /\ Goes(c, [req[c] EXCEPT !.pc = "update"])
    <3> DEFINE s == [req[c] EXCEPT !.pc = "update"]
    <3>1. s \in Request /\ s.op = req[c].op /\ s.key = req[c].key /\ s.pc = "update"
      BY <1>1 DEF Request, Steps
    <3>2. Sound(c, s)
      BY <1>1, <2>1, <2>3, <3>1 DEF Sound, Placed, Carries, Prompt, Request
    <3> QED BY <2>1, <2>3, <3>1, <3>2 DEF StepShape, Onward, Goes
  <2> QED BY <1>3, <2>2, <2>3 DEF Create
<1>4. CASE Update(c) \/ Delete(c)
  BY <1>4, IdleSound DEF Update, Delete, Call, StepShape, Onward, Ends, Goes
<1> QED BY <1>2, <1>3, <1>4

\* The sweep goes from one listed Secret to the next.
LEMMA SweepShape ==
    ASSUME HubInv, NEW c \in Callers, SweepNext(c) \/ SweepDeletes(c)
    PROVE  StepShape(c)
<1>1. Sound(c, req[c]) /\ req[c] \in Request
  BY DEF HubInv, RequestsOK, Sound, Carries
<1>2. CASE SweepNext(c)
  <2>1. req[c].pc = "next" /\ UNCHANGED <<api, writes>>
    BY <1>2 DEF SweepNext
  <2>2. CASE Ends(c)
    BY <2>1, <2>2, IdleSound DEF StepShape, Onward, Ends, Goes
  <2>3. ASSUME NEW i \in req[c].list,
               Goes(c, [req[c] EXCEPT !.list = @ \ {i}])
        PROVE  StepShape(c)
    <3> DEFINE s == [req[c] EXCEPT !.list = @ \ {i}]
    <3>1. /\ s \in Request /\ s.op = req[c].op /\ s.key = req[c].key /\ s.pc = "next"
          /\ s.list \subseteq req[c].list /\ s.seen = req[c].seen /\ s.exp = req[c].exp
          /\ s.at = req[c].at
      BY <1>1, <2>1 DEF Request
    <3>2. Sound(c, s)
      BY <1>1, <2>1, <3>1 DEF Sound, Placed, Carries, Prompt
    <3> QED BY <2>1, <2>3, <3>1, <3>2 DEF StepShape, Onward, Goes
  <2>4. ASSUME NEW i \in req[c].list, Expired(c, i[2]),
               Goes(c, [[req[c] EXCEPT !.list = @ \ {i}] EXCEPT !.pc = "drop", !.key = i[1], !.seen = i[2]])
        PROVE  StepShape(c)
    <3> DEFINE s == [[req[c] EXCEPT !.list = @ \ {i}] EXCEPT !.pc = "drop", !.key = i[1], !.seen = i[2]]
    <3>0. i[1] \in Keys /\ i[2] \in Entries /\ i[2] # Absent
      BY <1>1 DEF Request, Sound, Carries
    <3>1. /\ s \in Request /\ s.op = req[c].op /\ s.pc = "drop"
          /\ s.list \subseteq req[c].list /\ s.seen = i[2] /\ s.exp = req[c].exp
          /\ s.at = req[c].at
      BY <1>1, <2>1, <3>0 DEF Request, Steps
    <3>2. Sound(c, s) /\ s.op = "sweep"
      BY <1>1, <2>1, <2>4, <3>0, <3>1 DEF Sound, Placed, Carries, Prompt, Request, Ops
    <3> QED BY <2>1, <2>4, <3>1, <3>2 DEF StepShape, Onward, Goes
  <2> QED BY <1>2, <2>2, <2>3, <2>4 DEF SweepNext
<1>3. CASE SweepDeletes(c)
  <2> DEFINE s == [req[c] EXCEPT !.pc = "next", !.key = Idle.key, !.seen = Absent]
  <2>1. req[c].pc = "drop" /\ Applied(req[c]) /\ ~Writes(req[c])
    BY <1>3 DEF SweepDeletes, Call, Writes
  <2>2. /\ s \in Request /\ s.op = req[c].op /\ s.pc = "next" /\ s.seen = Absent
        /\ s.list = req[c].list /\ s.exp = req[c].exp /\ s.at = req[c].at
    BY <1>1, IdleSound DEF Request, Steps
  <2>3. Sound(c, s) /\ s.op = "sweep"
    BY <1>1, <2>1, <2>2 DEF Sound, Placed, Carries, Prompt, Request, Ops
  <2> QED BY <1>3, <2>1, <2>2, <2>3 DEF SweepDeletes, StepShape, Onward, Goes
<1> QED BY <1>2, <1>3

\* A call that fails ends the request, except the delete of Get.
LEMMA FailsShape ==
    ASSUME HubInv, NEW c \in Callers, Fails(c)
    PROVE  StepShape(c)
<1>1. CASE req[c].pc = "reap"
  <2>1. ~Writes(req[c]) /\ NotFound(c)
    BY <1>1 DEF Fails, Writes
  <2> QED BY <1>1, <2>1, NotFoundOnward DEF Fails, StepShape
<1>2. CASE req[c].pc # "reap"
  BY <1>2, IdleSound DEF Fails, StepShape, Onward, Ends, Goes
<1> QED BY <1>1, <1>2

\* Every step of a caller, answered or failed, has this shape.
LEMMA CallerShape ==
    ASSUME HubInv, NEW c \in Callers, Step(c) \/ Fails(c)
    PROVE  StepShape(c)
  BY GetShape, TakeShape, WriteShape, SweepShape, FailsShape DEF Step

\* What beginning a request leaves: a sound request that has read nothing yet, on
\* a key that still has room if it may write it.
Begun(c) ==
  \E r :
    /\ req[c].pc = "idle" /\ req[c].op = "none"
    /\ req' = [req EXCEPT ![c] = r]
    /\ Sound(c, r)
    /\ r.pc # "taken"
    /\ c \in Handlers /\ r.op \in Writers => Room(r.key)
    /\ UNCHANGED <<used, now, api, writes, granted, claims, faults>>

\* The requests that begin without a proof.
LEMMA BeginShape ==
    ASSUME HubInv, NEW c \in Handlers, NEW op \in Ops \ {"none", "prove", "sweep"}, NEW pc \in Steps,
           NEW k \in Keys, NEW exp \in Nat, exp =< MaxTime + TTL + Skew,
           op \in Writers => Room(k),
           pc \in {"create", "peek", "remove", "get"},
           Placed([Idle EXCEPT !.op = op, !.pc = pc, !.key = k, !.exp = exp]),
           Begin(c, op, pc, k, exp)
    PROVE  Begun(c)
<1> DEFINE r == [Idle EXCEPT !.op = op, !.pc = pc, !.key = k, !.exp = exp]
<1>1. /\ r \in Request /\ r.op = op /\ r.pc = pc /\ r.key = k /\ r.exp = exp
      /\ r.seen = Absent /\ r.list = {}
  BY IdleSound DEF Request, Idle
<1>2. Sound(c, r)
  BY <1>1, HubAssumption DEF Sound, Carries, Prompt
<1>3. req[c].pc = "idle" /\ req[c].op = "none"
  BY DEF Begin, HubInv, RequestsOK, Sound, Placed, Callers
<1> QED BY <1>1, <1>2, <1>3 DEF Begun, Begin, Goes, Rest

\* The clocks of the callers.
LEMMA ClockType ==
    ASSUME HubInv, NEW c \in Callers
    PROVE  /\ Ahead[c] \in Nat /\ Clock(c) \in Nat
           /\ Clock(c) + TTL \in Nat /\ Clock(c) + TTL =< MaxTime + TTL + Skew
  BY HubAssumption DEF HubInv, StoreOK, Clock

\* Every request a handler may begin is sound.
LEMMA ServeShape ==
    ASSUME HubInv, NEW c \in Handlers, Serve(c)
    PROVE  Begun(c)
<1> USE DEF Keys, Ops, Steps
<1>0. c \in Callers
  BY DEF Callers
<1>00. 0 \in Nat /\ 0 =< MaxTime + TTL + Skew
  BY HubAssumption
<1>1. CASE Mint(c)
  <2>1. PICK k \in Codes : Room(k) /\ Begin(c, "mint", "create", k, Clock(c) + TTL)
    BY <1>1 DEF Mint
  <2> QED BY <1>0, <2>1, BeginShape, ClockType DEF Placed, Idle, Writers
<1>2. CASE Issue(c)
  <2>1. PICK k \in Sessions : Room(k) /\ Begin(c, "issue", "peek", k, Clock(c) + TTL)
    BY <1>2 DEF Issue
  <2> QED BY <1>0, <2>1, BeginShape, ClockType DEF Placed, Idle, Writers
<1>3. CASE Resolve(c)
  <2>1. PICK k \in Sessions : Begin(c, "resolve", "peek", k, 0)
    BY <1>3 DEF Resolve
  <2> QED BY <1>00, <2>1, BeginShape DEF Placed, Idle, Writers
<1>4. CASE Logout(c)
  <2>1. PICK k \in Sessions : Begin(c, "logout", "remove", k, 0)
    BY <1>4 DEF Logout
  <2> QED BY <1>00, <2>1, BeginShape DEF Placed, Idle, Writers
<1>5. CASE Exchange(c)
  <2>1. PICK k \in Codes : Begin(c, "exchange", "get", k, 0)
    BY <1>5 DEF Exchange
  <2> QED BY <1>00, <2>1, BeginShape DEF Placed, Idle, Writers
<1>6. CASE IdentityExchange(c)
  <2>1. PICK k \in Codes : Begin(c, "identity", "peek", k, 0)
    BY <1>6 DEF IdentityExchange
  <2> QED BY <1>00, <2>1, BeginShape DEF Placed, Idle, Writers
<1>7. CASE Verify(c)
  <2>1. PICK k \in Proofs :
          Room(k) /\ Goes(c, [Idle EXCEPT !.op = "prove", !.pc = "admit", !.key = k, !.at = now])
    BY <1>7 DEF Verify
  <2> DEFINE r == [Idle EXCEPT !.op = "prove", !.pc = "admit", !.key = k, !.at = now]
  <2>2. now \in 0..MaxTime
    BY DEF HubInv, StoreOK
  <2>3. /\ r \in Request /\ r.op = "prove" /\ r.pc = "admit" /\ r.key = k /\ r.exp = 0
        /\ r.seen = Absent /\ r.list = {} /\ r.at = now
    BY <2>2, IdleSound DEF Request, Idle
  <2>4. now + Ahead[c] < ProofExpiry /\ now =< now + MaxHold
    BY <1>0, <1>7, <2>2, HubAssumption, ClockType DEF Verify, Clock, ProofExpiry
  <2>5. Sound(c, r)
    BY <2>3, <2>4, HubAssumption DEF Sound, Placed, Carries, Prompt
  <2>6. req[c].pc = "idle" /\ req[c].op = "none"
    BY <1>0, <1>7 DEF Verify, HubInv, RequestsOK, Sound, Placed
  <2> QED BY <1>7, <2>1, <2>3, <2>5, <2>6 DEF Begun, Goes, Verify, Rest
<1> QED BY <1>1, <1>2, <1>3, <1>4, <1>5, <1>6, <1>7 DEF Serve

\* A sweep begins with what List returns, whole Secrets.
LEMMA SweepBegins ==
    ASSUME HubInv, NEW c \in Sweepers, Sweep(c, used)
    PROVE  Begun(c)
<1> DEFINE r == [Idle EXCEPT !.op = "sweep", !.pc = "next", !.list = Listed(used)]
<1>1. c \in Callers /\ c \notin Handlers
  BY HubAssumption DEF Callers
<1>2. used \subseteq Keys /\ api \in [Keys -> Entries]
  BY DEF HubInv, StoreOK, Keys
<1>3. Listed(used) \subseteq Keys \X Entries /\ \A i \in Listed(used) : i[2] # Absent
  BY <1>2 DEF Listed
<1>4. /\ r \in Request /\ r.op = "sweep" /\ r.pc = "next" /\ r.exp = 0
      /\ r.seen = Absent /\ r.list = Listed(used)
  BY <1>3, IdleSound DEF Request, Idle, Ops, Steps
<1>5. Sound(c, r)
  BY <1>1, <1>3, <1>4, HubAssumption DEF Sound, Placed, Carries, Prompt
<1>6. req[c].pc = "idle" /\ req[c].op = "none"
  BY <1>1 DEF Sweep, HubInv, RequestsOK, Sound, Placed
<1> QED BY <1>1, <1>4, <1>5, <1>6 DEF Sweep, Begun, Goes, Rest

\* No step spoils a request.
LEMMA RequestsKept ==
    ASSUME HubInv, [Next]_vars
    PROVE  RequestsOK'
<1>0. DOMAIN req = Callers /\ \A c \in Callers : Sound(c, req[c])
  BY DEF HubInv, RequestsOK
<1>1. ASSUME now' = now, NEW c \in Callers, NEW r, Sound(c, r), req' = [req EXCEPT ![c] = r]
      PROVE  RequestsOK'
  <2>1. \A d \in Callers : Sound(d, req'[d])
    BY <1>0, <1>1
  <2>2. \A d \in Callers : Sound(d, req[d])'
    BY <1>1, <2>1 DEF Sound, Carries, Prompt, Expired, Clock, Placed
  <2> QED BY <1>0, <1>1, <2>2 DEF RequestsOK
<1>2. ASSUME NEW c \in Callers, Step(c) \/ Fails(c) PROVE RequestsOK'
  <2>1. now' = now
    BY <1>2 DEF Step, Fails, Rest, Get, Reap, Checks, TakeReads, TakeDeletes, Answer, Admit, Create,
           Update, Delete, SweepNext, SweepDeletes
  <2> QED BY <1>1, <1>2, <2>1, CallerShape DEF StepShape, Onward
<1>3. ASSUME NEW c \in Callers, Begun(c) PROVE RequestsOK'
  BY <1>1, <1>3 DEF Begun
<1>4. CASE Tick
  <2>1. now \in Nat /\ now' = now + 1 /\ req' = req
    BY <1>4, HubAssumption DEF Tick, HubInv, StoreOK
  <2>2. ASSUME NEW c \in Callers PROVE Sound(c, req[c])'
    <3>1. Sound(c, req[c]) /\ req[c].at \in Nat /\ req[c].seen.exp \in Nat /\ Ahead[c] \in Nat
      BY <1>0, HubAssumption DEF Sound, Carries, Request, Entries
    <3>2. req[c].op = "prove" => now' =< req[c].at + MaxHold
      <4>1. req[c].op = "prove" => c \in Handlers
        BY <3>1 DEF Sound
      <4> QED BY <1>4, <2>1, <3>1, <4>1, HubAssumption DEF Tick
    <3>3. Expired(c, req[c].seen) => Expired(c, req[c].seen)'
      BY <2>1, <3>1 DEF Expired, Clock
    <3> QED BY <2>1, <3>1, <3>2, <3>3 DEF Sound, Carries, Prompt, Placed
  <2> QED BY <1>0, <2>1, <2>2 DEF RequestsOK
<1>5. CASE UNCHANGED vars
  BY <1>0, <1>5 DEF vars, RequestsOK, Sound, Placed, Carries, Prompt, Expired, Clock
<1> QED BY <1>2, <1>3, <1>4, <1>5, ServeShape, SweepBegins DEF Next, Callers

-----------------------------------------------------------------------------
(* The store                                                               *)

\* A call that writes, removes or leaves the Secret under its key.
Wrote(c) ==
  LET r == req[c] IN
  /\ Writes(r) /\ r.op \in Writers /\ c \in Handlers
  /\ api' = [api EXCEPT ![r.key] = [ver |-> writes[r.key] + 1, exp |-> r.exp]]
  /\ writes' = [writes EXCEPT ![r.key] = writes[r.key] + 1]

Removed(c) ==
  LET r == req[c] IN
  /\ ~Writes(r)
  /\ (r.pc \in {"reap", "delete", "drop"} /\ api[r.key] = r.seen) \/ r.pc = "remove"
  /\ api' = [api EXCEPT ![r.key] = Absent]
  /\ UNCHANGED writes

\* The precondition of deleteExact makes these the only three effects.
LEMMA Effects ==
    ASSUME HubInv, NEW c \in Callers, Applied(req[c])
    PROVE  Wrote(c) \/ Removed(c) \/ (~Writes(req[c]) /\ UNCHANGED <<api, writes>>)
<1> DEFINE r == req[c]
<1>1. Sound(c, r)
  BY DEF HubInv, RequestsOK
<1>2. CASE Writes(r)
  <2>1. r.pc \in {"create", "update"} /\ r.op \in Writers /\ c \in Handlers
    BY <1>1, <1>2 DEF Writes, Sound, Placed, Carries, Request, Ops, Writers
  <2>2. ApiAfter(r) = Stored(r.key, r.exp)
    BY <1>2, <2>1 DEF ApiAfter
  <2> QED BY <1>2, <2>1, <2>2 DEF Applied, Wrote, Stored
<1>3. CASE ~Writes(r) /\ r.pc \in {"reap", "delete", "drop"}
  <2>1. ApiAfter(r) = DeleteExact(r.key, r.seen)
    BY <1>3 DEF ApiAfter
  <2>2. CASE api[r.key] = r.seen
    BY <1>3, <2>1, <2>2 DEF Applied, Removed, DeleteExact, Same
  <2>3. CASE api[r.key] # r.seen
    BY <1>3, <2>1, <2>3 DEF Applied, DeleteExact, Same
  <2> QED BY <2>2, <2>3
<1>4. CASE ~Writes(r) /\ r.pc = "remove"
  <2>1. ApiAfter(r) = [api EXCEPT ![r.key] = Absent]
    BY <1>4 DEF ApiAfter
  <2> QED BY <1>4, <2>1 DEF Applied, Removed
<1>5. CASE ~Writes(r) /\ r.pc \notin {"reap", "delete", "drop", "remove"}
  <2>1. ApiAfter(r) = api
    BY <1>5 DEF ApiAfter
  <2> QED BY <1>5, <2>1 DEF Applied
<1> QED BY <1>2, <1>3, <1>4, <1>5

\* A request that may write has its place under the bound.
LEMMA WriterHasRoom ==
    ASSUME HubInv, NEW c \in Handlers, req[c].op \in Writers, req[c].key \in Keys
    PROVE  writes[req[c].key] < MaxWrites
<1> DEFINE k == req[c].key
<1>1. c \in Busy(k) /\ Busy(k) \in SUBSET Handlers
  BY DEF Busy
<1>2. IsFiniteSet(Busy(k))
  BY <1>1, FS_Subset, HubAssumption
<1>3. Cardinality(Busy(k)) \in Nat /\ Cardinality(Busy(k)) # 0
  BY <1>1, <1>2, FS_CardinalityType, FS_EmptySet
<1>4. writes[k] \in Nat /\ writes[k] + Cardinality(Busy(k)) =< MaxWrites
  BY DEF HubInv, StoreOK, RoomKept
<1> QED BY <1>3, <1>4, HubAssumption

\* The variables a caller's step leaves alone.
LEMMA StepFrame ==
    ASSUME NEW c \in Callers, Step(c) \/ Fails(c)
    PROVE  /\ UNCHANGED <<used, now>>
           /\ faults' = faults \/ (Fails(c) /\ faults' = faults + 1 /\ faults < MaxFaults)
  BY DEF Step, Fails, Rest, Get, Reap, Checks, TakeReads, TakeDeletes, Answer, Admit, Create,
         Update, Delete, SweepNext, SweepDeletes

\* Every step keeps the store well formed.
LEMMA StoreKept ==
    ASSUME HubInv, [Next]_vars
    PROVE  StoreOK'
<1>0. StoreOK
  BY DEF HubInv
<1>1. ASSUME NEW c \in Callers, Step(c) \/ Fails(c) PROVE StoreOK'
  <2>1. /\ used' \in {Codes, Sessions, Proofs} /\ now' \in 0..MaxTime
        /\ faults' \in 0..MaxFaults
    BY <1>0, <1>1, StepFrame, HubAssumption DEF StoreOK
  <2>2. (UNCHANGED <<api, writes>>) \/ Wrote(c) \/ Removed(c)
    BY <1>1, CallerShape, Effects DEF StepShape
  <2>3. req[c] \in Request /\ Sound(c, req[c])
    BY DEF HubInv, RequestsOK, Sound, Carries
  <2>4. req[c].key \in Keys
    BY <2>3 DEF Request
  <2>5. CASE Wrote(c)
    <3> DEFINE k == req[c].key
               new == [ver |-> writes[k] + 1, exp |-> req[c].exp]
    <3>1. writes[k] \in Nat /\ writes[k] < MaxWrites
      BY <1>0, <2>4, <2>5, WriterHasRoom DEF StoreOK, Wrote
    <3>2. req[c].exp \in Nat /\ req[c].exp =< MaxTime + TTL + 2 * Skew
      BY <2>3, HubAssumption DEF Sound, Carries, Request
    <3>3. new \in Entries /\ new.ver = writes[k] + 1
      BY <3>1, <3>2, HubAssumption DEF Entries
    <3>4. api' = [api EXCEPT ![k] = new] /\ writes' = [writes EXCEPT ![k] = writes[k] + 1]
      BY <2>5 DEF Wrote
    <3>5. api' \in [Keys -> Entries] /\ writes' \in [Keys -> Nat]
      BY <1>0, <2>4, <3>1, <3>3, <3>4 DEF StoreOK
    <3>6. ASSUME NEW x \in Keys PROVE api'[x].ver =< writes'[x] /\ (api'[x] # Absent => api'[x].ver > 0)
      BY <1>0, <2>4, <3>1, <3>3, <3>4, <3>6 DEF StoreOK
    <3> QED BY <2>1, <3>5, <3>6 DEF StoreOK
  <2>6. CASE Removed(c)
    <3>1. Absent.ver = 0
      BY DEF Absent
    <3>2. api' = [api EXCEPT ![req[c].key] = Absent] /\ writes' = writes
      BY <2>6 DEF Removed
    <3>3. api' \in [Keys -> Entries] /\ writes' \in [Keys -> Nat]
      BY <1>0, <2>4, <3>2, IdleSound DEF StoreOK
    <3>4. ASSUME NEW x \in Keys PROVE api'[x].ver =< writes'[x] /\ (api'[x] # Absent => api'[x].ver > 0)
      BY <1>0, <2>4, <3>1, <3>2, <3>4 DEF StoreOK
    <3> QED BY <2>1, <3>3, <3>4 DEF StoreOK
  <2>7. CASE UNCHANGED <<api, writes>>
    BY <1>0, <2>1, <2>7 DEF StoreOK
  <2> QED BY <2>2, <2>5, <2>6, <2>7
<1>2. ASSUME NEW c \in Callers, Begun(c) PROVE StoreOK'
  BY <1>0, <1>2 DEF Begun, StoreOK
<1>3. CASE Tick
  BY <1>0, <1>3, HubAssumption DEF Tick, StoreOK
<1>4. CASE UNCHANGED vars
  BY <1>0, <1>4 DEF vars, StoreOK
<1> QED BY <1>1, <1>2, <1>3, <1>4, ServeShape, SweepBegins DEF Next, Callers

-----------------------------------------------------------------------------
(* Uses of a proof                                                         *)

\* A request that is about to claim a proof stands at a time when no replica's
\* clock has reached the end of the proof's acceptance.
LEMMA ClaimIsTimely ==
    ASSUME HubInv, NEW c \in Callers, req[c].op = "prove", NEW d \in Callers
    PROVE  Clock(d) < AcceptedUntil
<1>1. Sound(c, req[c])
  BY DEF HubInv, RequestsOK
<1>2. req[c].at \in Nat /\ req[c].at + Ahead[c] < ProofExpiry /\ now =< req[c].at + MaxHold
  BY <1>1 DEF Sound, Carries, Prompt, Request
<1>3. now \in Nat
  BY HubAssumption DEF HubInv, StoreOK
<1>4. Ahead[c] \in Nat /\ Ahead[d] \in Nat /\ MaxHold + Ahead[d] =< Skew
  BY HubAssumption
<1> QED BY <1>2, <1>3, <1>4, HubAssumption DEF Clock, AcceptedUntil, ProofExpiry

\* Only the creation of a claim accepts a proof.
LEMMA ClaimFrame ==
    ASSUME HubInv, NEW c \in Callers, Step(c) \/ Fails(c)
    PROVE  \/ UNCHANGED claims
           \/ /\ Wrote(c) /\ req[c].op = "prove" /\ api[req[c].key] = Absent
              /\ claims' = [claims EXCEPT ![req[c].key] = claims[req[c].key] + 1]
<1>1. CASE Create(c)
  BY <1>1, Effects DEF Create, Call, Writes, Removed
<1>2. CASE ~Create(c)
  BY <1>2 DEF Step, Fails, Rest, Get, Reap, Checks, TakeReads, TakeDeletes, Answer, Admit,
         Update, Delete, SweepNext, SweepDeletes
<1> QED BY <1>1, <1>2

\* Only a sweep removes the claim of a proof, and only on a clock that has passed
\* the proof's acceptance.
LEMMA ClaimRemoved ==
    ASSUME HubInv, NEW c \in Callers, Removed(c), req[c].key \in Proofs, api[req[c].key] # Absent
    PROVE  AcceptedUntil =< Clock(c)
<1>1. Sound(c, req[c])
  BY DEF HubInv, RequestsOK
<1>2. req[c].pc = "drop" /\ api[req[c].key] = req[c].seen
  BY <1>1, HubAssumption DEF Sound, Placed, Carries, Request, Ops, Removed
<1>3. Expired(c, req[c].seen)
  BY <1>1, <1>2 DEF Sound, Carries
<1>4. api[req[c].key].exp = AcceptedUntil
  BY DEF HubInv, ClaimsOK
<1> QED BY <1>2, <1>3, <1>4 DEF Expired

\* Only a claim is written under the key of a proof, with the proof's acceptance as
\* its expiry.
LEMMA ClaimWritten ==
    ASSUME HubInv, NEW c \in Callers, Wrote(c), req[c].key \in Proofs
    PROVE  req[c].exp = AcceptedUntil
<1>1. Sound(c, req[c])
  BY DEF HubInv, RequestsOK
<1> QED BY <1>1, HubAssumption DEF Sound, Placed, Carries, Request, Ops, Writers, Wrote, Writes

\* A proof is claimed once, in whatever order the replicas verify, claim and sweep.
LEMMA ClaimsKept ==
    ASSUME HubInv, [Next]_vars
    PROVE  ClaimsOK'
<1>0. ClaimsOK /\ StoreOK
  BY DEF HubInv
<1>1. ASSUME NEW c \in Callers, Step(c) \/ Fails(c) PROVE ClaimsOK'
  <2> DEFINE k == req[c].key
  <2>1. req[c] \in Request /\ k \in Keys /\ req[c].exp \in Nat
    BY DEF HubInv, RequestsOK, Sound, Carries, Request
  <2>2. (UNCHANGED <<api, writes>>) \/ Wrote(c) \/ Removed(c)
    BY <1>1, CallerShape, Effects DEF StepShape
  <2>3. \A d \in Callers : Clock(d)' = Clock(d)
    BY <1>1, StepFrame DEF Clock
  <2>4. CASE Wrote(c)
    <3>1. /\ api' = [api EXCEPT ![k] = [ver |-> writes[k] + 1, exp |-> req[c].exp]]
          /\ writes' = [writes EXCEPT ![k] = writes[k] + 1]
          /\ api \in [Keys -> Entries] /\ writes \in [Keys -> Nat]
      BY <1>0, <2>4 DEF Wrote, StoreOK
    <3>2. api'[k] # Absent /\ api'[k].exp = req[c].exp /\ writes'[k] = writes[k] + 1
      BY <2>1, <3>1 DEF Absent
    <3>3. /\ claims' \in [Proofs -> 0..1]
          /\ \A x \in Proofs : x # k => claims'[x] = claims[x]
      <4>1. CASE UNCHANGED claims
        BY <1>0, <4>1 DEF ClaimsOK
      <4>2. CASE /\ req[c].op = "prove" /\ api[k] = Absent
                 /\ claims' = [claims EXCEPT ![k] = claims[k] + 1]
        <5>1. k \in Proofs
          BY <4>2 DEF HubInv, RequestsOK, Sound, Placed
        <5>2. claims[k] # 1
          BY <1>0, <4>2, <5>1, ClaimIsTimely, ClockType, HubAssumption DEF ClaimsOK, AcceptedUntil, ProofExpiry
        <5>3. claims[k] = 0
          BY <1>0, <5>1, <5>2 DEF ClaimsOK
        <5> QED BY <1>0, <4>2, <5>1, <5>3 DEF ClaimsOK
      <4> QED BY <1>1, <4>1, <4>2, ClaimFrame
    <3>4. ASSUME NEW x \in Proofs
          PROVE  /\ claims'[x] =< writes'[x]
                 /\ api'[x] # Absent => api'[x].exp = AcceptedUntil
                 /\ claims'[x] = 1 => api'[x] # Absent \/ \E d \in Callers : AcceptedUntil =< Clock(d)'
      <4>1. CASE x = k
        <5>1. claims'[x] \in 0..1 /\ writes[k] \in Nat
          BY <2>1, <3>1, <3>3
        <5> QED BY <2>4, <3>2, <4>1, <5>1, ClaimWritten
      <4>2. CASE x # k
        <5>1. api'[x] = api[x] /\ writes'[x] = writes[x] /\ claims'[x] = claims[x]
          BY <3>1, <3>3, <4>2 DEF Keys
        <5> QED BY <1>0, <2>3, <5>1 DEF ClaimsOK
      <4> QED BY <4>1, <4>2
    <3> QED BY <3>3, <3>4 DEF ClaimsOK
  <2>5. CASE Removed(c)
    <3>1. UNCHANGED claims
      BY <1>1, <2>5, ClaimFrame DEF Wrote, Removed
    <3>2. /\ api' = [api EXCEPT ![k] = Absent] /\ writes' = writes
          /\ api \in [Keys -> Entries]
      BY <1>0, <2>5 DEF Removed, StoreOK
    <3>3. ASSUME NEW x \in Proofs
          PROVE  /\ api'[x] # Absent => api'[x].exp = AcceptedUntil
                 /\ claims'[x] = 1 => api'[x] # Absent \/ \E d \in Callers : AcceptedUntil =< Clock(d)'
      <4>1. CASE x = k /\ api[k] # Absent
        <5>1. AcceptedUntil =< Clock(c)'
          BY <2>3, <2>5, <4>1, ClaimRemoved
        <5>2. api'[x] = Absent
          BY <2>1, <3>2, <4>1
        <5> QED BY <5>1, <5>2
      <4>2. CASE x # k \/ api[k] = Absent
        <5>1. api'[x] = api[x] /\ claims'[x] = claims[x]
          BY <2>1, <3>1, <3>2, <4>2 DEF Keys
        <5> QED BY <1>0, <2>3, <5>1 DEF ClaimsOK
      <4> QED BY <4>1, <4>2
    <3> QED BY <1>0, <3>1, <3>2, <3>3 DEF ClaimsOK
  <2>6. CASE UNCHANGED <<api, writes>>
    <3>1. UNCHANGED claims
      <4>1. ~Wrote(c)
        BY <1>0, <2>1, <2>6 DEF Wrote, StoreOK
      <4> QED BY <1>1, <4>1, ClaimFrame
    <3> QED BY <1>0, <2>3, <2>6, <3>1 DEF ClaimsOK
  <2> QED BY <2>2, <2>4, <2>5, <2>6
<1>2. ASSUME NEW c \in Callers, Begun(c) PROVE ClaimsOK'
  BY <1>0, <1>2 DEF Begun, ClaimsOK, Clock
<1>3. CASE Tick
  <2>1. \A d \in Callers : AcceptedUntil =< Clock(d) => AcceptedUntil =< Clock(d)'
    BY <1>0, <1>3, HubAssumption DEF Tick, Clock, StoreOK, AcceptedUntil, ProofExpiry
  <2>2. UNCHANGED <<api, writes, claims>>
    BY <1>3 DEF Tick
  <2> QED BY <1>0, <2>1, <2>2 DEF ClaimsOK
<1>4. CASE UNCHANGED vars
  BY <1>0, <1>4 DEF vars, ClaimsOK, Clock
<1> QED BY <1>1, <1>2, <1>3, <1>4, ServeShape, SweepBegins DEF Next, Callers

-----------------------------------------------------------------------------
(* The bound on writes                                                     *)

\* The requests that may write a key are finitely many.
LEMMA BusyFinite ==
    ASSUME NEW k
    PROVE  /\ Busy(k) \in SUBSET Handlers /\ IsFiniteSet(Busy(k)) /\ Cardinality(Busy(k)) \in Nat
           /\ Busy(k)' \in SUBSET Handlers /\ IsFiniteSet(Busy(k)') /\ Cardinality(Busy(k)') \in Nat
<1>1. Busy(k) \in SUBSET Handlers /\ Busy(k)' \in SUBSET Handlers
  BY DEF Busy
<1> QED BY <1>1, FS_Subset, FS_CardinalityType, HubAssumption

\* The bound holds whatever the requests do: Room reserves a write for each of them.
LEMMA RoomStays ==
    ASSUME HubInv, [Next]_vars
    PROVE  RoomKept'
<1>0. StoreOK /\ RoomKept /\ DOMAIN req = Callers /\ Handlers \subseteq Callers
  BY DEF HubInv, RequestsOK, Callers
<1>1. ASSUME NEW c \in Callers, Step(c) \/ Fails(c), NEW k \in Keys
      PROVE  writes'[k] + Cardinality(Busy(k)') =< MaxWrites
  <2>1. PICK r : /\ Onward(c, r)
                 /\ (UNCHANGED <<api, writes>>) \/ (Applied(req[c]) /\ (Writes(req[c]) => r = Idle))
    BY <1>1, CallerShape DEF StepShape
  <2>2. Busy(k)' \subseteq Busy(k)
    BY <1>0, <2>1 DEF Busy, Onward, Idle, Writers
  <2>3. Cardinality(Busy(k)') =< Cardinality(Busy(k))
    BY <2>2, BusyFinite, FS_Subset
  <2>4. writes[k] \in Nat /\ writes[k] + Cardinality(Busy(k)) =< MaxWrites
    BY <1>0 DEF StoreOK, RoomKept
  <2>5. CASE UNCHANGED writes
    BY <2>3, <2>4, <2>5, BusyFinite, HubAssumption
  <2>6. CASE Wrote(c) /\ r = Idle
    <3>1. writes' = [writes EXCEPT ![req[c].key] = writes[req[c].key] + 1]
      BY <2>6 DEF Wrote
    <3>2. CASE k # req[c].key
      <4>1. writes'[k] = writes[k]
        BY <1>0, <3>1, <3>2 DEF StoreOK
      <4> QED BY <2>3, <2>4, <4>1, BusyFinite, HubAssumption
    <3>3. CASE k = req[c].key
      <4>1. c \in Busy(k) /\ Busy(k)' \subseteq Busy(k) \ {c}
        BY <1>0, <2>1, <2>2, <2>6, <3>3 DEF Busy, Wrote, Onward, Idle, Writers
      <4>2. /\ IsFiniteSet(Busy(k) \ {c})
            /\ Cardinality(Busy(k) \ {c}) = Cardinality(Busy(k)) - 1
        BY <4>1, BusyFinite, FS_RemoveElement
      <4>3. Cardinality(Busy(k)') =< Cardinality(Busy(k)) - 1
        BY <4>1, <4>2, FS_Subset
      <4>4. writes'[k] = writes[k] + 1
        BY <1>0, <3>1, <3>3 DEF StoreOK
      <4> QED BY <2>4, <4>3, <4>4, BusyFinite, HubAssumption
    <3> QED BY <3>2, <3>3
  <2>7. (UNCHANGED writes) \/ (Wrote(c) /\ r = Idle)
    BY <2>1, Effects DEF Wrote, Removed
  <2> QED BY <2>5, <2>6, <2>7
<1>2. ASSUME NEW c \in Callers, Begun(c), NEW k \in Keys
      PROVE  writes'[k] + Cardinality(Busy(k)') =< MaxWrites
  <2>1. PICK r : /\ req' = [req EXCEPT ![c] = r] /\ writes' = writes
                 /\ c \in Handlers /\ r.op \in Writers => Room(r.key)
    BY <1>2 DEF Begun
  <2>2. writes[k] \in Nat /\ writes[k] + Cardinality(Busy(k)) =< MaxWrites
    BY <1>0 DEF StoreOK, RoomKept
  <2>3. CASE c \in Handlers /\ r.op \in Writers /\ r.key = k
    <3>1. writes[k] + Cardinality(Busy(k)) < MaxWrites
      BY <2>1, <2>3 DEF Room, Busy, Writers
    <3>2. Busy(k)' \subseteq Busy(k) \cup {c}
      BY <1>0, <2>1 DEF Busy
    <3>3. /\ IsFiniteSet(Busy(k) \cup {c})
          /\ Cardinality(Busy(k) \cup {c}) =< Cardinality(Busy(k)) + 1
      <4>1. IsFiniteSet(Busy(k)) /\ Cardinality(Busy(k)) \in Nat
        BY BusyFinite
      <4>2. /\ IsFiniteSet(Busy(k) \cup {c})
            /\ Cardinality(Busy(k) \cup {c})
                 = IF c \in Busy(k) THEN Cardinality(Busy(k)) ELSE Cardinality(Busy(k)) + 1
        BY <4>1, FS_AddElement
      <4> QED BY <4>1, <4>2
    <3>4. Cardinality(Busy(k)') =< Cardinality(Busy(k) \cup {c}) /\ Cardinality(Busy(k) \cup {c}) \in Nat
      BY <3>2, <3>3, FS_Subset, FS_CardinalityType
    <3> QED BY <2>1, <2>2, <3>1, <3>3, <3>4, BusyFinite, HubAssumption
  <2>4. CASE ~(c \in Handlers /\ r.op \in Writers /\ r.key = k)
    <3>1. Busy(k)' \subseteq Busy(k)
      BY <1>0, <2>1, <2>4 DEF Busy
    <3>2. Cardinality(Busy(k)') =< Cardinality(Busy(k))
      BY <3>1, BusyFinite, FS_Subset
    <3> QED BY <2>1, <2>2, <3>2, BusyFinite, HubAssumption
  <2> QED BY <2>3, <2>4
<1>3. CASE Tick
  BY <1>0, <1>3 DEF Tick, RoomKept, Busy
<1>4. CASE UNCHANGED vars
  BY <1>0, <1>4 DEF vars, RoomKept, Busy
<1>5. ASSUME \A k \in Keys : writes'[k] + Cardinality(Busy(k)') =< MaxWrites PROVE RoomKept'
  BY <1>5 DEF RoomKept
<1> QED BY <1>1, <1>2, <1>3, <1>4, <1>5, ServeShape, SweepBegins DEF Next, Callers

-----------------------------------------------------------------------------
(* Records in hand                                                         *)

\* Take removes the record it read and has it in hand.
TookIt(c) ==
  /\ Removed(c) /\ req[c].pc = "delete" /\ api[req[c].key] = req[c].seen /\ req[c].seen # Absent
  /\ req' = [req EXCEPT ![c] = [req[c] EXCEPT !.pc = "taken"]]
  /\ UNCHANGED granted

\* The record in hand is granted or dropped.
AnsweredIt(c) ==
  /\ req[c].pc = "taken"
  /\ req' = [req EXCEPT ![c] = Idle]
  /\ UNCHANGED <<api, writes>>
  /\ UNCHANGED granted \/ granted' = granted \cup {<<req[c].key, req[c].seen>>}

\* Nothing comes into a hand or leaves one.
HandsOff(c) ==
  /\ req[c].pc # "taken"
  /\ \E r : r.pc # "taken" /\ req' = [req EXCEPT ![c] = r]
  /\ (UNCHANGED <<api, writes>>) \/ Wrote(c) \/ Removed(c)
  /\ UNCHANGED granted

LEMMA Hands ==
    ASSUME HubInv, NEW c \in Callers, Step(c) \/ Fails(c)
    PROVE  TookIt(c) \/ AnsweredIt(c) \/ HandsOff(c)
<1>1. Sound(c, req[c]) /\ req[c] \in Request /\ DOMAIN req = Callers
  BY DEF HubInv, RequestsOK, Sound, Carries
<1>2. CASE Answer(c)
  BY <1>2 DEF Answer, AnsweredIt, Ends, Goes
<1>3. CASE TakeDeletes(c) /\ api[req[c].key] = req[c].seen
  <2>1. req[c].pc = "delete" /\ Applied(req[c]) /\ ~Writes(req[c]) /\ req[c].seen # Absent
    BY <1>1, <1>3 DEF TakeDeletes, Call, Writes, Sound, Carries
  <2>2. Removed(c)
    <3>1. ApiAfter(req[c]) = DeleteExact(req[c].key, req[c].seen)
      BY <2>1 DEF ApiAfter
    <3> QED BY <1>3, <2>1, <3>1 DEF Applied, Removed, DeleteExact, Same
  <2> QED BY <1>3, <2>1, <2>2 DEF TakeDeletes, TookIt, Same, Goes, Rest
<1>4. CASE ~Answer(c) /\ ~(TakeDeletes(c) /\ api[req[c].key] = req[c].seen)
  <2>1. req[c].pc # "taken" /\ UNCHANGED granted
    BY <1>4 DEF Step, Fails, Call, Rest, Get, Reap, Checks, TakeReads, TakeDeletes, Admit, Create,
           Update, Delete, SweepNext, SweepDeletes
  <2>2. PICK r : Onward(c, r) /\ ((UNCHANGED <<api, writes>>) \/ Applied(req[c]))
    BY CallerShape DEF StepShape
  <2>3. r.pc # "taken"
    <3>0. Idle.pc = "idle" /\ req'[c] = r
      BY <1>1, <2>2 DEF Idle, Onward
    <3>1. CASE Get(c) \/ Reap(c) \/ Checks(c)
      BY <1>1, <3>0, <3>1 DEF Get, Reap, Checks, NotFound, Goes, Ends, Request
    <3>2. CASE TakeReads(c) \/ TakeDeletes(c)
      BY <1>1, <1>4, <3>0, <3>2 DEF TakeReads, TakeDeletes, Same, Goes, Ends, Request
    <3>3. CASE Admit(c) \/ Create(c) \/ Update(c) \/ Delete(c)
      BY <1>1, <3>0, <3>3 DEF Admit, Create, Update, Delete, Goes, Ends, Request
    <3>4. CASE SweepNext(c) \/ SweepDeletes(c)
      BY <1>1, <2>1, <3>0, <3>4 DEF SweepNext, SweepDeletes, Goes, Ends, Request
    <3>5. CASE Fails(c)
      BY <1>1, <3>0, <3>5 DEF Fails, NotFound, Goes, Ends, Request
    <3> QED BY <1>4, <3>1, <3>2, <3>3, <3>4, <3>5 DEF Step
  <2> QED BY <2>1, <2>2, <2>3, Effects DEF HandsOff, Onward
<1> QED BY <1>2, <1>3, <1>4

\* What a removal and a write do to one key.
LEMMA KeyEffects ==
    ASSUME HubInv, NEW c \in Callers
    PROVE  /\ req[c].key \in Keys
           /\ Removed(c) => \A k \in Keys :
                /\ writes'[k] = writes[k]
                /\ api'[k] = IF k = req[c].key THEN Absent ELSE api[k]
           /\ Wrote(c) => \A k \in Keys :
                /\ writes'[k] >= writes[k]
                /\ api'[k] = api[k] \/ (k = req[c].key /\ api'[k].ver > writes[k] /\ api'[k] # Absent)
<1>1. req[c].key \in Keys
  BY DEF HubInv, RequestsOK, Sound, Carries, Request
<1>2. api \in [Keys -> Entries] /\ writes \in [Keys -> Nat]
  BY DEF HubInv, StoreOK
<1>3. Removed(c) => \A k \in Keys :
        /\ writes'[k] = writes[k]
        /\ api'[k] = IF k = req[c].key THEN Absent ELSE api[k]
  BY <1>1, <1>2 DEF Removed
<1>4. ASSUME Wrote(c), NEW k \in Keys
      PROVE  /\ writes'[k] >= writes[k]
             /\ api'[k] = api[k] \/ (k = req[c].key /\ api'[k].ver > writes[k] /\ api'[k] # Absent)
  <2>1. CASE k = req[c].key
    <3>1. api'[k] = [ver |-> writes[k] + 1, exp |-> req[c].exp] /\ writes'[k] = writes[k] + 1
      BY <1>2, <1>4, <2>1 DEF Wrote
    <3>2. api'[k].ver = writes[k] + 1 /\ writes[k] \in Nat /\ Absent.ver = 0
      BY <1>2, <3>1 DEF Absent
    <3>3. api'[k] # Absent
      BY <3>2
    <3> QED BY <2>1, <3>1, <3>2, <3>3
  <2>2. CASE k # req[c].key
    BY <1>2, <1>4, <2>2 DEF Wrote
  <2> QED BY <2>1, <2>2
<1> QED BY <1>1, <1>3, <1>4

\* A record out of the store stays out, and in one hand.
LEMMA TakenKept ==
    ASSUME HubInv, [Next]_vars
    PROVE  TakenOK'
<1>0. TakenOK /\ StoreOK /\ DOMAIN req = Callers /\ \A c \in Callers : Sound(c, req[c]) /\ req[c] \in Request
  BY DEF HubInv, RequestsOK, Sound, Carries
<1>a. ASSUME NEW c \in Callers, (UNCHANGED <<api, writes>>) \/ Wrote(c) \/ Removed(c),
             NEW k \in Keys, NEW e \in Entries, e # Absent, e.ver =< writes[k], e # api[k]
      PROVE  e.ver =< writes'[k] /\ e # api'[k]
  <2>1. e.ver \in Nat /\ writes[k] \in Nat
    BY <1>0, HubAssumption DEF Entries, StoreOK
  <2>2. CASE UNCHANGED <<api, writes>>
    BY <1>a, <2>2
  <2>3. CASE Removed(c)
    BY <1>a, <2>3, KeyEffects
  <2>4. CASE Wrote(c)
    <3>1. writes'[k] >= writes[k] /\ writes'[k] \in Nat
      BY <1>0, <2>4, KeyEffects DEF Wrote, StoreOK
    <3>2. api'[k] = api[k] \/ api'[k].ver > writes[k]
      BY <2>4, KeyEffects
    <3>3. e # api'[k]
      BY <1>a, <2>1, <3>2
    <3> QED BY <1>a, <2>1, <3>1, <3>3
  <2> QED BY <1>a, <2>2, <2>3, <2>4
<1>b. ASSUME NEW d \in Callers, req[d].pc = "taken"
      PROVE  req[d].key \in Keys /\ req[d].seen \in Entries /\ req[d].seen # Absent
  BY <1>0, <1>b DEF Sound, Carries, Request
<1>1. ASSUME NEW c \in Callers, Step(c) \/ Fails(c) PROVE TakenOK'
  <2> DEFINE k == req[c].key
             e == req[c].seen
  <2>0. (UNCHANGED <<api, writes>>) \/ Wrote(c) \/ Removed(c)
    BY <1>1, Hands DEF TookIt, AnsweredIt, HandsOff
  <2>1. k \in Keys /\ e \in Entries
    BY <1>0 DEF Request
  <2>2. ASSUME NEW g \in granted
        PROVE  /\ g \in Keys \X Entries /\ g[2] # Absent
               /\ g[2].ver =< writes'[g[1]] /\ g[2] # api'[g[1]]
    <3>1. g[1] \in Keys /\ g[2] \in Entries /\ g \in Keys \X Entries
      BY <1>0 DEF TakenOK
    <3> QED BY <1>0, <1>a, <2>0, <3>1 DEF TakenOK
  <2>3. ASSUME NEW d \in Callers, req[d].pc = "taken"
        PROVE  req[d].seen.ver =< writes'[req[d].key] /\ req[d].seen # api'[req[d].key]
    BY <1>0, <1>a, <1>b, <2>0, <2>3 DEF TakenOK
  <2>4. CASE HandsOff(c)
    <3>1. PICK r : r.pc # "taken" /\ req' = [req EXCEPT ![c] = r]
      BY <2>4 DEF HandsOff
    <3>2. granted' = granted
      BY <2>4 DEF HandsOff
    <3>3. \A d \in Callers : req'[d].pc = "taken" => req[d].pc = "taken" /\ req'[d] = req[d]
      BY <1>0, <3>1
    <3> QED BY <1>0, <2>2, <2>3, <3>2, <3>3 DEF TakenOK
  <2>5. CASE AnsweredIt(c)
    <3>1. \A d \in Callers : req'[d].pc = "taken" => d # c /\ req[d].pc = "taken" /\ req'[d] = req[d]
      BY <1>0, <2>5 DEF AnsweredIt, Idle
    <3>2. granted' \subseteq granted \cup {<<k, e>>} /\ req[c].pc = "taken"
      BY <2>5 DEF AnsweredIt
    <3>3. e # Absent /\ e.ver =< writes'[k] /\ e # api'[k]
      BY <1>b, <2>3, <3>2
    <3>4. ASSUME NEW g \in granted'
          PROVE  /\ g \in Keys \X Entries /\ g[2] # Absent
                 /\ g[2].ver =< writes'[g[1]] /\ g[2] # api'[g[1]]
      BY <2>1, <2>2, <3>2, <3>3
    <3>5. ASSUME NEW d \in Callers, req'[d].pc = "taken"
          PROVE  <<req'[d].key, req'[d].seen>> \notin granted'
      BY <1>0, <3>1, <3>2, <3>5 DEF TakenOK
    <3> QED BY <1>0, <2>3, <3>1, <3>4, <3>5 DEF TakenOK
  <2>6. CASE TookIt(c)
    <3>1. granted' = granted /\ api[k] = e /\ e # Absent /\ Removed(c)
      BY <2>6 DEF TookIt
    <3>2. req'[c].pc = "taken" /\ req'[c].key = k /\ req'[c].seen = e
      BY <1>0, <2>6 DEF TookIt, Request
    <3>3. \A d \in Callers : d # c => req'[d] = req[d]
      BY <1>0, <2>6 DEF TookIt
    <3>4. e.ver =< writes'[k] /\ e # api'[k]
      BY <1>0, <2>1, <3>1, KeyEffects DEF StoreOK
    <3>5. <<k, e>> \notin granted
      BY <1>0, <3>1 DEF TakenOK
    <3>6. \A d \in Callers : d # c /\ req[d].pc = "taken" => <<k, e>> # <<req[d].key, req[d].seen>>
      BY <1>0, <3>1 DEF TakenOK
    <3>7. \A g \in granted' : g \in Keys \X Entries /\ g[2] # Absent
                 /\ g[2].ver =< writes'[g[1]] /\ g[2] # api'[g[1]]
      BY <2>2, <3>1
    <3>8. \A d \in Callers : req'[d].pc = "taken" =>
            /\ req'[d].seen.ver =< writes'[req'[d].key]
            /\ req'[d].seen # api'[req'[d].key]
            /\ <<req'[d].key, req'[d].seen>> \notin granted'
      BY <1>0, <2>3, <3>1, <3>2, <3>3, <3>4, <3>5 DEF TakenOK
    <3>9. \A d, f \in Callers :
            req'[d].pc = "taken" /\ req'[f].pc = "taken" /\ d # f =>
              <<req'[d].key, req'[d].seen>> # <<req'[f].key, req'[f].seen>>
      BY <1>0, <3>2, <3>3, <3>6 DEF TakenOK
    <3> QED BY <3>7, <3>8, <3>9 DEF TakenOK
  <2> QED BY <1>1, <2>4, <2>5, <2>6, Hands
<1>2. ASSUME NEW c \in Callers, Begun(c) PROVE TakenOK'
  <2>1. PICK r : r.pc # "taken" /\ req' = [req EXCEPT ![c] = r]
    BY <1>2 DEF Begun
  <2>2. UNCHANGED <<api, writes, granted>>
    BY <1>2 DEF Begun
  <2>3. \A d \in Callers : req'[d].pc = "taken" => req[d].pc = "taken" /\ req'[d] = req[d]
    BY <1>0, <2>1
  <2> QED BY <1>0, <2>2, <2>3 DEF TakenOK
<1>3. CASE Tick
  BY <1>0, <1>3 DEF Tick, TakenOK
<1>4. CASE UNCHANGED vars
  BY <1>0, <1>4 DEF vars, TakenOK
<1> QED BY <1>1, <1>2, <1>3, <1>4, ServeShape, SweepBegins DEF Next, Callers

-----------------------------------------------------------------------------
(* The theorems                                                            *)

\* The initial state satisfies the invariant: nothing is stored or under way.
LEMMA HubInit == Init => HubInv
<1> SUFFICES ASSUME Init PROVE HubInv
  OBVIOUS
<1> USE DEF Init
<1>1. RequestsOK
  BY IdleSound DEF RequestsOK
<1>2. StoreOK
  BY IdleSound, HubAssumption DEF StoreOK, Absent
<1>3. ClaimsOK
  BY HubAssumption DEF ClaimsOK, Keys
<1>4. RoomKept
  <2>1. ASSUME NEW k \in Keys PROVE Busy(k) = {}
    BY DEF Busy, Callers, Idle, Writers
  <2>2. \A k \in Keys : writes[k] = 0 /\ Cardinality(Busy(k)) = 0
    BY <2>1, FS_EmptySet
  <2> QED BY <2>2, HubAssumption DEF RoomKept
<1>5. TakenOK
  BY DEF TakenOK, Idle
<1> QED BY <1>1, <1>2, <1>3, <1>4, <1>5 DEF HubInv

\* The invariant of the shared store and its users holds in every reachable state.
THEOREM HubInvariant == Spec => []HubInv
<1>1. HubInv /\ [Next]_vars => HubInv'
  BY RequestsKept, StoreKept, ClaimsKept, RoomStays, TakenKept DEF HubInv
<1> QED BY <1>1, HubInit, PTL DEF Spec

\* Every variable of the shared store stays in its type, within the bound on writes:
\* Put, CreateIfAbsent, Take, Get, Delete and GC write, delete and answer only with
\* whole Secrets they have read.
THEOREM HubTypeCorrect == Spec => []HubTypeOK
<1>1. ASSUME HubInv PROVE HubTypeOK
  <2>1. \A k \in Keys : writes[k] \in Nat /\ Cardinality(Busy(k)) \in Nat
                          /\ writes[k] + Cardinality(Busy(k)) =< MaxWrites
    BY <1>1, BusyFinite DEF HubInv, StoreOK, RoomKept
  <2>2. \A k \in Keys : writes[k] \in 0..MaxWrites
    BY <2>1, HubAssumption
  <2>3. writes \in [Keys -> 0..MaxWrites]
    BY <1>1, <2>2 DEF HubInv, StoreOK
  <2>4. \A k \in Proofs : claims[k] \in 0..MaxWrites
    BY <1>1, <2>2, HubAssumption DEF HubInv, ClaimsOK, Keys
  <2>5. claims \in [Proofs -> 0..MaxWrites]
    BY <1>1, <2>4 DEF HubInv, ClaimsOK
  <2>6. DOMAIN req = Callers /\ \A c \in Callers :
          /\ req[c] \in Request
          /\ req[c].seen # Absent <=> req[c].pc \in {"reap", "delete", "taken", "drop"}
    BY <1>1 DEF HubInv, RequestsOK, Sound, Carries
  <2>7. granted \subseteq Keys \X Entries
    BY <1>1 DEF HubInv, TakenOK
  <2> QED BY <1>1, <2>3, <2>5, <2>6, <2>7 DEF HubTypeOK, HubInv, StoreOK
<1> QED BY <1>1, HubInvariant, PTL

\* A proof is accepted for at most one mutating call (Consume), whatever replicas
\* verify it, claim it and sweep its claim, as long as a claim follows its
\* verification within the clock skew actionproof allows for.
THEOREM ProofIsUsedOnce == Spec => []ProofUsedOnce
<1>1. HubInv => ProofUsedOnce
  BY DEF HubInv, ClaimsOK, ProofUsedOnce
<1> QED BY <1>1, HubInvariant, PTL

\* Get's opportunistic delete and the sweep (GC) never remove a live record: what
\* disappears was taken or logged out, or has expired on the clock of the replica
\* that removes it.
THEOREM ReapedHasExpired == Spec => LiveIsNeverReaped
<1> DEFINE Reaped ==
      \A k \in Keys :
        api[k] # Absent /\ api'[k] = Absent =>
          \E c \in Callers :
            /\ req[c].key = k
            /\ req[c].pc \in {"delete", "remove"} \/ Expired(c, api[k])
<1>1. ASSUME HubInv, [Next]_vars PROVE Reaped
  <2>1. ASSUME NEW c \in Callers, Step(c) \/ Fails(c) PROVE Reaped
    <3>1. (UNCHANGED <<api, writes>>) \/ Wrote(c) \/ Removed(c)
      BY <1>1, <2>1, Hands DEF TookIt, AnsweredIt, HandsOff
    <3>2. CASE UNCHANGED <<api, writes>>
      BY <3>2
    <3>3. CASE Wrote(c)
      BY <1>1, <3>3, KeyEffects
    <3>4. CASE Removed(c)
      <4>1. \A k \in Keys : api'[k] = IF k = req[c].key THEN Absent ELSE api[k]
        BY <1>1, <3>4, KeyEffects
      <4>2. req[c].pc \in {"delete", "remove"} \/ Expired(c, api[req[c].key])
        BY <1>1, <3>4 DEF Removed, HubInv, RequestsOK, Sound, Carries
      <4> QED BY <4>1, <4>2
    <3> QED BY <3>1, <3>2, <3>3, <3>4
  <2>2. ASSUME NEW c \in Callers, Begun(c) PROVE Reaped
    BY <2>2 DEF Begun
  <2>3. CASE Tick \/ UNCHANGED vars
    BY <2>3 DEF Tick, vars
  <2> QED BY <1>1, <2>1, <2>2, <2>3, ServeShape, SweepBegins DEF Next, Callers
<1>2. HubInv /\ [Next]_vars => [Reaped]_vars
  BY <1>1
<1> QED BY <1>2, HubInvariant, PTL DEF Spec, LiveIsNeverReaped

\* The handlers on the shared store implement the one-time store (OneTimeStore):
\* every step of a replica is a Put, a Lose, a Take, a Grant or a Discard of it, or
\* leaves it alone, so a code is redeemed at most once.
THEOREM StoreIsOneTime == Spec => GrantedOnce
<1> DEFINE held == [c \in Callers |->
                      IF req[c].pc = "taken" THEN {<<req[c].key, req[c].seen>>} ELSE {}]
<1>1. Init => OneTime!Init
  BY DEF Init, OneTime!Init, Idle
<1>2. ASSUME HubInv, [Next]_vars
      PROVE  OneTime!Next \/ UNCHANGED <<api, held, granted>>
  <2>0. /\ DOMAIN req = Callers /\ \A c \in Callers : req[c] \in Request
        /\ api \in [Keys -> Entries] /\ writes \in [Keys -> Nat] /\ TakenOK
    BY <1>2 DEF HubInv, RequestsOK, Sound, Carries, StoreOK
  <2>a. api' \in [Keys -> Entries]
    BY <1>2, StoreKept DEF StoreOK
  <2>b. ASSUME NEW c \in Callers, NEW r, req' = [req EXCEPT ![c] = r], r.pc # "taken"
        PROVE  held' = [held EXCEPT ![c] = {}]
    BY <2>0, <2>b
  <2>1. ASSUME NEW c \in Callers, Step(c) \/ Fails(c)
        PROVE  OneTime!Next \/ UNCHANGED <<api, held, granted>>
    <3>k. PICK k \in Keys, e \in Entries : k = req[c].key /\ e = req[c].seen
      BY <2>0 DEF Request
    <3> USE <3>k
    <3>0. Removed(c) => api' = [api EXCEPT ![k] = Absent]
      BY <1>2, KeyEffects DEF Removed
    <3>1. CASE TookIt(c)
      <4>1. held[c] = {} /\ granted' = granted /\ Removed(c) /\ api[k] = e /\ e # Absent
        BY <3>1 DEF TookIt
      <4>2. req'[c].pc = "taken" /\ req'[c].key = k /\ req'[c].seen = e
        BY <2>0, <3>1 DEF TookIt, Request
      <4>3. \A d \in Callers : d # c => req'[d] = req[d]
        BY <2>0, <3>1 DEF TookIt
      <4>4. held' = [held EXCEPT ![c] = {<<k, api[k]>>}]
        BY <4>1, <4>2, <4>3
      <4>5. OneTime!Take(c, k)
        BY <3>0, <4>1, <4>4 DEF OneTime!Take
      <4> QED BY <3>0, <4>5 DEF OneTime!Next
    <3>2. CASE AnsweredIt(c)
      <4>1. held[c] = {<<k, e>>} /\ held' = [held EXCEPT ![c] = {}] /\ api' = api
        <5>1. Idle.pc # "taken"
          BY DEF Idle
        <5>2. held' = [held EXCEPT ![c] = {}]
          BY <2>b, <3>2, <5>1 DEF AnsweredIt
        <5> QED BY <3>2, <5>2 DEF AnsweredIt
      <4>2. <<k, e>> \notin granted
        BY <2>0, <3>2 DEF TakenOK, AnsweredIt
      <4>3. OneTime!Grant(c) \/ OneTime!Discard(c)
        BY <3>2, <4>1, <4>2 DEF AnsweredIt, OneTime!Grant, OneTime!Discard
      <4> QED BY <4>3 DEF OneTime!Next
    <3>3. CASE HandsOff(c)
      <4>1. PICK r : r.pc # "taken" /\ req' = [req EXCEPT ![c] = r]
        BY <3>3 DEF HandsOff
      <4>2. held' = held /\ granted' = granted
        BY <2>b, <3>3, <4>1 DEF HandsOff
      <4>3. CASE UNCHANGED api
        BY <4>2, <4>3
      <4>4. CASE Removed(c)
        <5>1. CASE api[k] = Absent
          BY <2>0, <3>0, <4>2, <4>4, <5>1
        <5>2. CASE api[k] # Absent
          BY <3>0, <4>2, <4>4, <5>2 DEF OneTime!Next, OneTime!Lose
        <5> QED BY <5>1, <5>2
      <4>5. CASE Wrote(c)
        <5>1. api' = [api EXCEPT ![k] = api'[k]]
          BY <2>0, <3>0, <4>5 DEF Wrote
        <5>2. api'[k] # Absent /\ api'[k].ver > writes[k]
          BY <2>0, <3>0, <4>5 DEF Wrote, Absent
        <5>3. ASSUME NEW g \in granted PROVE g # <<k, api'[k]>>
          <6>1. g[2].ver =< writes[g[1]] /\ g[2].ver \in Nat /\ g[1] \in Keys
            BY <2>0, HubAssumption DEF TakenOK, Entries
          <6>2. api'[k].ver \in Nat /\ writes[k] \in Nat
            BY <2>0, <2>a, <3>0, HubAssumption DEF Entries
          <6> QED BY <5>2, <6>1, <6>2
        <5>4. ASSUME NEW d \in Callers PROVE <<k, api'[k]>> \notin held[d]
          <6>1. CASE req[d].pc = "taken"
            <7>1. req[d].seen.ver =< writes[req[d].key] /\ req[d].seen.ver \in Nat /\ req[d].key \in Keys
              <8>1. req[d].seen \in Entries /\ req[d].key \in Keys
                BY <2>0 DEF Request
              <8>2. req[d].seen.ver \in Nat
                BY <8>1, HubAssumption DEF Entries
              <8> QED BY <2>0, <6>1, <8>1, <8>2 DEF TakenOK
            <7>2. api'[k].ver \in Nat /\ writes[k] \in Nat
              BY <2>0, <2>a, <3>0, HubAssumption DEF Entries
            <7>3. req[d].key = k => req[d].seen # api'[k]
              BY <5>2, <7>1, <7>2
            <7>4. held[d] = {<<req[d].key, req[d].seen>>}
              BY <6>1
            <7> QED BY <7>3, <7>4
          <6>2. CASE req[d].pc # "taken"
            BY <6>2
          <6> QED BY <6>1, <6>2
        <5>5. <<k, api'[k]>> \notin granted \cup UNION {held[d] : d \in Callers}
          <6> HIDE DEF held
          <6> QED BY <5>3, <5>4
        <5>6. api'[k] \in Entries \ {Absent}
          BY <2>a, <5>2
        <5>7. OneTime!Put(k)
          BY <4>2, <5>1, <5>5, <5>6 DEF OneTime!Put
        <5> QED BY <5>7 DEF OneTime!Next
      <4> QED BY <3>3, <4>3, <4>4, <4>5 DEF HandsOff
    <3> QED BY <1>2, <2>1, <3>1, <3>2, <3>3, Hands
  <2>2. ASSUME NEW c \in Callers, Begun(c) PROVE UNCHANGED <<api, held, granted>>
    <3>1. PICK r : r.pc # "taken" /\ req' = [req EXCEPT ![c] = r]
      BY <2>2 DEF Begun
    <3>2. req[c].pc # "taken"
      BY <2>2 DEF Begun
    <3> QED BY <2>2, <2>b, <3>1, <3>2 DEF Begun
  <2>3. CASE Tick \/ UNCHANGED vars
    BY <2>3 DEF Tick, vars
  <2> QED BY <1>2, <2>1, <2>2, <2>3, ServeShape, SweepBegins DEF Next, Callers
<1>3. HubInv /\ [Next]_vars => [OneTime!Next]_<<api, held, granted>>
  BY <1>2
<1> QED BY <1>1, <1>3, HubInvariant, PTL DEF Spec, GrantedOnce, OneTime!Spec
=============================================================================
