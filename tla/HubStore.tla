------------------------------- MODULE HubStore -------------------------------
(***************************************************************************)
(* The hub's shared store of short-lived login state                       *)
(* (src/pkg/hub/sharedstore) and the request handlers of several replicas  *)
(* that use it: app authorization codes (appauth), browser sessions        *)
(* (browsersession) and uses of action proofs (actionproof, hubaccess),    *)
(* together with the sweep of expired entries.  A step is one call to the  *)
(* Kubernetes API, which is external: every call may fail, with or without *)
(* having been applied.                                                    *)
(***************************************************************************)
EXTENDS Naturals, FiniteSets

CONSTANTS
  Handlers,   \* request handlers, on whichever replica
  Sweepers,   \* RunGC goroutines: the leader's, and one of the last term
  Codes,      \* keys of the three collections
  Sessions,
  Proofs,
  Ahead,      \* how far the clock of a caller's replica runs ahead
  TTL,        \* life of a record
  Skew,       \* actionproof's maxClockSkew
  MaxHold,    \* bound: longest time from Verify to the claim of a proof
  MaxTime,    \* bound: the clock
  MaxWrites,  \* bound: times one key is written, counting writes under way
  MaxFaults   \* bound: API calls that fail

Callers == Handlers \cup Sweepers
Keys == Codes \cup Sessions \cup Proofs

ASSUME HubAssumption ==
  /\ TTL \in Nat \ {0} /\ Skew \in Nat /\ MaxHold \in Nat
  /\ MaxTime \in Nat /\ MaxWrites \in Nat /\ MaxFaults \in Nat
  /\ Ahead \in [Callers -> Nat]
  /\ \A c \in Callers : MaxHold + Ahead[c] =< Skew
  /\ Handlers \cap Sweepers = {} /\ IsFiniteSet(Handlers) /\ Keys # {}
  /\ Codes \cap Sessions = {} /\ Codes \cap Proofs = {} /\ Sessions \cap Proofs = {}

VARIABLES
  used,     \* the collection the requests of this behaviour are about: no
            \* operation touches two, so each is explored by itself
  now,      \* true time
  api,      \* the Secret stored under each key
  writes,   \* times a key was written: the next resource version
  req,      \* what each caller is doing
  granted,  \* records an exchange answered with
  claims,   \* times a proof was accepted for a mutating call
  faults

vars == <<used, now, api, writes, req, granted, claims, faults>>

\* A Secret: its resource version, which also stands for its UID and its value,
\* and the expiry stamp.
Entries == [ver : 0..MaxWrites, exp : 0..(MaxTime + TTL + 2 * Skew)]
Absent == [ver |-> 0, exp |-> 0]

Ops == {"none", "mint", "issue", "resolve", "logout", "exchange", "identity",
        "prove", "sweep"}
Steps == {"idle", "peek", "reap", "checks", "get", "delete", "taken",
          "admit", "create", "update", "remove", "next", "drop"}

\* A call in progress: the Secret last read, the one Peek inspected, the expiry
\* it will write, the verdict of the checks, when it began, what List returned.
Request ==
  [op : Ops, pc : Steps, key : Keys, seen : Entries, base : Entries,
   exp : Nat, ok : BOOLEAN, at : 0..MaxTime, list : SUBSET (Keys \X Entries)]

Clock(c) == now + Ahead[c]

Expired(c, e) == e.exp =< Clock(c)

Idle == [op |-> "none", pc |-> "idle", seen |-> Absent, base |-> Absent,
         exp |-> 0, ok |-> TRUE, at |-> 0, list |-> {},
         key |-> CHOOSE k \in Keys : TRUE]

Init ==
  /\ used \in {Codes, Sessions, Proofs}
  /\ now = 0
  /\ api = [k \in Keys |-> Absent]
  /\ writes = [k \in Keys |-> 0]
  /\ req = [c \in Callers |-> Idle]
  /\ granted = {}
  /\ claims = [k \in Proofs |-> 0]
  /\ faults = 0

(***************************************************************************)
(* The Secrets API as the store uses it (external).                        *)
(***************************************************************************)
Stored(k, exp) == [api EXCEPT ![k] = [ver |-> writes[k] + 1, exp |-> exp]]

SameName(k, e) == api[k] # Absent

\* The precondition of deleteExact: the UID and the resource version it read.
Same(k, e) == api[k] = e

DeleteExact(k, e) == IF Same(k, e) THEN [api EXCEPT ![k] = Absent] ELSE api

\* Whether the call r is about to make writes a Secret.
Writes(r) ==
  \/ r.pc = "create" /\ api[r.key] = Absent
  \/ r.pc = "update" /\ api[r.key] # Absent

\* The Secrets after the call r is about to make.
ApiAfter(r) ==
  CASE Writes(r) -> Stored(r.key, r.exp)
    [] r.pc \in {"reap", "delete", "drop"} -> DeleteExact(r.key, r.seen)
    [] r.pc = "remove" -> [api EXCEPT ![r.key] = Absent]
    [] OTHER -> api

Applied(r) ==
  /\ api' = ApiAfter(r)
  /\ writes' = IF Writes(r) THEN [writes EXCEPT ![r.key] = @ + 1] ELSE writes

Goes(c, r) == req' = [req EXCEPT ![c] = r]

Ends(c) == Goes(c, Idle)

Rest == UNCHANGED <<used, now, granted, claims, faults>>

\* The caller c makes the API call of its step, which is answered.
Call(c, pc) == req[c].pc = pc /\ Applied(req[c])

(***************************************************************************)
(* The requests a handler may begin.                                       *)
(***************************************************************************)
\* The bound on writes leaves room for one more request that writes k.
Room(k) ==
  writes[k] + Cardinality({c \in Handlers :
                             req[c].key = k /\ req[c].op \in {"mint", "issue", "prove"}})
    < MaxWrites

Begin(c, op, pc, k, exp) ==
  /\ req[c].pc = "idle"
  /\ Goes(c, [Idle EXCEPT !.op = op, !.pc = pc, !.key = k, !.exp = exp])
  /\ UNCHANGED <<api, writes>>
  /\ Rest

\* Put of a new authorization code.
Mint(c) ==
  \E k \in Codes \cap used : Room(k) /\ Begin(c, "mint", "create", k, Clock(c) + TTL)

\* issueWithTTL looks the handle up before it stores the session.
Issue(c) ==
  \E k \in Sessions \cap used : Room(k) /\ Begin(c, "issue", "peek", k, Clock(c) + TTL)

Resolve(c) == \E k \in Sessions \cap used : Begin(c, "resolve", "peek", k, 0)

Logout(c) == \E k \in Sessions \cap used : Begin(c, "logout", "remove", k, 0)

Exchange(c) == \E k \in Codes \cap used : Begin(c, "exchange", "get", k, 0)

IdentityExchange(c) == \E k \in Codes \cap used : Begin(c, "identity", "peek", k, 0)

\* The proofs of the model are signed at time 0.
ProofExpiry == TTL

AcceptedUntilExpiry == ProofExpiry

AcceptedUntil == ProofExpiry + Skew

\* Verify: the proof has not expired on this replica's clock.
Verify(c) ==
  /\ ProofExpiry > Clock(c)
  /\ req[c].pc = "idle"
  /\ \E k \in Proofs \cap used :
       Room(k) /\ Goes(c, [Idle EXCEPT !.op = "prove", !.pc = "admit", !.key = k, !.at = now])
  /\ UNCHANGED <<api, writes>>
  /\ Rest

(***************************************************************************)
(* Store.Get, as Resolve, Issue and Peek use it.                           *)
(***************************************************************************)
\* What follows when Get reports ErrNotFound.
NotFound(c) ==
  IF req[c].op = "issue" THEN Goes(c, [req[c] EXCEPT !.pc = "create", !.seen = Absent])
                         ELSE Ends(c)

\* An expired entry is deleted on the way, whatever comes of the delete.
Get(c) ==
  LET e == api[req[c].key] IN
  /\ Call(c, "peek")
  /\ \/ e = Absent /\ NotFound(c)
     \/ e # Absent /\ Expired(c, e)
        /\ Goes(c, [req[c] EXCEPT !.pc = "reap", !.seen = e])
     \/ e # Absent /\ ~Expired(c, e)
        /\ IF req[c].op = "identity"
             THEN Goes(c, [req[c] EXCEPT !.pc = "checks", !.base = e])
             ELSE Ends(c)
  /\ Rest

Reap(c) == Call(c, "reap") /\ NotFound(c) /\ Rest

\* HandleIdentityExchange between Peek and Take: a dependency is unavailable and
\* the code stays, or the checks have a verdict and the code is consumed.
Checks(c) ==
  /\ req[c].pc = "checks"
  /\ \/ Ends(c)
     \/ \E ok \in BOOLEAN : Goes(c, [req[c] EXCEPT !.pc = "get", !.ok = ok])
  /\ UNCHANGED <<api, writes>>
  /\ Rest

(***************************************************************************)
(* Store.Take.                                                             *)
(***************************************************************************)
TakeReadsAnyway(c) ==
  /\ Call(c, "get")
  /\ Goes(c, [req[c] EXCEPT !.pc = "delete", !.seen = api[req[c].key]])
  /\ Rest

TakeReads(c) ==
  LET e == api[req[c].key] IN
  /\ Call(c, "get")
  /\ IF e = Absent THEN Ends(c)
                   ELSE Goes(c, [req[c] EXCEPT !.pc = "delete", !.seen = e])
  /\ Rest

TakeDeletes(c) ==
  /\ Call(c, "delete")
  /\ IF Same(req[c].key, req[c].seen)
       THEN Goes(c, [req[c] EXCEPT !.pc = "taken"])
       ELSE Ends(c)
  /\ Rest

\* sameIdentityCodeRecord, and the verdict of the checks.
SameRecord(r) == r.op = "identity" => r.ok /\ r.seen = r.base

\* The taken record answers the exchange, unless it has expired, is not the one
\* that was inspected, or is bound to other coordinates.
Answer(c) ==
  LET r == req[c] IN
  /\ r.pc = "taken"
  /\ \/ /\ ~Expired(c, r.seen) /\ SameRecord(r)
        /\ granted' = granted \cup {<<r.key, r.seen>>}
     \/ UNCHANGED granted
  /\ Ends(c)
  /\ UNCHANGED <<used, now, api, writes, claims, faults>>

(***************************************************************************)
(* Store.Put, CreateIfAbsent and Delete.                                   *)
(***************************************************************************)
\* Consume refuses a proof that no verifier accepts any more.
Admit(c) ==
  /\ req[c].pc = "admit"
  /\ IF Clock(c) < AcceptedUntil
       THEN Goes(c, [req[c] EXCEPT !.pc = "create", !.exp = AcceptedUntil])
       ELSE Ends(c)
  /\ UNCHANGED <<api, writes>>
  /\ Rest

\* Create: Put goes on to Update when the name is taken, a claim does not.
Create(c) ==
  LET r == req[c]  new == Writes(r) IN
  /\ Call(c, "create")
  /\ IF ~new /\ r.op # "prove" THEN Goes(c, [r EXCEPT !.pc = "update"]) ELSE Ends(c)
  /\ claims' = IF new /\ r.op = "prove" THEN [claims EXCEPT ![r.key] = @ + 1] ELSE claims
  /\ UNCHANGED <<used, now, granted, faults>>

\* Update of a Secret that is gone again is an error.
Update(c) == Call(c, "update") /\ Ends(c) /\ Rest

Delete(c) == Call(c, "remove") /\ Ends(c) /\ Rest

(***************************************************************************)
(* GC, once per collection.                                                *)
(***************************************************************************)
Listed(collection) == {<<k, api[k]>> : k \in {x \in collection : api[x] # Absent}}

SweepLoginState(c, collection) ==
  /\ req[c].pc = "idle"
  /\ Goes(c, [Idle EXCEPT !.op = "sweep", !.pc = "next",
                !.list = Listed(collection \ Proofs)])
  /\ UNCHANGED <<api, writes>>
  /\ Rest

Sweep(c, collection) ==
  /\ req[c].pc = "idle"
  /\ Goes(c, [Idle EXCEPT !.op = "sweep", !.pc = "next",
                !.list = Listed(collection)])
  /\ UNCHANGED <<api, writes>>
  /\ Rest

\* The next listed entry: passed over, or deleted if it has expired.
SweepNext(c) ==
  LET r == req[c] IN
  /\ r.pc = "next"
  /\ \/ r.list = {} /\ Ends(c)
     \/ \E i \in r.list :
          LET left == [r EXCEPT !.list = @ \ {i}] IN
          IF Expired(c, i[2])
            THEN Goes(c, [left EXCEPT !.pc = "drop", !.key = i[1], !.seen = i[2]])
            ELSE Goes(c, left)
  /\ UNCHANGED <<api, writes>>
  /\ Rest

SweepDeletes(c) ==
  /\ Call(c, "drop")
  /\ Goes(c, [req[c] EXCEPT !.pc = "next", !.key = Idle.key, !.seen = Absent])
  /\ Rest

(***************************************************************************)
(* An API call fails, applied or not.  Only Get ignores the error of its   *)
(* delete; every other operation reports it and the request ends.          *)
(***************************************************************************)
Fails(c) ==
  /\ req[c].pc \in {"peek", "reap", "get", "delete", "create", "update", "remove", "drop"}
  /\ faults < MaxFaults
  /\ faults' = faults + 1
  /\ Applied(req[c]) \/ UNCHANGED <<api, writes>>
  /\ IF req[c].pc = "reap" THEN NotFound(c) ELSE Ends(c)
  /\ UNCHANGED <<used, now, granted, claims>>

\* Time passes; a request that verified a proof is not held up for long.
Tick ==
  /\ now < MaxTime
  /\ \A c \in Handlers : req[c].op = "prove" => now < req[c].at + MaxHold
  /\ now' = now + 1
  /\ UNCHANGED <<used, api, writes, req, granted, claims, faults>>

Serve(c) ==
  \/ Mint(c) \/ Issue(c) \/ Resolve(c) \/ Logout(c) \/ Exchange(c)
  \/ IdentityExchange(c) \/ Verify(c)

Step(c) ==
  \/ Get(c) \/ Reap(c) \/ Checks(c) \/ TakeReads(c) \/ TakeDeletes(c) \/ Answer(c)
  \/ Admit(c) \/ Create(c) \/ Update(c) \/ Delete(c) \/ SweepNext(c) \/ SweepDeletes(c)

Next ==
  \/ \E c \in Handlers : Serve(c)
  \/ \E c \in Callers : Step(c) \/ Fails(c)
  \/ \E c \in Sweepers : Sweep(c, used)
  \/ Tick

Spec == Init /\ [][Next]_vars

\* Every call is answered, time passes, and the leader's ticker keeps
\* sweeping.
FairSpec ==
  /\ Spec
  /\ WF_vars(Tick)
  /\ \A c \in Callers : WF_vars(Step(c) \/ Fails(c))
  /\ \A c \in Sweepers : WF_vars(Sweep(c, used))

(***************************************************************************)
(* Properties.                                                             *)
(***************************************************************************)
\* Every variable stays in its type, a key never holds a version that was not
\* written, and a caller deletes or answers with nothing it has not read.
HubTypeOK ==
  /\ now \in 0..MaxTime /\ faults \in 0..MaxFaults
  /\ api \in [Keys -> Entries]
  /\ writes \in [Keys -> 0..MaxWrites]
  /\ \A k \in Keys : api[k].ver =< writes[k]
  /\ DOMAIN req = Callers /\ \A c \in Callers : req[c] \in Request
  /\ \A c \in Callers :
       req[c].seen # Absent <=> req[c].pc \in {"reap", "delete", "taken", "drop"}
  /\ granted \subseteq Keys \X Entries
  /\ claims \in [Proofs -> 0..MaxWrites]

\* The handlers on the store implement the one-time store: a record Take
\* answered with is in nobody else's hands and is granted at most once, whichever
\* replicas redeem it and whatever replaces it meanwhile.
OneTime ==
  INSTANCE OneTimeStore WITH
    store <- api,
    held <- [c \in Callers |->
               IF req[c].pc = "taken" THEN {<<req[c].key, req[c].seen>>} ELSE {}]

GrantedOnce == OneTime!Spec

\* The opportunistic delete of Get and the sweep remove what has expired on the
\* replica that removes it, never the live record that took its place.
LiveIsNeverReaped ==
  [][\A k \in Keys :
       api[k] # Absent /\ api'[k] = Absent =>
         \E c \in Callers :
           /\ req[c].key = k
           /\ req[c].pc \in {"delete", "remove"} \/ Expired(c, api[k])]_vars

\* A proof is accepted for one mutating call, although its claim is swept: the
\* claim is kept until no replica can still be about to claim it.
ProofUsedOnce == \A k \in Proofs : claims[k] =< 1

\* An entry of any collection that has expired on the sweeping replica's clock is
\* removed, even if nobody asks for it again and a sweep failed on the way.
ExpiredIsReclaimed ==
  \A k \in Keys :
    (api[k] # Absent /\ \E c \in Sweepers : Expired(c, api[k]))
      ~> (api[k] = Absent \/ \E c \in Sweepers : ~Expired(c, api[k]))

\* Expiry removes what has expired, and nothing that is alive.
ExpiryIsExact == LiveIsNeverReaped /\ ExpiredIsReclaimed
=============================================================================
