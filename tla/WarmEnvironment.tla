--------------------------- MODULE WarmEnvironment ---------------------------
(***************************************************************************)
(* Warm environments of the local runner (pkg/runner/environment.go): a    *)
(* prepared checkout with a running development stack that outlives the    *)
(* attempt it was made for and is leased, one attempt at a time, to the    *)
(* next attempts that name the same environment ID.                        *)
(*                                                                         *)
(* Runner.mu serialises the handlers.  It is released while a checkout is  *)
(* hashed, and the prepare hook, the harness and the cleanup hook run      *)
(* without it; those are the steps that interleave here.  An attempt is    *)
(* reduced to its life (RunnerAttempts has the engine) and to the fields   *)
(* that decide who cleans its stack up.  Every attempt here names an       *)
(* environment and its repository opts in to warm environments.            *)
(***************************************************************************)
EXTENDS Naturals, FiniteSets

CONSTANTS
    Attempts,     \* attempt IDs; a checkout is named after its first attempt
    EnvIDs,       \* environment IDs
    EnvOf,        \* EnvOf[a]: the EnvironmentID of a's start request
    None,         \* no environment, verification or directory
    MaxHookRuns,  \* cleanup runs an attempt gets (3 in the code)
    Faults,       \* what may fail: "inputs", "append", "save", "launch",
                  \* "fingerprint", "reset", "prepare", "hook"
    Crashes,      \* whether the process may die
    MaxFaults     \* bound: failing writes and crashes of one behaviour

ASSUME WarmAssumption ==
    /\ EnvOf \in [Attempts -> EnvIDs]
    /\ None \notin Attempts
    /\ MaxHookRuns \in Nat \ {0}
    /\ MaxFaults \in Nat
    /\ Crashes \in BOOLEAN

VARIABLES
    att,       \* Runner.state.Attempts
    env,       \* Runner.state.Environments
    disk,      \* both as state.json has them
    verify,    \* the fingerprint calls in progress; env.checking
    exec,      \* the execute goroutines
    tree,      \* files and HEAD of every checkout
    pending,   \* attempts whose cleanup runner.New has yet to schedule
    budget,    \* failing writes and crashes that are left
    stack,     \* observer: what cleanup hooks have done to each checkout's stack
    used,      \* observer: checkouts a harness has worked in
    prepared   \* observer: the attempt each checkout is prepared for

observers == <<stack, used, prepared>>
vars == <<att, env, disk, verify, exec, tree, pending, budget, observers>>

-----------------------------------------------------------------------------
(* Records                                                                 *)

\* Two contents are enough to tell a changed checkout from an unchanged one; what
\* an execution leaves behind is called "one".
Trees == {"one", "other"}
Rewritten(t) == IF t = "one" THEN "other" ELSE "one"

Absent == [phase |-> "absent", dir |-> None, delegated |-> FALSE, done |-> FALSE,
           tries |-> 0, hook |-> FALSE]

AttemptRecords ==
    [phase : {"absent", "accepted", "active", "parked", "over", "dropped"},
     dir : Attempts \cup {None}, delegated : BOOLEAN, done : BOOLEAN,
     tries : 0..MaxHookRuns, hook : BOOLEAN]

\* warmEnvironment.  "held" is a zero ReleasedAt, "due" a passed ExpiresAt.
Leases ==
    [owner : Attempts, dir : Attempts, print : Trees,
     time : {"held", "idle", "due"}, evicting : BOOLEAN, prepare : BOOLEAN]

NewLease(a) == [owner |-> a, dir |-> a, print |-> "one", time |-> "held",
                evicting |-> FALSE, prepare |-> FALSE]

Verifications == [by : {"start", "retain"}, who : Attempts,
                  seen : Trees \cup {"unread", "error"}]

ASSUME NoneAssumption == None \notin Leases \cup Verifications

Init ==
    /\ att = [a \in Attempts |-> Absent]
    /\ env = [e \in EnvIDs |-> None]
    /\ disk = [att |-> att, env |-> env]
    /\ verify = [e \in EnvIDs |-> None]
    /\ exec = [a \in Attempts |-> "none"]
    /\ tree = [d \in Attempts |-> "one"]
    /\ pending = {}
    /\ budget = MaxFaults
    /\ stack = [d \in Attempts |-> "intact"]
    /\ used = {}
    /\ prepared = [d \in Attempts |-> d]

-----------------------------------------------------------------------------
(* What handlers share                                                     *)

Up == pending = {}

Checking == {e \in EnvIDs : verify[e] # None}

Idle(en) == {e \in EnvIDs : en[e] # None /\ en[e].time # "held"}

\* activeCountLocked against MaximumCapacity = 1: parked attempts do not count.
CapacityFree(at) == \A a \in Attempts : at[a].phase \notin {"accepted", "active"}

\* Variant: the eviction of a lease is not saved either.
ImageWithoutEvicting(at, en) ==
    [att |-> [a \in Attempts |-> [at[a] EXCEPT !.hook = FALSE]],
     env |-> [e \in EnvIDs |-> IF en[e] = None THEN None
                               ELSE [en[e] EXCEPT !.evicting = FALSE]]]

\* stateStore.save leaves out cleanupRunning; checking is not part of env.
Image(at, en) == [att |-> [a \in Attempts |-> [at[a] EXCEPT !.hook = FALSE]],
                  env |-> en]

MayFail(f) == f \in Faults /\ budget > 0

\* The results of the saves of one handler, which fail together or not at all.
Saves == {TRUE} \cup (IF MayFail("save") THEN {FALSE} ELSE {})

Charged(ok) == budget' = IF ok THEN budget ELSE budget - 1

\* Variant: one run too many.
HookDueOnceMore(at, a) ==
    /\ at[a].phase = "over"
    /\ ~at[a].delegated
    /\ ~at[a].done
    /\ ~at[a].hook
    /\ at[a].dir # None
    /\ at[a].tries <= MaxHookRuns

\* scheduleCleanupLocked, after the lease has refused to keep the stack.
HookDue(at, a) ==
    /\ at[a].phase = "over"
    /\ ~at[a].delegated
    /\ ~at[a].done
    /\ ~at[a].hook
    /\ at[a].dir # None
    /\ at[a].tries < MaxHookRuns

HooksStarted(at, S) ==
    [a \in Attempts |-> IF a \in S
        THEN [at[a] EXCEPT !.hook = TRUE, !.tries = @ + 1]
        ELSE at[a]]

Torn(at, S) == [d \in Attempts |->
                    IF \E a \in S : at[a].dir = d THEN "torn" ELSE stack[d]]

Evicted(en, S) ==
    [e \in EnvIDs |-> IF e \in S THEN [en[e] EXCEPT !.evicting = TRUE] ELSE en[e]]

\* The owners of evicted leases whose cleanup hook starts.
EvictedOwners(at, en, S) == {a \in Attempts : HookDue(at, a) /\ \E e \in S : en[e].owner = a}

\* The leases of S are evicted; a hook starts only once the save has recorded it.
EvictAll(S) ==
    LET hooks == EvictedOwners(att, env, S)
    IN \E ok \in (IF hooks = {} THEN {TRUE} ELSE Saves) :
        /\ env' = Evicted(env, S)
        /\ att' = IF ok THEN HooksStarted(att, hooks) ELSE att
        /\ disk' = IF ok /\ hooks # {} THEN Image(att', env') ELSE disk
        /\ stack' = IF ok THEN Torn(att, hooks) ELSE stack
        /\ Charged(ok)

\* Variant: without the fence.
EvictUnfenced(S) == EvictAll(S)

\* evictEnvironmentLocked: a lease under verification is left alone.
Evict(S) == EvictAll(S \ Checking)

Owns(en, a) == en[EnvOf[a]] # None /\ en[EnvOf[a]].owner = a

\* retainEnvironmentLocked of an attempt that is over: its lease keeps the stack
\* while it is idle or being verified, and is hashed when it is held; it is no
\* obstacle to cleanup when it is evicted or gone.
LeaseKeeps(en, ver, a) ==
    Owns(en, a) /\ (ver[EnvOf[a]] # None \/ ~en[EnvOf[a]].evicting)

Hashes(en, ver, a) ==
    LeaseKeeps(en, ver, a) /\ ver[EnvOf[a]] = None /\ en[EnvOf[a]].time = "held"

\* scheduleCleanupLocked of attempt a, in a handler that has turned attempts,
\* leases and verifications into at, en and ver; saved says whether the handler
\* has a save of its own before it.
Schedule(a, at, en, ver, saved) ==
    LET due  == {x \in {a} : HookDue(at, x) /\ ~LeaseKeeps(en, ver, x)}
        hash == at[a].phase = "over" /\ ~at[a].delegated /\ Hashes(en, ver, a)
    IN \E ok \in (IF saved \/ due # {} THEN Saves ELSE {TRUE}) :
        /\ att' = IF ok THEN HooksStarted(at, due) ELSE at
        /\ env' = en
        /\ disk' = IF ok /\ (saved \/ due # {}) THEN Image(att', en) ELSE disk
        /\ stack' = IF ok THEN Torn(at, due) ELSE stack
        /\ verify' = IF hash
            THEN [ver EXCEPT ![EnvOf[a]] = [by |-> "retain", who |-> a, seen |-> "unread"]]
            ELSE ver
        /\ Charged(ok)

-----------------------------------------------------------------------------
(* Start                                                                   *)

\* execute begins with prepareLeasedEnvironment.
Launched(en, a) == IF Owns(en, a) /\ en[EnvOf[a]].prepare THEN "prepare" ELSE "harness"

\* Start after prepareEnvironmentLocked has made a the owner of lease L (at is
\* att with the prior owner delegated): staged inputs, acceptance, save, launch,
\* and what each leaves behind when it fails.  Undone is the lease an
\* acceptance that fails puts back.
Accept(a, at, L, undone) ==
    LET en    == [env EXCEPT ![EnvOf[a]] = L]
        As(p) == [at EXCEPT ![a] = [Absent EXCEPT !.phase = p, !.dir = L.dir]]
    IN \/ /\ att' = As("active")
          /\ env' = en
          /\ disk' = Image(att', en)
          /\ exec' = [exec EXCEPT ![a] = Launched(en, a)]
          /\ used' = IF Launched(en, a) = "harness" THEN used \cup {L.dir} ELSE used
          /\ UNCHANGED budget
       \/ /\ MayFail("inputs")
          /\ att' = at
          /\ env' = en
          /\ Charged(FALSE)
          /\ UNCHANGED <<disk, exec, used>>
       \/ /\ MayFail("append")
          /\ env' = [env EXCEPT ![EnvOf[a]] = undone]
          /\ Charged(FALSE)
          /\ UNCHANGED <<att, disk, exec, used>>
       \/ \E saved \in BOOLEAN :
          /\ MayFail(IF saved THEN "launch" ELSE "save")
          /\ att' = As("accepted")
          /\ env' = en
          /\ disk' = IF saved THEN Image(att', en) ELSE disk
          /\ Charged(FALSE)
          /\ UNCHANGED <<exec, used>>

\* A start that is admitted as far as prepareEnvironmentLocked.
Admitted(a) ==
    /\ Up
    /\ att[a].phase = "absent"
    /\ CapacityFree(att)
    /\ Checking = {}

\* The environment is new: an idle one is evicted first and the start refused ...
StartMakesRoom(a) ==
    /\ Admitted(a)
    /\ env[EnvOf[a]] = None
    /\ \E e \in Idle(env) : Evict({e})
    /\ UNCHANGED <<verify, exec, tree, pending, used, prepared>>

\* ... or there is none, and a checkout is cloned and leased.
StartCreates(a) ==
    /\ Admitted(a)
    /\ env[EnvOf[a]] = None
    /\ Idle(env) = {}
    /\ Accept(a, att, NewLease(a), None)
    /\ UNCHANGED <<verify, tree, pending, stack, prepared>>

\* The environment is idle and has expired, or the request does not fit it
\* (repository, remote, base or policy): evicted, start refused.
StartEvicts(a) ==
    /\ Admitted(a)
    /\ EnvOf[a] \in Idle(env)
    /\ ~env[EnvOf[a]].evicting
    /\ Evict({EnvOf[a]})
    /\ UNCHANGED <<verify, exec, tree, pending, used, prepared>>

\* The environment is idle and fits: the mutex is released to hash the checkout.
StartVerifies(a) ==
    /\ Admitted(a)
    /\ EnvOf[a] \in Idle(env)
    /\ ~env[EnvOf[a]].evicting
    /\ env[EnvOf[a]].time = "idle"
    /\ verify' = [verify EXCEPT ![EnvOf[a]] =
                    [by |-> "start", who |-> a, seen |-> "unread"]]
    /\ UNCHANGED <<att, env, disk, exec, tree, pending, budget, observers>>

\* environmentFingerprint, without the mutex: time limit, size limit and I/O
\* errors are one failure.
Fingerprint(e) ==
    /\ verify[e] # None
    /\ verify[e].seen = "unread"
    /\ \E seen \in {tree[env[e].dir]} \cup
                   (IF "fingerprint" \in Faults THEN {"error"} ELSE {}) :
            verify' = [verify EXCEPT ![e].seen = seen]
    /\ UNCHANGED <<att, env, disk, exec, tree, pending, budget, observers>>

\* Variant: any checkout that can be hashed is reused.
MatchesAny(L, seen) == seen # "error"

\* Fingerprint and HEAD are those of the release.
Matches(L, seen) == seen = L.print

\* What Start has to check again once it has the mutex back.
StillAdmitted(a) == att[a].phase = "absent" /\ CapacityFree(att)

\* Variant: the new owner does not know that it has to prepare the checkout.
TransferredAsPrepared(L, a) == [L EXCEPT !.owner = a, !.time = "held"]

\* The lease in the hands of its next owner.
Transferred(L, a) == [L EXCEPT !.owner = a, !.time = "held", !.prepare = TRUE]

\* The start that has hashed environment e goes on: it is refused because the
\* runner has changed meanwhile ...
StartRefused(e) ==
    /\ verify[e] # None
    /\ verify[e].by = "start"
    /\ verify[e].seen # "unread"
    /\ \/ ~StillAdmitted(verify[e].who)
       \/ Matches(env[e], verify[e].seen) /\ "reset" \in Faults
    /\ verify' = [verify EXCEPT ![e] = None]
    /\ UNCHANGED <<att, env, disk, exec, tree, pending, budget, observers>>

\* ... or because the checkout has; then the lease is evicted ...
StartFindsChange(e) ==
    /\ verify[e] # None
    /\ verify[e].by = "start"
    /\ verify[e].seen # "unread"
    /\ StillAdmitted(verify[e].who)
    /\ ~Matches(env[e], verify[e].seen)
    /\ verify' = [verify EXCEPT ![e] = None]
    /\ EvictAll({e})
    /\ UNCHANGED <<exec, tree, pending, used, prepared>>

\* ... or HEAD is reset to the request's base and the lease changes hands.
StartTransfers(e) ==
    /\ verify[e] # None
    /\ verify[e].by = "start"
    /\ verify[e].seen # "unread"
    /\ StillAdmitted(verify[e].who)
    /\ Matches(env[e], verify[e].seen)
    /\ verify' = [verify EXCEPT ![e] = None]
    /\ \E t \in Trees : tree' = [tree EXCEPT ![env[e].dir] = t]
    /\ LET a     == verify[e].who
           prior == env[e].owner
       IN Accept(a, [att EXCEPT ![prior].delegated = TRUE],
                 Transferred(env[e], a), [env[e] EXCEPT !.evicting = TRUE])
    /\ UNCHANGED <<pending, stack, prepared>>

-----------------------------------------------------------------------------
(* The life of an attempt                                                  *)

\* A repeated start of an accepted attempt, or a resume of a parked one.
Launch(a) ==
    /\ Up
    /\ \/ att[a].phase = "accepted"
       \/ att[a].phase = "parked" /\ CapacityFree(att)
    /\ \E ok \in {TRUE} \cup (IF MayFail("launch") THEN {FALSE} ELSE {}) :
        /\ att' = [att EXCEPT ![a].phase = IF ok THEN "active" ELSE "accepted"]
        /\ disk' = IF ok THEN Image(att', env) ELSE disk
        /\ exec' = IF ok THEN [exec EXCEPT ![a] = Launched(env, a)] ELSE exec
        /\ used' = IF ok /\ Launched(env, a) = "harness"
                   THEN used \cup {att[a].dir} ELSE used
        /\ Charged(ok)
    /\ UNCHANGED <<env, verify, tree, pending, stack, prepared>>

\* The prepare hook ends: it has succeeded, failed, or was cancelled with the
\* attempt.  An error of the hook or of the save ends the execution.
PrepareEnds(a) ==
    /\ exec[a] = "prepare"
    /\ \E out \in {"ok", "cancelled"} \cup (IF "prepare" \in Faults THEN {"failed"} ELSE {}),
          ok \in Saves :
        /\ env' = [env EXCEPT ![EnvOf[a]].prepare = @ /\ out # "ok",
                              ![EnvOf[a]].evicting = @ \/ out = "failed"]
        /\ disk' = IF ok THEN Image(att, env') ELSE disk
        /\ exec' = [exec EXCEPT ![a] = IF ok /\ out = "ok" THEN "harness" ELSE "failed"]
        /\ prepared' = IF out = "ok" THEN [prepared EXCEPT ![att[a].dir] = a] ELSE prepared
        /\ used' = used \cup {att[a].dir}
        /\ Charged(ok)
    /\ UNCHANGED <<att, verify, tree, pending, stack>>

\* The execution ends: the attempt is parked, keeping its lease, or over.
ExecEnds(a) ==
    /\ exec[a] \in {"harness", "failed"}
    /\ exec' = [exec EXCEPT ![a] = "none"]
    /\ tree' = [tree EXCEPT ![att[a].dir] = "one"]
    /\ \E p \in {"over"} \cup (IF exec[a] = "harness" THEN {"parked"} ELSE {}) :
            Schedule(a, [att EXCEPT ![a].phase = p], env, verify, TRUE)
    /\ UNCHANGED <<pending, used, prepared>>

\* A cancel of an attempt without an execution.
Cancel(a) ==
    /\ Up
    /\ att[a].phase \in {"accepted", "parked"}
    /\ Schedule(a, [att EXCEPT ![a].phase = "over"], env, verify, TRUE)
    /\ UNCHANGED <<exec, tree, pending, used, prepared>>

\* retainEnvironmentLocked has hashed the checkout: the lease becomes idle and
\* every other idle one is evicted; if that cannot be saved the lease is
\* evicted itself, and the sweep has to clean up.
Release(e) ==
    /\ verify[e] # None
    /\ verify[e].by = "retain"
    /\ verify[e].seen \in Trees
    /\ verify' = [verify EXCEPT ![e] = None]
    /\ pending' = pending \ {verify[e].who}
    /\ \E ok \in Saves :
        LET idle   == [env EXCEPT ![e].print = verify[e].seen, ![e].time = "idle",
                                  ![e].evicting = ~ok]
            others == (Idle(env) \ {e}) \ Checking
            hooks  == EvictedOwners(att, env, others)
        IN /\ env' = Evicted(idle, others)
           /\ att' = IF ok THEN HooksStarted(att, hooks) ELSE att
           /\ disk' = IF ok THEN Image(att', env') ELSE disk
           /\ stack' = IF ok THEN Torn(att, hooks) ELSE stack
           /\ Charged(ok)
    /\ UNCHANGED <<exec, tree, used, prepared>>

\* The checkout could not be hashed: the lease is evicted and cleaned up.
ReleaseFails(e) ==
    /\ verify[e] # None
    /\ verify[e].by = "retain"
    /\ verify[e].seen = "error"
    /\ pending' = pending \ {verify[e].who}
    /\ Schedule(verify[e].who, att, Evicted(env, {e}), [verify EXCEPT ![e] = None], FALSE)
    /\ UNCHANGED <<exec, tree, used, prepared>>

-----------------------------------------------------------------------------
(* Cleanup, expiry, retention, process                                     *)

\* Variant: the lease is removed whether or not the hook has succeeded.
LeasesAfterHookAlways(en, a, done) ==
    [e \in EnvIDs |-> IF en[e] # None /\ en[e].owner = a /\ en[e].evicting
                      THEN None ELSE en[e]]

\* A successful hook removes the evicted lease of its attempt.
LeasesAfterHook(en, a, done) ==
    [e \in EnvIDs |-> IF done /\ en[e] # None /\ en[e].owner = a /\ en[e].evicting
                      THEN None ELSE en[e]]

\* The cleanup hook of attempt a ends.
HookEnds(a) ==
    /\ att[a].hook
    /\ \E done \in {TRUE} \cup (IF "hook" \in Faults THEN {FALSE} ELSE {}), ok \in Saves :
        /\ att' = [att EXCEPT ![a].hook = FALSE, ![a].done = done]
        /\ env' = LeasesAfterHook(env, a, done)
        /\ disk' = IF ok THEN Image(att', env') ELSE disk
        /\ stack' = IF done THEN [stack EXCEPT ![att[a].dir] = "clean"] ELSE stack
        /\ Charged(ok)
    /\ UNCHANGED <<verify, exec, tree, pending, used, prepared>>

\* Variant: an eviction that failed is not tried again.
SweepDueOnce == {e \in EnvIDs : env[e] # None /\ ~env[e].evicting /\ env[e].time = "due"}

\* The leases the sweep of every second finds evicted or expired.
SweepDue == {e \in EnvIDs : env[e] # None /\ (env[e].evicting \/ env[e].time = "due")}

Sweep ==
    /\ Up
    /\ SweepDue # {}
    /\ Evict(SweepDue)
    /\ UNCHANGED <<verify, exec, tree, pending, used, prepared>>

\* Time passes the ExpiresAt of an idle lease.
Expire(e) ==
    /\ env[e] # None
    /\ env[e].time = "idle"
    /\ env' = [env EXCEPT ![e].time = "due"]
    /\ UNCHANGED <<att, disk, verify, exec, tree, pending, budget, observers>>

\* Someone edits an idle checkout, but not in the seconds in which it is hashed.
OutsideEdit(e) ==
    /\ e \in Idle(env)
    /\ verify[e] = None
    /\ tree' = [tree EXCEPT ![env[e].dir] = Rewritten(@)]
    /\ UNCHANGED <<att, env, disk, verify, exec, pending, budget, observers>>

\* Variant: retention does not look at the leases.
PurgeableOwner(a) ==
    /\ att[a].phase \in {"over", "parked"}
    /\ exec[a] = "none"
    /\ ~att[a].hook
    /\ att[a].phase = "over" => att[a].done \/ att[a].tries = MaxHookRuns

\* purgeableLocked: retention leaves an owner of a lease alone, and one whose
\* cleanup hook still has runs left.
Purgeable(a) ==
    /\ att[a].phase \in {"over", "parked"}
    /\ exec[a] = "none"
    /\ ~att[a].hook
    /\ ~Owns(env, a)
    /\ att[a].phase = "over" => att[a].done \/ att[a].tries = MaxHookRuns

\* Retention drops an attempt; its warm checkout stays on disk.
Drop(a) ==
    /\ Up
    /\ Purgeable(a)
    /\ att' = [att EXCEPT ![a] = [Absent EXCEPT !.phase = "dropped"]]
    /\ disk' = Image(att', env)
    /\ UNCHANGED <<env, verify, exec, tree, pending, budget, observers>>

\* recoverLocked: an attempt whose execution died with the process is parked.
Recovered(at) ==
    [a \in Attempts |-> [at[a] EXCEPT !.phase =
        IF @ \in {"accepted", "active"} THEN "parked" ELSE @]]

\* The process dies and runner.New starts from the file.
Crash ==
    /\ Crashes
    /\ budget > 0
    /\ Charged(FALSE)
    /\ att' = Recovered(disk.att)
    /\ env' = disk.env
    /\ disk' = Image(att', env')
    /\ verify' = [e \in EnvIDs |-> None]
    /\ exec' = [a \in Attempts |-> "none"]
    /\ pending' = {a \in Attempts : att'[a].phase \notin {"absent", "dropped"}}
    /\ UNCHANGED <<tree, observers>>

\* runner.New schedules the cleanup of every attempt, one after the other,
\* before it answers requests; Release and ReleaseFails go on after a hash.
Boot(a) ==
    /\ a \in pending
    /\ Checking = {}
    /\ Schedule(a, att, env, verify, FALSE)
    /\ pending' = IF verify' = verify THEN pending \ {a} ELSE pending
    /\ UNCHANGED <<exec, tree, used, prepared>>

\* Nothing is left to start; refused requests and edits of unleased files
\* change nothing.
Rest == Up /\ UNCHANGED vars

Next ==
    \/ \E a \in Attempts :
        \/ StartMakesRoom(a) \/ StartCreates(a) \/ StartEvicts(a) \/ StartVerifies(a)
        \/ Launch(a) \/ PrepareEnds(a) \/ ExecEnds(a) \/ Cancel(a)
        \/ HookEnds(a) \/ Drop(a) \/ Boot(a)
    \/ \E e \in EnvIDs :
        \/ Fingerprint(e) \/ StartRefused(e) \/ StartFindsChange(e) \/ StartTransfers(e)
        \/ Release(e) \/ ReleaseFails(e) \/ Expire(e) \/ OutsideEdit(e)
    \/ Sweep
    \/ Crash
    \/ Rest

Spec == Init /\ [][Next]_vars

\* Hashing and hooks run under time limits, handlers that wait for the mutex get
\* it, time passes and the sweep runs every second.  Harnesses may run for ever
\* and requests may never come.
FairSpec ==
    /\ Spec
    /\ WF_vars(Sweep)
    /\ \A a \in Attempts : WF_vars(HookEnds(a)) /\ WF_vars(Boot(a)) /\ WF_vars(PrepareEnds(a))
    /\ \A e \in EnvIDs :
        /\ WF_vars(Fingerprint(e))
        /\ WF_vars(StartRefused(e) \/ StartFindsChange(e) \/ StartTransfers(e))
        /\ WF_vars(Release(e) \/ ReleaseFails(e))
        /\ WF_vars(Expire(e))

-----------------------------------------------------------------------------
(* Properties                                                              *)

\* The records, leases and verifications of environment.go stay in their types;
\* in particular a cleanup hook runs at most MaxHookRuns times.
WarmTypeOK ==
    /\ att \in [Attempts -> AttemptRecords]
    /\ env \in [EnvIDs -> Leases \cup {None}]
    /\ disk \in [att : [Attempts -> AttemptRecords], env : [EnvIDs -> Leases \cup {None}]]
    /\ verify \in [EnvIDs -> Verifications \cup {None}]
    /\ exec \in [Attempts -> {"none", "prepare", "harness", "failed"}]
    /\ tree \in [Attempts -> Trees]
    /\ pending \subseteq Attempts
    /\ budget \in 0..MaxFaults
    /\ stack \in [Attempts -> {"intact", "torn", "clean"}]
    /\ used \subseteq Attempts
    /\ prepared \in [Attempts -> Attempts]

\* Attempt x has to see to the stack in checkout d, and something will make it:
\* it is not over yet, its hook is running or it has the lease.
Answers(at, en, x, d) ==
    /\ at[x].dir = d
    /\ ~at[x].delegated
    /\ at[x].phase # "dropped"
    /\ at[x].phase = "over" => at[x].hook \/ Owns(en, x)

\* No stack is abandoned: as long as its cleanup hook has not succeeded, exactly
\* one attempt answers for a checkout a harness or a prepare hook has worked in,
\* and state.json names one as well, so that this survives a crash at any point
\* (CleanupDelegated, scheduleCleanupLocked and the undo of a failed acceptance).
NoStackAbandoned == \A d \in used :
    stack[d] # "clean" =>
        /\ Cardinality({x \in Attempts : Answers(att, env, x, d)}) = 1
        /\ \E x \in Attempts : Answers(disk.att, disk.env, x, d)

\* No lease belongs to an attempt that does not exist: such a lease could be
\* neither released nor evicted (runner.go, the undo of a failed acceptance).
LeaseHasOwner == \A e \in EnvIDs :
    env[e] # None => /\ att[env[e].owner].phase \notin {"absent", "dropped"}
                     /\ att[env[e].owner].dir = env[e].dir

\* Every lease and every stack that is not clean has somebody to answer for it.
SomebodyAnswers == LeaseHasOwner /\ NoStackAbandoned

\* Who may be writing in checkout d: prepare hook, harness or cleanup hook.
Writers(d) == {a \in Attempts : att[a].dir = d /\ (exec[a] # "none" \/ att[a].hook)}

\* A checkout has one writer at a time, and none while it is hashed
\* (environment.go: the lease is exclusive, the fence covers the hashing).
ExclusiveCheckout ==
    /\ \A d \in Attempts : Cardinality(Writers(d)) <= 1
    /\ \A e \in Checking : Writers(env[e].dir) = {}
    /\ \A a \in Attempts : ~(exec[a] # "none" /\ att[a].hook)

\* A stack whose cleanup hook was started, even in an earlier process, even if
\* it failed, is never handed to a harness again (environment.go, Evicting).
TornIsNeverReused == \A a \in Attempts : exec[a] # "none" => stack[att[a].dir] = "intact"

\* A harness in a reused checkout runs behind a prepare hook that succeeded for
\* this very attempt, across crashes and failed saves (prepareLeasedEnvironment).
PreparedBeforeHarness == \A a \in Attempts :
    exec[a] = "harness" => prepared[att[a].dir] = a

\* What a harness finds is a stack that was never torn down and was prepared for it.
HarnessFindsStack == TornIsNeverReused /\ PreparedBeforeHarness

\* A lease changes hands only with the files its last owner was released with
\* (fingerprintEnvironmentLocked on release and on reuse).
ReuseIsAsReleased ==
    [][\A e \in EnvIDs :
        (env[e] # None /\ env'[e] # None /\ env'[e].owner # env[e].owner /\ pending' = {})
            => tree[env[e].dir] = env[e].print]_vars

\* An owner whose cleanup hook has failed as often as it may.
Exhausted(a) == att[a].tries = MaxHookRuns /\ ~att[a].hook /\ ~att[a].done

\* An idle or evicted environment does not linger: it is leased again, cleaned
\* up, or left to an operator after the last failed hook (startEnvironmentExpiry).
IdleEnds == \A e \in EnvIDs :
    (e \in Idle(env)) ~> (e \notin Idle(env) \/ Exhausted(env[e].owner))
====
