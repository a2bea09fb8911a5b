--------------------------- MODULE RunnerAttempts ---------------------------
(***************************************************************************)
(* The attempt engine of the local runner (pkg/runner): one process, one   *)
(* mutex, one state file.  Every request handler and every callback runs   *)
(* under Runner.mu, so each of them is one action; the goroutines that     *)
(* outlive a handler (the adapter run, the Git export, a blocked           *)
(* permission call, a cleanup hook) are separate variables whose steps     *)
(* interleave with the handlers.                                           *)
(*                                                                         *)
(* att/ops are Runner.state in memory, dAtt/dOps the state.json that the   *)
(* last successful persistLocked left on disk.  Everything else dies with  *)
(* the process.                                                            *)
(***************************************************************************)
EXTENDS Naturals, FiniteSets

CONSTANTS
    Attempts,          \* attempt IDs
    Task,              \* Task[a]: the task attempt a belongs to
    Epoch,             \* Epoch[a]: the attempt epoch every request for a carries
    RequestIDs,        \* request IDs of cancel and resume requests
    Perms,             \* IDs of the permission requests a harness may raise
    NoPerm,            \* no outstanding permission request
    Exports,           \* attempts started with ExportGitResult
    Limited,           \* attempts started with MaxDurationSeconds > 0
    Users,             \* attempts that request the configured resource
    ResourceCapacity,  \* its capacity
    Expiring,          \* attempts whose retention window may elapse
    MaxRetained,       \* MaxRetainedAttempts
    Faults,            \* "append", "save", "resave": the write that may fail;
                       \* "landed": a failed save may have replaced the file
    Crashes            \* whether the process may die without Close

ASSUME ConstantsAssumption ==
    /\ Task \in [Attempts -> Nat]
    /\ Epoch \in [Attempts -> Nat \ {0}]
    /\ NoPerm \notin Perms
    /\ {"none", "idle"} \cap Perms = {}
    /\ IsFiniteSet(Attempts)
    /\ Exports \subseteq Attempts
    /\ Limited \subseteq Attempts
    /\ Users \subseteq Attempts
    /\ Expiring \subseteq Attempts
    /\ ResourceCapacity \in Nat
    /\ MaxRetained \in Nat
    /\ Faults \subseteq {"append", "save", "resave", "landed"}
    /\ Crashes \in BOOLEAN

VARIABLES
    proc,      \* "up", "closing" (Close has set closed and waits), "down"
    att,       \* Runner.state.Attempts (with the attempt's reservation)
    ops,       \* Runner.state.Operations
    dAtt,      \* the same two in state.json
    dOps,
    exec,      \* the execute goroutine; Runner.running holds exec[a] # "none"
    ctxDone,   \* executions whose context is cancelled
    creds,     \* Runner.credentials
    gate,      \* Runner.permissions: "none", "idle" or the request it waits on
    clock,     \* the execution's workClock
    shutdown,  \* Runner.shutdown
    hooks,     \* attempts with cleanupRunning
    asker,     \* the AskPermission calls of the adapter
    acked,     \* observer: operations a handler answered without an error
    spent      \* observer: operations that launched a harness turn

memory  == <<att, ops>>
disk    == <<dAtt, dOps>>
running == <<exec, ctxDone, gate, clock>>
history == <<acked, spent>>
vars    == <<proc, memory, disk, running, creds, shutdown, hooks, asker, history>>

-----------------------------------------------------------------------------
(* Records                                                                 *)

Terminal == {"completed", "failed", "cancelled"}
Phases   == {"absent", "accepted", "starting", "running", "needs_input", "cancelling"}
                \cup Terminal

\* attemptRecord, with the receipt fields that decide what the engine does (a
\* clarification is text that a resume has to name, and is left out).  Its
\* flags: CancelPending; "fence", the fingerprint of a cancel request, which no
\* start request equals; "error", LastError is set; "session", SessionID is
\* known; "holds", the attempt's resource reservation; "old", UpdatedAt lies
\* further back than the retention window.  hook: the repository cleanup hook.
Flags == {"cancelPending", "fence", "error", "session", "holds", "old"}
Record ==
    [phase : Phases, flags : SUBSET Flags, perm : Perms \cup {NoPerm},
     hook : {"none", "owed", "settled"}]

Absent ==
    [phase |-> "absent", flags |-> {}, perm |-> NoPerm, hook |-> "none"]

\* What an attempt reserves.
Claim(a) == IF a \in Users THEN {"holds"} ELSE {}

\* The record Start creates, and the one cancelUnseenLocked creates.
Accepted(a) ==
    [Absent EXCEPT !.phase = "accepted", !.flags = Claim(a), !.hook = "owed"]
Fence == [Absent EXCEPT !.phase = "cancelled", !.flags = {"cancelPending", "fence"}]

\* operationKey.  Start's fingerprint covers its request ID, so a second start
\* request for an attempt is always a conflict and one ID stands for all.
StartOp(a)      == [kind |-> "start",  attempt |-> a, id |-> "start"]
CancelOp(a, id) == [kind |-> "cancel", attempt |-> a, id |-> id]
ResumeOp(a, id) == [kind |-> "resume", attempt |-> a, id |-> id]

Operations ==
    [kind : {"start"}, attempt : Attempts, id : {"start"}]
        \cup [kind : {"cancel", "resume"}, attempt : Attempts, id : RequestIDs]

AskStates == {"idle", "asked", "waiting", "verdict", "gone", "done"}

TypeOK ==
    /\ proc \in {"up", "closing", "down"}
    /\ att \in [Attempts -> Record]
    /\ dAtt \in [Attempts -> Record]
    /\ ops \in SUBSET Operations
    /\ dOps \in SUBSET Operations
    /\ exec \in [Attempts -> {"none", "run", "export"}]
    /\ ctxDone \in SUBSET Attempts
    /\ creds \in SUBSET Attempts
    /\ gate \in [Attempts -> {"none", "idle"} \cup Perms]
    /\ clock \in [Attempts -> {"off", "ticking", "paused", "ranout"}]
    /\ shutdown \in SUBSET Attempts
    /\ hooks \in SUBSET Attempts
    /\ asker \in [Attempts -> [Perms -> AskStates]]
    /\ acked \in SUBSET Operations
    /\ spent \in SUBSET Operations

Init ==
    /\ proc = "up"
    /\ att = [a \in Attempts |-> Absent]
    /\ dAtt = [a \in Attempts |-> Absent]
    /\ ops = {}
    /\ dOps = {}
    /\ exec = [a \in Attempts |-> "none"]
    /\ ctxDone = {}
    /\ creds = {}
    /\ gate = [a \in Attempts |-> "none"]
    /\ clock = [a \in Attempts |-> "off"]
    /\ shutdown = {}
    /\ hooks = {}
    /\ asker = [a \in Attempts |-> [p \in Perms |-> "idle"]]
    /\ acked = {}
    /\ spent = {}

-----------------------------------------------------------------------------
(* Helpers the handlers share                                              *)

Present(a)    == att[a].phase # "absent"
IsTerminal(a) == att[a].phase \in Terminal

\* How a handler with these writes may end: "ok", or at a write that fails.
\* "append": the event journal; "save": the handler's persistLocked; "resave":
\* its second one (the launch's, which a missing input file fails likewise).
Ends(writes) == {"ok"} \cup (writes \cap Faults)

\* Variant: a rename that is not durable although no error was reported.
SaveImageOrNot(ok, m, o) == (dAtt' = m /\ dOps' = o) \/ UNCHANGED disk

\* stateStore.save replaces the file in one rename.  An error before the rename
\* leaves the old file, one after it (the directory sync) leaves the new one.
SaveImage(ok, m, o) ==
    \/ /\ ok \/ "landed" \in Faults
       /\ dAtt' = m
       /\ dOps' = o
    \/ ~ok /\ UNCHANGED disk

\* persistLocked of the new memory.
Save(ok) == SaveImage(ok, att', ops')

Ack(op) == acked' = acked \cup {op}

\* Variant: a needs-input attempt never counts, blocked child or not.
ActiveIgnoringGate(a) == Present(a) /\ ~IsTerminal(a) /\ att[a].phase # "needs_input"

\* activeCountLocked against MaximumCapacity, which config.go pins to 1.
Active(a) ==
    /\ Present(a)
    /\ ~IsTerminal(a)
    /\ ~(att[a].phase = "needs_input" /\ gate[a] = "none")

CapacityFree == \A a \in Attempts : ~Active(a)

\* checkEpochLocked: a new attempt must be newer than all others of its task.
EpochCurrent(a) ==
    \A b \in Attempts \ {a} :
        Present(b) /\ Task[b] = Task[a] => Epoch[a] > Epoch[b]

\* Variant: off by one.
CanReserveOneMore(a) ==
    a \in Users =>
        Cardinality({b \in Attempts \ {a} : "holds" \in att[b].flags}) <= ResourceCapacity

\* reserveResourcesLocked
CanReserve(a) ==
    a \in Users =>
        Cardinality({b \in Attempts \ {a} : "holds" \in att[b].flags}) < ResourceCapacity

\* Variant: the permission gate is not registered.
LaunchWithoutGate(a) ==
    /\ exec' = [exec EXCEPT ![a] = "run"]
    /\ clock' = [clock EXCEPT ![a] = IF a \in Limited THEN "ticking" ELSE "off"]
    /\ ctxDone' = ctxDone \ {a}
    /\ gate' = gate

\* startExecutionLocked, from the point where it registers the execution.
Launch(a) ==
    /\ exec' = [exec EXCEPT ![a] = "run"]
    /\ gate' = [gate EXCEPT ![a] = "idle"]
    /\ clock' = [clock EXCEPT ![a] = IF a \in Limited THEN "ticking" ELSE "off"]
    /\ ctxDone' = ctxDone \ {a}

\* purgeableLocked, for attempts that lease no warm environment.
Purgeable(m, a) ==
    /\ m[a].phase \in Terminal \cup {"needs_input"}
    /\ exec[a] = "none"
    /\ gate[a] = "none"
    /\ a \notin hooks
    /\ ~(m[a].phase \in Terminal /\ m[a].hook = "owed")

\* purgeAttemptsLocked: everything past its window, then the oldest of the
\* rest until the cap holds.  Which ones are oldest is left open.
PurgeSets(m) ==
    LET able == {a \in Attempts : Purgeable(m, a)}
        past == {a \in able : "old" \in m[a].flags}
        over == IF Cardinality(able) > MaxRetained THEN Cardinality(able) - MaxRetained ELSE 0
        rest == Cardinality(able \ past)
    IN  {S \in SUBSET able :
            /\ past \subseteq S
            /\ Cardinality(S \ past) = IF over < rest THEN over ELSE rest}

\* Variant: the operations of a dropped attempt stay.
OpsKept(o, S) == o

\* dropAttemptLocked: the records and operations of the attempts in S.
Without(m, S)   == [a \in Attempts |-> IF a \in S THEN Absent ELSE m[a]]
OpsWithout(o, S) == {op \in o : op.attempt \notin S}

\* Variant: the permission request stays on the receipt.
FinishedKeepingPermission(r, phase, note, logged) ==
    [r EXCEPT !.phase = IF phase = "completed" /\ ~logged THEN "failed" ELSE phase,
              !.flags = (@ \ {"holds", "old"}) \cup note \cup (IF logged THEN {} ELSE {"error"})]

\* What finishLocked makes of record r; note is {"error"} if it is given one.
\* A journal failure turns completion into failure.
Finished(r, phase, note, logged) ==
    [r EXCEPT !.phase = IF phase = "completed" /\ ~logged THEN "failed" ELSE phase,
              !.perm  = NoPerm,
              !.flags = (@ \ {"holds", "old"}) \cup note \cup (IF logged THEN {} ELSE {"error"})]

\* scheduleCleanupLocked wants the hook of this record to run.
HookDue(r) == r.phase \in Terminal /\ r.hook = "owed"

\* finishLocked with the scheduleCleanupLocked it ends in.  Each may lose its
\* persist; if neither reaches the disk it keeps the image the caller left
\* there.  The early return for a terminal attempt is never taken
\* (RunningIsLive).
Finish(a, r, phase, note, image) ==
    \E lost \in SUBSET ({"append", "save", "resave"} \cap Faults) :
        LET f == Finished(r, phase, note, "append" \notin lost)
            scheduled == HookDue(f) /\ "resave" \notin lost
            saved == "save" \notin lost \/ scheduled
        IN
        /\ att' = [att EXCEPT ![a] = f]
        /\ dAtt' = IF saved THEN att' ELSE image.att
        /\ dOps' = IF saved THEN ops' ELSE image.ops
        /\ hooks' = IF scheduled THEN hooks \cup {a} ELSE hooks
        /\ creds' = creds \ {a}

OnDisk == [att |-> dAtt, ops |-> dOps]

-----------------------------------------------------------------------------
(* Requests.  A refused request (closed runner, stale epoch, no capacity,   *)
(* conflicting content, wrong phase or session) changes nothing and is no   *)
(* action.                                                                  *)

\* Start from the purge on, with the attempts in S dropped.  The image of a
\* launch whose save failed differs only by "starting", which recovery treats
\* as "accepted"; whether it landed is left out here and below.
StartWith(a, S, end) ==
    LET kept == Without(att, S)
        rest == OpsWithout(ops, S)
    IN
    /\ shutdown' = shutdown \ S
    /\ IF end = "append"
       THEN /\ att' = kept
            /\ ops' = rest
            /\ creds' = creds \ S
       ELSE /\ att' = [kept EXCEPT ![a] =
                    [Accepted(a) EXCEPT !.phase = IF end = "ok" THEN "starting" ELSE "accepted"]]
            /\ ops' = rest \cup {StartOp(a)}
            /\ creds' = (creds \ S) \cup {a}
    /\ IF end = "append" THEN UNCHANGED disk ELSE Save(end # "save")
    /\ IF end = "ok"
       THEN /\ Launch(a)
            /\ spent' = OpsWithout(spent, S) \cup {StartOp(a)}
            /\ acked' = OpsWithout(acked, S) \cup {StartOp(a)}
       ELSE /\ UNCHANGED running
            /\ spent' = OpsWithout(spent, S)
            /\ acked' = OpsWithout(acked, S)

\* Start of an attempt the runner does not know.
StartAccept(a) ==
    /\ proc = "up"
    /\ StartOp(a) \notin ops
    /\ ~Present(a)
    /\ EpochCurrent(a)
    /\ CapacityFree
    /\ CanReserve(a)
    /\ \E S \in PurgeSets(att), end \in Ends({"append", "save", "resave"}) : StartWith(a, S, end)
    /\ UNCHANGED <<proc, hooks, asker>>

Starting(r) == [r EXCEPT !.phase = "starting", !.flags = @ \ {"old"}]

\* A start request seen before whose attempt still waits to be launched.
StartRelaunch(a) ==
    /\ proc = "up"
    /\ StartOp(a) \in ops
    /\ att[a].phase = "accepted"
    /\ "cancelPending" \notin att[a].flags
    /\ creds' = creds \cup {a}
    /\ ops' = ops
    /\ IF exec[a] # "none"
       THEN Ack(StartOp(a)) /\ UNCHANGED <<att, disk, running, spent>>
       ELSE \E end \in Ends({"resave"}) :
            /\ att' = IF end = "ok"
                      THEN [att EXCEPT ![a] = Starting(@)]
                      ELSE att
            /\ Save(end = "ok")
            /\ IF end = "ok"
               THEN /\ Launch(a)
                    /\ spent' = spent \cup {StartOp(a)}
                    /\ Ack(StartOp(a))
               ELSE UNCHANGED <<running, history>>
    /\ UNCHANGED <<proc, shutdown, hooks, asker>>

\* A request whose ID is recorded is answered with the receipt as it stands.
Replay(op) ==
    /\ proc = "up"
    /\ op \in ops
    /\ ~(/\ op.kind = "start"
         /\ att[op.attempt].phase = "accepted"
         /\ "cancelPending" \notin att[op.attempt].flags)
    /\ Ack(op)
    /\ UNCHANGED <<proc, memory, disk, running, creds, shutdown, hooks, asker, spent>>

\* cancelUnseenLocked: the fence reaches memory only after it is on disk.
CancelUnseen(a, id) ==
    /\ proc = "up"
    /\ CancelOp(a, id) \notin ops
    /\ ~Present(a)
    /\ EpochCurrent(a)
    /\ LET fenced == [att EXCEPT ![a] = Fence]
            noted  == ops \cup {CancelOp(a, id)}
       IN  \E end \in Ends({"save"}) :
            /\ SaveImage(end = "ok", fenced, noted)
            /\ IF end = "ok"
               THEN att' = fenced /\ ops' = noted /\ Ack(CancelOp(a, id))
               ELSE UNCHANGED <<memory, acked>>
    /\ UNCHANGED <<proc, running, creds, shutdown, hooks, asker, spent>>

\* Cancel of an attempt that is over: only the operation is recorded.
CancelFinished(a, id) ==
    /\ proc = "up"
    /\ CancelOp(a, id) \notin ops
    /\ IsTerminal(a)
    /\ att' = att
    /\ ops' = ops \cup {CancelOp(a, id)}
    /\ \E end \in Ends({"save"}) :
        /\ Save(end = "ok")
        /\ acked' = IF end = "ok" THEN acked \cup {CancelOp(a, id)} ELSE acked
    /\ UNCHANGED <<proc, running, creds, shutdown, hooks, asker, spent>>

\* Variant: the cancellation never reaches the context.
CancelNotPassedOn(a, end) == ctxDone' = ctxDone

\* The running entry's cancel function, called once the request is saved.
CancelRunning(a, end) ==
    ctxDone' = IF end = "ok" /\ exec[a] # "none" THEN ctxDone \cup {a} ELSE ctxDone

Cancelling(r) ==
    [r EXCEPT !.phase = "cancelling", !.flags = (@ \ {"old"}) \cup {"cancelPending"}]

\* Cancel of a live attempt: recorded, saved, and only then passed on to the
\* adapter; without an execution the attempt is over at once.
Cancel(a, id) ==
    /\ proc = "up"
    /\ CancelOp(a, id) \notin ops
    /\ Present(a) /\ ~IsTerminal(a)
    /\ ops' = ops \cup {CancelOp(a, id)}
    /\ \E end \in Ends({"append", "save"}) :
        LET r == Cancelling(att[a])
            m == [att EXCEPT ![a] = r]
        IN
        /\ IF end = "ok" /\ exec[a] = "none"
           THEN Finish(a, r, "cancelled", {}, [att |-> m, ops |-> ops'])
           ELSE /\ att' = m
                /\ IF end = "append" THEN UNCHANGED disk ELSE Save(end = "ok")
                /\ UNCHANGED <<creds, hooks>>
        /\ CancelRunning(a, end)
        /\ acked' = IF end = "ok" THEN acked \cup {CancelOp(a, id)} ELSE acked
    /\ UNCHANGED <<proc, exec, gate, clock, shutdown, asker, spent>>

Resumed(a, r, phase) ==
    [r EXCEPT !.phase = phase,
              !.flags = (@ \ {"cancelPending", "error", "old"}) \cup Claim(a)]

\* Resume of a parked attempt: recorded as accepted, then launched.  While the
\* Git export of the previous turn still runs, startExecutionLocked returns
\* without launching.
Resume(a, id) ==
    /\ proc = "up"
    /\ ResumeOp(a, id) \notin ops
    /\ att[a].phase = "needs_input"
    /\ "session" \in att[a].flags
    /\ att[a].perm = NoPerm
    /\ CapacityFree
    /\ CanReserve(a)
    /\ ops' = ops \cup {ResumeOp(a, id)}
    /\ creds' = creds \cup {a}
    /\ \E end \in Ends({"append", "save"} \cup (IF exec[a] = "none" THEN {"resave"} ELSE {})) :
        LET launches == end = "ok" /\ exec[a] = "none" IN
        /\ att' = [att EXCEPT ![a] = Resumed(a, @, IF launches THEN "starting" ELSE "accepted")]
        /\ IF end = "append" THEN UNCHANGED disk ELSE Save(end # "save")
        /\ IF launches
           THEN Launch(a) /\ spent' = spent \cup {ResumeOp(a, id)}
           ELSE UNCHANGED <<running, spent>>
        /\ acked' = IF end = "ok" THEN acked \cup {ResumeOp(a, id)} ELSE acked
    /\ UNCHANGED <<proc, shutdown, hooks, asker>>

\* Variant: the clock is not restarted.
UnpausedNever(c) == c

\* workClock: pause and unpause; a clock that ran out stays so.
Paused(c)   == IF c = "ticking" THEN "paused" ELSE c
Unpaused(c) == IF c = "paused" THEN "ticking" ELSE c

Answered(r) ==
    [r EXCEPT !.perm = NoPerm, !.phase = "running", !.flags = @ \ {"error", "old"}]

\* Resume with a verdict on the outstanding permission request: delivered to
\* the blocked call of the turn that never stopped.  The operation is recorded
\* after answerPermissionLocked has saved the new phase.
ResumePermission(a, p, id) ==
    /\ proc = "up"
    /\ ResumeOp(a, id) \notin ops
    /\ att[a].phase = "needs_input"
    /\ "session" \in att[a].flags
    /\ att[a].perm = p
    /\ gate[a] = p
    /\ gate' = [gate EXCEPT ![a] = "idle"]
    /\ clock' = [clock EXCEPT ![a] = Unpaused(@)]
    /\ asker' = [asker EXCEPT ![a][p] = IF @ = "waiting" THEN "verdict" ELSE @]
    /\ att' = [att EXCEPT ![a] = Answered(@)]
    /\ \E end \in Ends({"append", "save", "resave"}) :
        /\ ops' = IF end \in {"ok", "resave"} THEN ops \cup {ResumeOp(a, id)} ELSE ops
        /\ IF end = "resave"
           THEN dAtt' = att' /\ dOps' \in {ops} \cup (IF "landed" \in Faults THEN {ops'} ELSE {})
           ELSE IF end = "append" THEN UNCHANGED disk ELSE Save(end = "ok")
        /\ acked' = IF end = "ok" THEN acked \cup {ResumeOp(a, id)} ELSE acked
    /\ UNCHANGED <<proc, exec, ctxDone, creds, shutdown, hooks, spent>>

-----------------------------------------------------------------------------
(* The execute goroutine and the callbacks of its adapter                   *)

\* Variant: the event type is taken for the phase.
PhaseIsKind(kind, phase) == kind

\* The phase an event of this kind leaves.  "progress" stands for started,
\* progress, checkpoint, completed, failed and every unknown type; "other" for
\* accepted and artifact.
PhaseAfter(kind, phase) ==
    CASE kind = "progress"    -> IF phase = "cancelling" THEN phase ELSE "running"
      [] kind = "needs_input" -> "needs_input"
      [] kind = "cancelled"   -> "cancelling"
      [] kind = "other"       -> phase

AfterEvent(r, kind, s) ==
    [r EXCEPT !.phase = PhaseAfter(kind, @), !.flags = (@ \ {"old"}) \cup s]

\* handleHarnessEvent.  s: the flags an event that names
\* its session sets.
HarnessEvent(a, kind, s) ==
    /\ exec[a] = "run"
    /\ "error" \notin att[a].flags
    /\ ~IsTerminal(a)
    /\ att' = [att EXCEPT ![a] = AfterEvent(@, kind, s)]
    /\ ops' = ops
    /\ Save(TRUE)
    /\ UNCHANGED <<proc, running, creds, shutdown, hooks, asker, history>>

EventFailed(r, s) ==
    [r EXCEPT !.phase = "cancelling",
              !.flags = (@ \ {"old"}) \cup {"cancelPending", "error"} \cup s]

\* handleHarnessEvent into failHarnessEventLocked: a foreign session, an event
\* over a limit, a bad artifact, or a write that failed.  The attempt turns to
\* cancelling with an error and its context is cancelled, saved or not.
HarnessEventFails(a, s) ==
    /\ exec[a] = "run"
    /\ "error" \notin att[a].flags
    /\ ~IsTerminal(a)
    /\ att' = [att EXCEPT ![a] = EventFailed(@, s)]
    /\ ops' = ops
    /\ \E end \in Ends({"save"}) : Save(end = "ok")
    /\ ctxDone' = ctxDone \cup {a}
    /\ UNCHANGED <<proc, exec, gate, clock, creds, shutdown, hooks, asker, history>>

\* The adapter's tool call reaches AskPermission.
AskPermission(a, p) ==
    /\ exec[a] = "run"
    /\ asker[a][p] = "idle"
    /\ asker' = [asker EXCEPT ![a][p] = "asked"]
    /\ UNCHANGED <<proc, memory, disk, running, creds, shutdown, hooks, history>>

\* parkOnPermission, refused.
ParkRefused(a, p) ==
    /\ asker[a][p] = "asked"
    /\ \/ ~Present(a)
       \/ IsTerminal(a)
       \/ att[a].phase = "cancelling"
       \/ gate[a] = "none"
    /\ asker' = [asker EXCEPT ![a][p] = "done"]
    /\ UNCHANGED <<proc, memory, disk, running, creds, shutdown, hooks, history>>

ParkedOn(r, p) == [r EXCEPT !.phase = "needs_input", !.perm = p, !.flags = @ \ {"old"}]

\* parkOnPermission.  A failed write closes the gate again but leaves the
\* request on the receipt.
ParkOnPermission(a, p) ==
    /\ asker[a][p] = "asked"
    /\ Present(a)
    /\ ~IsTerminal(a)
    /\ att[a].phase # "cancelling"
    /\ gate[a] # "none"
    /\ att' = [att EXCEPT ![a] = ParkedOn(@, p)]
    /\ ops' = ops
    /\ \E end \in Ends({"append", "save"}) :
        /\ IF end = "append" THEN UNCHANGED disk ELSE Save(end = "ok")
        /\ gate' = [gate EXCEPT ![a] = IF end = "ok" THEN p ELSE "idle"]
        /\ clock' = [clock EXCEPT ![a] = IF end = "ok" THEN Paused(@) ELSE Unpaused(@)]
        /\ asker' = [asker EXCEPT ![a][p] = IF end = "ok" THEN "waiting" ELSE "done"]
    /\ UNCHANGED <<proc, exec, ctxDone, creds, shutdown, hooks, history>>

\* AskPermission's select: the verdict, or the end of the call's own context.
TakeVerdict(a, p) ==
    /\ asker[a][p] = "verdict"
    /\ asker' = [asker EXCEPT ![a][p] = "done"]
    /\ UNCHANGED <<proc, memory, disk, running, creds, shutdown, hooks, history>>

CallEnds(a, p) ==
    /\ asker[a][p] \in {"waiting", "verdict"}
    /\ asker' = [asker EXCEPT ![a][p] = "gone"]
    /\ UNCHANGED <<proc, memory, disk, running, creds, shutdown, hooks, history>>

Abandoned(r) == [r EXCEPT !.perm = NoPerm, !.flags = @ \ {"old"}]

\* abandonPermission: the gate is closed whichever request it waits on.
AbandonPermission(a, p) ==
    /\ asker[a][p] = "gone"
    /\ asker' = [asker EXCEPT ![a][p] = "done"]
    /\ gate' = [gate EXCEPT ![a] = IF @ = "none" THEN @ ELSE "idle"]
    /\ clock' = [clock EXCEPT ![a] = Unpaused(@)]
    /\ ops' = ops
    /\ IF att[a].perm = p
       THEN /\ att' = [att EXCEPT ![a] = Abandoned(@)]
            /\ \E end \in Ends({"save"}) : Save(end = "ok")
       ELSE UNCHANGED <<att, disk>>
    /\ UNCHANGED <<proc, exec, ctxDone, creds, shutdown, hooks, history>>

\* The working budget runs out.
ClockExpires(a) ==
    /\ clock[a] = "ticking"
    /\ clock' = [clock EXCEPT ![a] = "ranout"]
    /\ ctxDone' = ctxDone \cup {a}
    /\ UNCHANGED <<proc, memory, disk, exec, gate, creds, shutdown, hooks, asker, history>>

\* What Adapter.Run returns: the result's phase ("" is "none"), an error, the
\* cancellation of its context, or the session of another attempt.
Results == {"completed", "failed", "cancelled", "needs_input", "none",
            "error", "interrupted", "foreign"}

\* Variant: an interruption by Close is recognised before a pending cancel.
OutcomeShutdownFirst(a, result) ==
    IF "error" \in att[a].flags \/ result = "foreign" \/ clock[a] = "ranout" THEN "failed"
    ELSE IF a \in shutdown /\ a \in ctxDone THEN "needs_input"
    ELSE IF "cancelPending" \in att[a].flags THEN "cancelled"
    ELSE IF result \in {"error", "interrupted", "none"} THEN "failed"
    ELSE result

\* How execute reads the result, in the order of its checks.
Outcome(a, result) ==
    IF "error" \in att[a].flags THEN "failed"
    ELSE IF result = "foreign" THEN "failed"
    ELSE IF clock[a] = "ranout" THEN "failed"
    ELSE IF "cancelPending" \in att[a].flags THEN "cancelled"
    ELSE IF /\ a \in shutdown
            /\ a \in ctxDone
            /\ result \in {"cancelled", "needs_input", "none", "interrupted"} THEN "needs_input"
    ELSE IF result \in {"error", "interrupted", "none"} THEN "failed"
    ELSE result

WithSession(r, s) == [r EXCEPT !.flags = IF "error" \in @ THEN @ ELSE @ \cup s]

\* execute after Adapter.Run: the gate and the clock come down, then the
\* attempt is finished or, for a completed attempt that exports its Git
\* result, the mutex is released around the export.
ExecEnd(a, result, s) ==
    LET outcome == Outcome(a, result)
        exports == outcome = "completed" /\ a \in Exports
        r == WithSession(att[a], s)
    IN
    /\ exec[a] = "run"
    /\ result = "foreign" => "session" \in att[a].flags
    /\ gate' = [gate EXCEPT ![a] = "none"]
    /\ clock' = [clock EXCEPT ![a] = "off"]
    /\ ops' = ops
    /\ IF exports
       THEN /\ exec' = [exec EXCEPT ![a] = "export"]
            /\ att' = [att EXCEPT ![a] = r]
            /\ UNCHANGED <<disk, creds, hooks, ctxDone, shutdown>>
       ELSE /\ exec' = [exec EXCEPT ![a] = "none"]
            /\ ctxDone' = ctxDone \ {a}
            /\ shutdown' = shutdown \ {a}
            /\ Finish(a, r, outcome, IF result \in {"error", "foreign"} THEN {"error"} ELSE {}, OnDisk)
    /\ UNCHANGED <<proc, asker, history>>

\* execute after exportGitResult, when there is no result to commit: the
\* attempt was cancelled or interrupted meanwhile, or the export failed.
ExportEnd(a) ==
    /\ exec[a] = "export"
    /\ ops' = ops
    /\ \/ /\ "cancelPending" \in att[a].flags
          /\ Finish(a, att[a], "cancelled", {}, OnDisk)
       \/ /\ "cancelPending" \notin att[a].flags
          /\ a \in shutdown /\ a \in ctxDone
          /\ Finish(a, att[a], "needs_input", {}, OnDisk)
       \/ /\ "cancelPending" \notin att[a].flags
          /\ ~(a \in shutdown /\ a \in ctxDone)
          /\ Finish(a, att[a], "failed", {"error"}, OnDisk)
    /\ exec' = [exec EXCEPT ![a] = "none"]
    /\ ctxDone' = ctxDone \ {a}
    /\ shutdown' = shutdown \ {a}
    /\ UNCHANGED <<proc, gate, clock, asker, history>>

Committed(r) == [r EXCEPT !.phase = "completed", !.flags = @ \ {"holds", "old"}]

\* finishGitResultLocked: artifacts and completion in one image.  On a failed
\* write the receipt is restored and finishLocked records a failure instead.
ExportCommit(a) ==
    LET done == Committed(att[a]) IN
    /\ exec[a] = "export"
    /\ "cancelPending" \notin att[a].flags
    /\ ~(a \in shutdown /\ a \in ctxDone)
    /\ ops' = ops
    /\ \E end \in Ends({"append", "save"}) :
        IF end = "ok"
        THEN /\ att' = [att EXCEPT ![a] = done]
             /\ Save(TRUE)
             /\ \E lost \in SUBSET ({"resave"} \cap Faults) :
                    hooks' = IF HookDue(done) /\ lost = {} THEN hooks \cup {a} ELSE hooks
             /\ creds' = creds
        ELSE \E image \in {OnDisk} \cup
                    (IF end = "save" /\ "landed" \in Faults
                     THEN {[att |-> [att EXCEPT ![a] = done], ops |-> ops]} ELSE {}) :
                Finish(a, att[a], "failed", {"error"}, image)
    /\ exec' = [exec EXCEPT ![a] = "none"]
    /\ ctxDone' = ctxDone \ {a}
    /\ shutdown' = shutdown \ {a}
    /\ UNCHANGED <<proc, gate, clock, asker, history>>

-----------------------------------------------------------------------------
(* Maintenance, shutdown, crash and recovery                                *)

Hooked(r, result) == [r EXCEPT !.hook = result]

\* The goroutine of scheduleCleanupLocked ends: the hook is done or has failed
\* three times, or it is owed another try at the next start.
HookEnds(a, result) ==
    /\ a \in hooks
    /\ hooks' = hooks \ {a}
    /\ att' = [att EXCEPT ![a] = Hooked(@, result)]
    /\ ops' = ops
    /\ \E end \in Ends({"save"}) : Save(end = "ok")
    /\ UNCHANGED <<proc, running, creds, shutdown, asker, history>>

Aged(r) ==
    IF r.phase \in Terminal \cup {"needs_input"} THEN [r EXCEPT !.flags = @ \cup {"old"}] ELSE r

\* Time: the retention window of an attempt that is parked or over elapses.
Age(a) ==
    /\ a \in Expiring
    /\ exec[a] = "none"
    /\ att' = [att EXCEPT ![a] = Aged(@)]
    /\ dAtt' = [dAtt EXCEPT ![a] = Aged(@)]
    /\ UNCHANGED <<proc, ops, dOps, running, creds, shutdown, hooks, asker, history>>

\* The periodic sweep of startEnvironmentExpiry, when it drops something.
Sweep ==
    /\ proc = "up"
    /\ \E S \in PurgeSets(att) \ {{}} :
        /\ att' = Without(att, S)
        /\ ops' = OpsWithout(ops, S)
        /\ creds' = creds \ S
        /\ shutdown' = shutdown \ S
        /\ acked' = OpsWithout(acked, S)
        /\ spent' = OpsWithout(spent, S)
    /\ \E end \in Ends({"save"}) : Save(end = "ok")
    /\ UNCHANGED <<proc, running, hooks, asker>>

\* Variant: Close waits without cancelling the executions.
CloseWithoutCancel ==
    /\ proc = "up"
    /\ proc' = "closing"
    /\ UNCHANGED <<memory, disk, running, shutdown, creds, hooks, asker, history>>

\* Close: no request is taken any more and every execution is cancelled.
Close ==
    /\ proc = "up"
    /\ proc' = "closing"
    /\ shutdown' = shutdown \cup {a \in Attempts : exec[a] # "none"}
    /\ ctxDone' = ctxDone \cup {a \in Attempts : exec[a] # "none"}
    /\ UNCHANGED <<memory, disk, exec, gate, clock, creds, hooks, asker, history>>

\* What the end of the process takes with it.
Dies ==
    /\ proc' = "down"
    /\ att' = [a \in Attempts |-> Absent]
    /\ ops' = {}
    /\ exec' = [a \in Attempts |-> "none"]
    /\ ctxDone' = {}
    /\ gate' = [a \in Attempts |-> "none"]
    /\ clock' = [a \in Attempts |-> "off"]
    /\ creds' = {}
    /\ shutdown' = {}
    /\ hooks' = {}
    /\ asker' = [a \in Attempts |->
                    [p \in Perms |-> IF asker[a][p] = "idle" THEN "idle" ELSE "done"]]
    /\ UNCHANGED <<disk, history>>

\* Close returns from wg.Wait: no execution and no hook is left.
CloseDone ==
    /\ proc = "closing"
    /\ \A a \in Attempts : exec[a] = "none"
    /\ hooks = {}
    /\ Dies

Crash ==
    /\ Crashes
    /\ proc \in {"up", "closing"}
    /\ Dies

\* Variants: an in-flight attempt is set up to run again; a cancelled receipt
\* with a session is taken for an interrupted one whatever the file's version;
\* the cancel of an interrupted attempt is forgotten; an attempt without a
\* worktree is dropped.
RecoveredToRerun(r) ==
    IF r.phase \in Terminal \cup {"absent", "needs_input"}
    THEN r ELSE [r EXCEPT !.phase = "accepted", !.perm = NoPerm]
RecoveredLegacy(r) ==
    IF r.phase = "cancelled" /\ "cancelPending" \notin r.flags /\ "session" \in r.flags
    THEN [r EXCEPT !.phase = "needs_input"] ELSE r
RecoveredForgettingCancel(r) ==
    IF r.phase \in Terminal \cup {"absent", "needs_input"}
    THEN r ELSE [r EXCEPT !.phase = "needs_input", !.perm = NoPerm, !.flags = @ \ {"cancelPending"}]
RecoveredWithoutFence(r) == IF "fence" \in r.flags THEN Absent ELSE r

\* recoverLocked on one record.
Recovered(r) ==
    IF r.phase \in Terminal \cup {"absent", "needs_input"}
    THEN [r EXCEPT !.perm = NoPerm, !.flags = IF r.perm = NoPerm THEN @ ELSE @ \ {"old"}]
    ELSE [r EXCEPT !.perm = NoPerm, !.flags = @ \ {"old"}, !.phase = "needs_input"]

\* New: load, recover, purge, persist, and the hooks still owed.  A failure on
\* the way leaves the runner down.
Restart ==
    LET m == [a \in Attempts |-> Recovered(dAtt[a])] IN
    /\ proc = "down"
    /\ proc' = "up"
    /\ \E S \in PurgeSets(m) :
        /\ att' = Without(m, S)
        /\ ops' = OpsWithout(dOps, S)
        /\ acked' = OpsWithout(acked, S)
        /\ spent' = OpsWithout(spent, S)
    /\ Save(TRUE)
    /\ LET due == {a \in Attempts : HookDue(att'[a])} IN
       hooks' \in IF "resave" \in Faults THEN SUBSET due ELSE {due}
    /\ UNCHANGED <<running, creds, shutdown, asker>>

-----------------------------------------------------------------------------

Requests(a) ==
    \/ StartAccept(a)
    \/ StartRelaunch(a)
    \/ \E id \in RequestIDs :
        \/ CancelUnseen(a, id)
        \/ CancelFinished(a, id)
        \/ Cancel(a, id)
        \/ Resume(a, id)
        \/ \E p \in Perms : ResumePermission(a, p, id)

Execution(a) ==
    \/ \E s \in SUBSET {"session"} :
        \/ \E kind \in {"progress", "needs_input", "cancelled", "other"} : HarnessEvent(a, kind, s)
        \/ HarnessEventFails(a, s)
        \/ \E result \in Results : ExecEnd(a, result, s)
    \/ ClockExpires(a)
    \/ ExportEnd(a)
    \/ ExportCommit(a)

Permissions(a, p) ==
    \/ AskPermission(a, p)
    \/ ParkRefused(a, p)
    \/ ParkOnPermission(a, p)
    \/ TakeVerdict(a, p)
    \/ CallEnds(a, p)
    \/ AbandonPermission(a, p)

Maintenance(a) ==
    \/ \E result \in {"owed", "settled"} : HookEnds(a, result)
    \/ Age(a)

Process ==
    \/ Sweep
    \/ Close
    \/ CloseDone
    \/ Crash
    \/ Restart

Next ==
    \/ \E a \in Attempts :
        \/ Requests(a)
        \/ Execution(a)
        \/ \E p \in Perms : Permissions(a, p)
        \/ Maintenance(a)
    \/ \E op \in Operations : Replay(op)
    \/ Process

Spec == Init /\ [][Next]_vars

\* Fairness.  Adapter.Run returns once its context is cancelled (the adapters
\* kill their child), a Git export and a cleanup hook run under timeouts, and
\* Close waits for all of them.  Nothing else has to happen.
Stops(a) ==
    /\ a \in ctxDone
    /\ \E result \in Results, s \in SUBSET {"session"} : ExecEnd(a, result, s)
Exported(a) == ExportEnd(a) \/ ExportCommit(a)
HookOver(a) == \E result \in {"owed", "settled"} : HookEnds(a, result)

FairSpec ==
    /\ Spec
    /\ \A a \in Attempts : WF_vars(Stops(a)) /\ WF_vars(Exported(a)) /\ WF_vars(HookOver(a))
    /\ WF_vars(CloseDone)

-----------------------------------------------------------------------------
(* Properties                                                               *)

LivePhases == {"starting", "running", "needs_input", "cancelling"}

\* An attempt whose adapter runs has a live phase and an open permission gate,
\* and one whose result is exported is not over: finishLocked never meets a
\* terminal attempt, and retention never takes an executing one.
RunningIsLive ==
    \A a \in Attempts :
        /\ exec[a] = "run" => att[a].phase \in LivePhases /\ gate[a] # "none"
        /\ exec[a] = "export" => Present(a) /\ ~IsTerminal(a)
        /\ exec[a] # "run" => gate[a] = "none"

\* MaximumCapacity is 1: never two harness children at once, whatever the
\* order of starts, retried starts, resumes, parks, exports and recoveries.
OneChild ==
    \A a, b \in Attempts : exec[a] = "run" /\ exec[b] = "run" => a = b

\* Start and Resume launch only what is on disk: while a child runs, state.json
\* holds its attempt, not over, with the start operation, so that a crash at
\* any point leaves an attempt that is recovered and not started a second time.
LaunchIsDurable ==
    \A a \in Attempts : exec[a] = "run" =>
        /\ dAtt[a].phase \notin Terminal \cup {"absent"}
        /\ StartOp(a) \in dOps

\* A terminal receipt that reached the disk is never reopened or changed into
\* another outcome, by no late event, late export, recovery or replay; only
\* retention removes it.
DurableTerminalIsFinal ==
    [][\A a \in Attempts : dAtt[a].phase \in Terminal =>
            dAtt'[a].phase \in {dAtt[a].phase, "absent"}]_vars

\* "A repeated request with the same identity and content returns the durable
\* prior result": whatever request was answered without an error is on disk.
AckedIsDurable == acked \subseteq dOps

\* A resume that was answered without an error did launch its turn (one that
\* carries a permission verdict launches none).
AckedResumeRan == \A op \in acked : op.kind = "resume" => op \in spent

\* A request launches at most one turn, however often it is sent, also when
\* the runner crashes between its launch and its answer.
OneTurnPerOperation ==
    [][\A a \in Attempts : exec[a] # "run" /\ exec'[a] = "run" =>
            \E op \in spent' \ spent : op.attempt = a]_vars

\* Cancel of an unseen attempt, or of one whose launch failed, fences it: once
\* such a cancel is answered no delayed start launches the attempt, also after
\* a restart.
CancelFences ==
    [][\A a \in Attempts, id \in RequestIDs :
            CancelOp(a, id) \in acked /\ StartOp(a) \notin spent => exec'[a] # "run"]_vars

\* While the process lives (or shuts down in order) an answered cancel is final:
\* the attempt is never launched again, not even by a resume that races the
\* harness's last needs-input event.
CancelIsFinal ==
    [][\A a \in Attempts, id \in RequestIDs :
            CancelOp(a, id) \in acked /\ exec[a] # "run" => exec'[a] # "run"]_vars

\* A crash does not undo an answered cancel: on disk the attempt is over or still
\* marked as cancelled, although recovery parks it, unless a later resume asked
\* for it to go on.
CancelIsRemembered ==
    \A a \in Attempts, id \in RequestIDs :
        CancelOp(a, id) \in acked =>
            \/ dAtt[a].phase \in Terminal \cup {"absent"}
            \/ "cancelPending" \in dAtt[a].flags
            \/ \E later \in RequestIDs : ResumeOp(a, later) \in dOps

\* What a client was told survives: the operation is on disk, an answered resume
\* did run and is not a mere entry, and an answered cancel outlives a crash.
AckedIsRemembered == AckedIsDurable /\ AckedResumeRan /\ CancelIsRemembered

\* An answered cancel ends: the attempt is over, unless the process ends first.
CancelCompletes ==
    \A a \in Attempts, id \in RequestIDs :
        CancelOp(a, id) \in acked /\ proc = "up"
            ~> proc # "up" \/ ~Present(a) \/ IsTerminal(a)

\* Close returns.
CloseCompletes == proc = "closing" ~> proc = "down"

\* Whoever asked for an end gets it: a cancel reaches the adapter, the export
\* and the record, and Close outlives every execution and hook it cancels.
StopsComplete == CancelCompletes /\ CloseCompletes

\* A Git result that was committed: finishGitResultLocked completes the attempt
\* without what finishLocked clears.
CommittedExport(a) == a \in Exports /\ att[a].phase = "completed"

\* "The caller's identity is kept only while a turn is actually executing": a
\* parked or finished attempt without execution has no credential in memory,
\* but for a committed Git result.
CredentialNotIdle ==
    \A a \in creds : exec[a] = "none" =>
        att[a].phase \notin Terminal \cup {"needs_input"} \/ CommittedExport(a)

\* "A permission park is only ever live": a request on the receipt means that
\* the adapter that raised it still runs, unless its Git result is or was
\* exported; and the request a blocked call waits for is the one on the receipt,
\* so that a verdict on what a client is shown reaches that call.
PermissionIsLive ==
    \A a \in Attempts :
        /\ att[a].perm # NoPerm => exec[a] \in {"run", "export"} \/ CommittedExport(a)
        /\ gate[a] \in Perms => att[a].perm = gate[a]

\* The duration limit bounds work, not waiting: the clock stands exactly while
\* the gate waits for a verdict.  A clock left paused would lose the limit, one
\* left ticking would kill a turn that waits for a human.
ClockStopsWhileParked ==
    \A a \in Attempts :
        /\ gate[a] \in Perms => clock[a] # "ticking"
        /\ clock[a] = "paused" => gate[a] \in Perms

\* A configured resource is never promised to more attempts than it has room
\* for, in memory and on disk, and whoever executes holds what it asked for.
ResourceNotOvercommitted ==
    /\ Cardinality({a \in Attempts : "holds" \in att[a].flags}) <= ResourceCapacity
    /\ Cardinality({a \in Attempts : "holds" \in dAtt[a].flags}) <= ResourceCapacity
    /\ \A a \in Users : exec[a] = "run" => "holds" \in att[a].flags

\* Retention drops an attempt with everything that names it: a recorded
\* operation always finds its attempt, a hook its record, a credential its
\* attempt.
NothingOrphaned ==
    /\ \A op \in ops : Present(op.attempt)
    /\ \A op \in dOps : dAtt[op.attempt].phase # "absent"
    /\ \A a \in creds \cup hooks \cup shutdown : Present(a)

\* What the runner holds, it holds for somebody: credentials for a turn that
\* executes, reservations within the capacity, operations, hooks and shutdown
\* marks for an attempt that exists.
HoldingsAreOwed == CredentialNotIdle /\ ResourceNotOvercommitted /\ NothingOrphaned

-----------------------------------------------------------------------------
(* The inductive invariant of the proofs                                    *)

\* Nothing executes while the process is down.
DownIsEmpty == proc = "down" => \A a \in Attempts : exec[a] = "none"

\* The single place of the runner belongs to at most one attempt: the one
\* whose child runs, or the one that was accepted and waits to be launched (a
\* start or resume whose launch failed).  OneChild does not say the latter, and
\* without it a retried start could launch next to a running child.
Occupies(a)  == exec[a] = "run" \/ att[a].phase = "accepted"
OneOccupant  == \A a, b \in Attempts : Occupies(a) /\ Occupies(b) => a = b

\* A live attempt has its start operation beside it, in memory and on disk.
Live(r) == r.phase \notin Terminal \cup {"absent"}
LiveIsStarted ==
    \A a \in Attempts :
        /\ Live(att[a]) => StartOp(a) \in ops
        /\ Live(dAtt[a]) => StartOp(a) \in dOps

\* The invariant of the engine behind OneChild and LaunchIsDurable: whatever
\* Start, Resume, the callbacks, the exports and New do, the one occupant is
\* counted by activeCountLocked and its record is on disk while it runs.
EngineInv ==
    /\ DownIsEmpty
    /\ RunningIsLive
    /\ OneOccupant
    /\ LiveIsStarted
    /\ LaunchIsDurable

=============================================================================
