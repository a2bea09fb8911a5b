----------------------------- MODULE AgentRuns -----------------------------
(* The durable queue of the agents provider, followed for one unattended run *)
(* (a schedule, a trigger or a channel message).  A run has two records: the *)
(* row in the provider store, which is authoritative, and the Run object,    *)
(* which is the queue.  The replica that leads reconciles the object: it     *)
(* claims a queued run for itself, executes it in its own process, recovers  *)
(* a run whose owner is gone and stops one that is overdue or that was       *)
(* picked up too often.  A replica that loses the lease lives on, and so do  *)
(* its turns.  Every replica executes turns, answers approvals and cancels,  *)
(* and every save of the row is followed by a projection onto the object,    *)
(* which a death of the process in between loses.                            *)
(*                                                                           *)
(* Sources: providers/agents/controller/run/controller.go and, under         *)
(* providers/agents/api, background.go, run.go, runs.go, resume.go,          *)
(* recover.go, retry.go and runprojection.go.                                *)
EXTENDS Naturals, FiniteSets

CONSTANTS Replicas,     \* the processes of the provider
          Serving,      \* those that users and the agent's other runs are on
          NoOne,        \* no owner, no leader
          Former,       \* the name of a process that is gone
          Leasing,      \* those that can lose the lease and live on
          Turns,        \* the turns of this run a replica can have going at once
          MaxClaims,    \* MaxClaims
          MaxAttempts,  \* the retry policy of the run
          MaxRecovery,  \* maxRecoveryAttempts
          KeepsName,    \* a replica that is started again claims under its old name
          SlowStarts,   \* a claim may grow older than ClaimGrace before Running is written
          LateWakes     \* a wake-up may be projected after the run was claimed for it

ASSUME AgentAssumption ==
    /\ MaxClaims \in Nat \ {0} /\ MaxAttempts \in Nat \ {0} /\ MaxRecovery \in Nat
    /\ KeepsName \in BOOLEAN /\ SlowStarts \in BOOLEAN /\ LateWakes \in BOOLEAN
    /\ IsFiniteSet(Replicas) /\ IsFiniteSet(Turns)
    /\ Serving \subseteq Replicas /\ Leasing \subseteq Replicas /\ {NoOne, Former} \cap Replicas = {} /\ NoOne # Former
    /\ Turns \subseteq Nat /\ Turns # {}

VARIABLES obj,      \* the Run object: its status
          row,      \* the row of the run in the store
          sub,      \* how far its submission is
          leader,   \* the replica that holds the lease
          rec,      \* the reconcile worker of each replica
          user,     \* the replica that serves a user's cancel
          exec,     \* the turns of this run on each replica
          ctx,      \* whether the registered turn's context was cancelled
          proj,     \* a save whose projection is still to be written
          kills,    \* how many processes died executing the run
          overtaken \* whether a turn was recovered alive, a claim grew old before its turn
                    \* was seen to run, or a hand-back was written over

vars == <<obj, row, sub, leader, rec, user, exec, ctx, proj, kills, overtaken>>

Final == {"Succeeded", "Failed", "Aborted"}
Settled == Final \cup {"Approval"}
Phases == {"none", "new", "Pending", "Running"} \cup Settled

NoRow == [phase |-> "none", cancel |-> FALSE, retries |-> 0, retry |-> "no",
          ckpt |-> FALSE, recovered |-> 0, started |-> "no"]

Init ==
    /\ obj = [phase |-> "none", owner |-> NoOne, age |-> "no", attempt |-> 0,
              retry |-> "no", started |-> "no", deadline |-> "no"]
    /\ row = NoRow
    /\ sub = "row" /\ leader = NoOne /\ user = NoOne /\ kills = 0 /\ overtaken = FALSE
    /\ rec = [p \in Replicas |-> "idle"]
    /\ exec = [p \in Replicas |-> [t \in Turns |-> "none"]]
    /\ ctx = [p \in Replicas |-> FALSE]
    /\ proj = [p \in Replicas |-> FALSE]

(* ---- the two records --------------------------------------------------- *)

\* The status the row gives the object.  A final phase stays, a run that went
\* on is not queued again unless it was handed back; the claim, its count and
\* the deadline are the reconciler's and are carried over.
Projected(o, r) ==
    IF \/ r.phase = "none"
       \/ o.phase \in Final /\ r.phase \notin Final
       \/ r.phase = "Pending" /\ o.phase \notin {"new", "Pending"} /\ r.retry = "no"
    THEN o
    ELSE [o EXCEPT !.phase = r.phase,
                   !.started = IF r.phase = "Running" THEN r.started ELSE "no",
                   !.retry = IF r.phase = "Pending" THEN r.retry ELSE "no"]

\* finishRun, which has nothing to do for a row that is gone.
Closed(r, phase) ==
    IF r.phase = "none" THEN r ELSE [r EXCEPT !.phase = phase, !.ckpt = FALSE]

\* saveRun: the row, then its projection by the same replica.
Save(p, r) ==
    /\ row' = r
    /\ proj' = [proj EXCEPT ![p] = TRUE]

Project(p) ==
    /\ proj[p]
    /\ obj' = Projected(obj, row)
    /\ proj' = [proj EXCEPT ![p] = FALSE]
    /\ UNCHANGED <<row, sub, leader, rec, user, exec, ctx, kills, overtaken>>

(* ---- submission -------------------------------------------------------- *)

\* saveNewRun: the row first, then the object, then its status.
SubmitRow ==
    /\ sub = "row"
    /\ row' = [row EXCEPT !.phase = "Pending"]
    /\ sub' = "object"
    /\ UNCHANGED <<obj, leader, rec, user, exec, ctx, proj, kills, overtaken>>

\* An object that is there already, because a cancel was projected, is kept.
SubmitObject ==
    /\ sub = "object"
    /\ obj' = [obj EXCEPT !.phase = IF @ = "none" THEN "new" ELSE @]
    /\ sub' = "status"
    /\ UNCHANGED <<row, leader, rec, user, exec, ctx, proj, kills, overtaken>>

\* The first status is the snapshot of the submission, not the row.
SubmitStatus ==
    /\ sub = "status"
    /\ obj' = Projected(obj, [phase |-> "Pending", retry |-> "no", started |-> "no"])
    /\ sub' = "done"
    /\ overtaken' = (overtaken \/ row.retry # "no")
    /\ UNCHANGED <<row, leader, rec, user, exec, ctx, proj, kills>>

\* The submitter dies, or takes the row out again: the object, or its status,
\* could not be written.  By then no turn of the run has begun.
SubmitEnds ==
    /\ sub \in {"object", "status"}
    /\ sub' = "done"
    /\ \/ UNCHANGED row
       \/ /\ \A p \in Replicas, t \in Turns : exec[p][t] \in {"none", "queued"}
          /\ row' = NoRow
    /\ UNCHANGED <<obj, leader, rec, user, exec, ctx, proj, kills, overtaken>>

(* ---- the turns of a replica -------------------------------------------- *)

Alive(p) == \E t \in Turns : exec[p][t] \in {"claimed", "prep", "running", "resumed"}
Registered(p) == \E t \in Turns : exec[p][t] \in {"prep", "running", "resumed"}
Free(p) == {t \in Turns : exec[p][t] = "none"}
FreeTurn(p) == CHOOSE t \in Free(p) : \A s \in Free(p) : t <= s
Now(p, t, state) == exec' = [exec EXCEPT ![p][t] = state]

\* handle: the queued job reads agent and row.  What it cannot read it only
\* logs; a run that was cancelled or is no longer pending is not started.
Starts(p, t) ==
    /\ exec[p][t] = "queued" /\ ~proj[p]
    /\ \E starts \in BOOLEAN :
          /\ starts => row.phase = "Pending" /\ ~row.cancel
          /\ Now(p, t, IF starts THEN "prep" ELSE "none")
          /\ ctx' = [ctx EXCEPT ![p] = @ /\ ~starts]
    /\ UNCHANGED <<obj, row, sub, leader, rec, user, proj, kills, overtaken>>

\* runTurn, the turn starts: the row of a running run is written anew.  A
\* harness is given its first checkpoint with it.
Begins(p, t) ==
    /\ exec[p][t] = "prep" /\ ~proj[p] /\ ~ctx[p]
    /\ \E harness \in BOOLEAN :
          Save(p, [row EXCEPT !.phase = "Running", !.retry = "no", !.ckpt = harness,
                              !.recovered = 0, !.started = "young"])
    /\ Now(p, t, "running")
    /\ UNCHANGED <<obj, sub, leader, rec, user, ctx, kills, overtaken>>

\* failBeforeStart: the setup of the turn failed or its context was cancelled.
FailsBeforeStart(p, t) ==
    /\ exec[p][t] = "prep" /\ ~proj[p]
    /\ Save(p, Closed(row, "Failed"))
    /\ Now(p, t, "none")
    /\ ctx' = [ctx EXCEPT ![p] = FALSE]
    /\ UNCHANGED <<obj, sub, leader, rec, user, kills, overtaken>>

\* checkpointRecorder: only a running row is given one.
Checkpoints(p, t) ==
    /\ exec[p][t] \in {"running", "resumed"} /\ ~proj[p]
    /\ row.phase = "Running" /\ ~row.ckpt
    /\ Save(p, [row EXCEPT !.ckpt = TRUE])
    /\ UNCHANGED <<obj, sub, leader, rec, user, exec, ctx, kills, overtaken>>

\* retryRun: a refused turn goes back to the queue while its attempts last.
HandedBack(r) ==
    [r EXCEPT !.phase = "Pending", !.retries = @ + 1, !.retry = "later",
              !.started = "no", !.ckpt = FALSE]
Retries(r) == ~r.cancel /\ r.retries + 1 < MaxAttempts

\* The turn ends: finishRun, parkRun or retryRun.
Ended ==
    {Closed(row, phase) : phase \in Final}
        \cup {[row EXCEPT !.phase = "Approval", !.ckpt = TRUE]}
        \cup (IF Retries(row) THEN {HandedBack(row)} ELSE {})

Ends(p, t) ==
    /\ exec[p][t] \in {"running", "resumed"} /\ ~proj[p]
    /\ IF ctx[p] THEN Save(p, Closed(row, "Aborted"))
                 ELSE \E r \in Ended : Save(p, r)
    /\ Now(p, t, "none")
    /\ ctx' = [ctx EXCEPT ![p] = FALSE]
    /\ UNCHANGED <<obj, sub, leader, rec, user, kills, overtaken>>

\* resumeRun and the second look at the row in runTurn: a cancel that closed
\* the run between its claim and its registration is not undone.
Resumes(p, t) ==
    /\ exec[p][t] = "claimed" /\ ~proj[p]
    /\ \/ row.cancel /\ Now(p, t, "none") /\ UNCHANGED <<row, proj>>
       \/ ~row.cancel /\ Now(p, t, "resumed") /\ UNCHANGED <<row, proj>>
       \/ Now(p, t, "none") /\ Save(p, Closed(row, "Failed"))
    /\ ctx' = [ctx EXCEPT ![p] = FALSE]
    /\ UNCHANGED <<obj, sub, leader, rec, user, kills, overtaken>>

(* ---- what users and other runs do -------------------------------------- *)

\* A person resolves the inbox item, on a replica that need not lead: ClaimRun and resumeRun.
Approve(p) ==
    /\ p \in Serving /\ row.phase = "Approval" /\ ~row.cancel /\ ~proj[p] /\ Free(p) # {}
    /\ Save(p, [row EXCEPT !.phase = "Running", !.started = IF @ = "no" THEN "young" ELSE @])
    /\ Now(p, FreeTurn(p), "claimed")
    /\ UNCHANGED <<obj, sub, leader, rec, user, ctx, kills, overtaken>>

\* cancelStoredRun: the durable request, then whoever executes it here or, if
\* nobody does, the terminal phase.
Cancel(p) ==
    /\ p \in Serving /\ user = NoOne
    /\ row.phase \in {"Pending", "Running", "Approval"}
    /\ row' = [row EXCEPT !.cancel = TRUE]
    /\ user' = p
    /\ UNCHANGED <<obj, sub, leader, rec, exec, ctx, proj, kills, overtaken>>

CloseOrInterrupt(p) ==
    IF Registered(p)
    THEN ctx' = [ctx EXCEPT ![p] = TRUE] /\ UNCHANGED <<row, proj>>
    ELSE Save(p, Closed(row, "Aborted")) /\ UNCHANGED ctx

CancelEnds(p) ==
    /\ user = p /\ ~proj[p]
    /\ CloseOrInterrupt(p)
    /\ user' = NoOne
    /\ UNCHANGED <<obj, sub, leader, rec, exec, kills, overtaken>>

\* wakeNextQueued: another run of the agent finished on this replica.  The
\* wake-up is saved and projected; unless LateWakes, both have happened, and so
\* has the projection of the hand-back, before the run is claimed again.
Wake(p) ==
    /\ p \in Serving /\ row.phase = "Pending" /\ row.retry = "later" /\ ~row.cancel /\ ~proj[p]
    /\ LateWakes \/ \A q \in Replicas : ~proj[q]
    /\ LET woken == [row EXCEPT !.retry = "due"] IN
          /\ row' = woken
          /\ obj' = IF LateWakes THEN obj ELSE Projected(obj, woken)
          /\ proj' = [proj EXCEPT ![p] = LateWakes]
    /\ UNCHANGED <<sub, leader, rec, user, exec, ctx, kills, overtaken>>

(* ---- the reconciler ---------------------------------------------------- *)

Reconciles(p) == leader = p /\ rec[p] = "idle" /\ ~proj[p] /\ obj.phase # "none"
Worker(p, state) == rec' = [rec EXCEPT ![p] = state]

\* Reconcile's first question: picked up for the last time and still queued.
LastClaimSpent == obj.phase = "Pending" /\ obj.attempt >= MaxClaims

\* A claim that looks at nothing but the phase.
ClaimableAnyhow(p) == obj.phase \in {"new", "Pending"} /\ obj.attempt < MaxClaims

\* A claim that never takes over the one of a process that died.
ClaimableUnclaimed(p) ==
    /\ obj.phase \in {"new", "Pending"} /\ obj.attempt < MaxClaims
    /\ IF obj.retry # "no" THEN obj.retry = "due" ELSE obj.owner = NoOne

\* claimable: queued, not picked up too often, and either handed back and due,
\* unclaimed, or under the old claim of another process.
Claimable(p) ==
    /\ obj.phase \in {"new", "Pending"} /\ obj.attempt < MaxClaims
    /\ IF obj.retry # "no"
       THEN obj.retry = "due"
       ELSE obj.owner = NoOne \/ (obj.owner # p /\ obj.age = "old")

\* stranded: a run under way whose owner is another process, past the grace.
Elsewhere(p) == obj.phase = "Running" /\ obj.owner \notin {NoOne, p}
Stranded(p) == Elsewhere(p) /\ obj.age = "old"

\* The executor's hand-back opens a new series of pickups, a failed dispatch
\* (which released the owner) continues the old one.
Pickups(o) == IF o.retry # "no" /\ o.owner # NoOne THEN 1 ELSE o.attempt + 1

\* claimAndDispatch, the claim: the status write is the lock.  A write that
\* conflicts changes nothing and is not a step.
Claim(p) ==
    /\ Reconciles(p) /\ ~LastClaimSpent /\ Claimable(p)
    /\ obj' = [obj EXCEPT !.phase = "Pending", !.owner = p, !.age = "fresh",
                          !.attempt = Pickups(obj), !.retry = "no",
                          !.deadline = IF obj.retry # "no" THEN "no" ELSE @]
    /\ Worker(p, "claimed")
    /\ UNCHANGED <<row, sub, leader, user, exec, ctx, proj, kills, overtaken>>

\* DispatchRun: a cancelled run is closed, a settled one left alone, any other
\* is started in this process; an unreadable row or a full replica refuses.
Dispatch(p) ==
    /\ rec[p] = "claimed" /\ ~proj[p]
    /\ \/ /\ Worker(p, "refused")
          /\ UNCHANGED <<row, exec, proj>>
       \/ /\ row.cancel
          /\ Save(p, Closed(row, "Aborted"))
          /\ Worker(p, "idle") /\ UNCHANGED exec
       \/ /\ ~row.cancel /\ row.phase \in Settled
          /\ Worker(p, "idle") /\ UNCHANGED <<row, exec, proj>>
       \/ /\ ~row.cancel /\ row.phase \notin Settled \cup {"none"} /\ Free(p) # {}
          /\ Now(p, FreeTurn(p), "queued")
          /\ Worker(p, "idle") /\ UNCHANGED <<row, proj>>
    /\ UNCHANGED <<obj, sub, leader, user, ctx, kills, overtaken>>

\* handBack: unowned, with a wake-up, unless the run moved on meanwhile.
HandBack(p) ==
    /\ rec[p] = "refused"
    /\ obj' = IF obj.owner = p /\ obj.phase = "Pending"
              THEN [obj EXCEPT !.owner = NoOne, !.age = "no", !.retry = "later"]
              ELSE obj
    /\ Worker(p, "idle")
    /\ UNCHANGED <<row, sub, leader, user, exec, ctx, proj, kills, overtaken>>

\* StopRun: the durable cancel request, then the turn here or the row.  Without
\* a row it is an error, and is tried again.
Stop(p) ==
    /\ row.phase \notin Settled \cup {"none"}
    /\ row' = [row EXCEPT !.cancel = TRUE]
    /\ Worker(p, "stopping")
    /\ UNCHANGED <<obj, sub, leader, user, exec, ctx, proj, kills, overtaken>>

Abandon(p) == Reconciles(p) /\ LastClaimSpent /\ Stop(p)

StopEnds(p) ==
    /\ rec[p] = "stopping" /\ ~proj[p]
    /\ CloseOrInterrupt(p)
    /\ Worker(p, "idle")
    /\ UNCHANGED <<obj, sub, leader, user, exec, kills, overtaken>>

\* The harness attempt a checkpoint names is stopped before the row is closed;
\* when its runner does not answer, the caller retries.
RemoteStopFails(p) ==
    /\ row.ckpt /\ ~Registered(p) /\ ~proj[p]
    /\ \/ user = p /\ user' = NoOne /\ UNCHANGED rec
       \/ rec[p] = "stopping" /\ Worker(p, "idle") /\ UNCHANGED user
    /\ UNCHANGED <<obj, row, sub, leader, exec, ctx, proj, kills, overtaken>>

\* A recovery that is not counted against the limit.
RecoverableAlways == row.ckpt

\* RecoverRun and recoverRun: a turn that lives here is left alone, a cancelled
\* run closed, one without a checkpoint or recovered too often failed, any
\* other claimed at its revision and resumed here.
Recoverable == row.ckpt /\ row.recovered < MaxRecovery

Recover(p) ==
    /\ Reconciles(p) /\ Stranded(p)
    /\ row.phase \notin Settled /\ ~Registered(p)
    /\ \/ row.cancel /\ Save(p, Closed(row, "Aborted")) /\ UNCHANGED exec
       \/ ~row.cancel /\ Save(p, Closed(row, "Failed")) /\ UNCHANGED exec
       \/ /\ ~row.cancel /\ Recoverable /\ row.phase = "Running"
          /\ Save(p, [row EXCEPT !.recovered = @ + 1])
          /\ IF \E t \in Turns : exec[p][t] = "claimed"
             THEN UNCHANGED exec
             ELSE Free(p) # {} /\ Now(p, FreeTurn(p), "claimed")
    /\ overtaken' = (overtaken \/ (exec' # exec /\ \E q \in Replicas : Alive(q)))
    /\ UNCHANGED <<obj, sub, leader, rec, user, ctx, kills>>

\* enforceDeadline is reached by what is neither queued nor under way
\* elsewhere.  The deadline is the start plus the limit.
Stamp(p) ==
    /\ Reconciles(p) /\ obj.phase = "Running" /\ ~Elsewhere(p)
    /\ obj.started # "no" /\ obj.deadline = "no"
    /\ obj' = [obj EXCEPT !.deadline = IF obj.started = "old" THEN "due" ELSE "later"]
    /\ UNCHANGED <<row, sub, leader, rec, user, exec, ctx, proj, kills, overtaken>>

Clear(p) ==
    /\ Reconciles(p) /\ obj.phase \in Settled /\ obj.deadline # "no"
    /\ obj' = [obj EXCEPT !.deadline = "no"]
    /\ UNCHANGED <<row, sub, leader, rec, user, exec, ctx, proj, kills, overtaken>>

Overdue(p) ==
    /\ Reconciles(p) /\ obj.phase = "Running" /\ ~Elsewhere(p)
    /\ obj.deadline = "due"
    /\ Stop(p)

(* ---- time, leadership and death ---------------------------------------- *)

Late(mark) == IF mark = "later" THEN "due" ELSE mark
Old(mark) == IF mark \in {"young", "fresh"} THEN "old" ELSE mark

\* The claim's process is still on the way from the claim to the Running it writes.
Starting(p) ==
    /\ p \in Replicas
    /\ \/ rec[p] = "claimed" \/ \E t \in Turns : exec[p][t] \in {"queued", "prep"}
       \/ obj.phase = "Pending" /\ proj[p]

\* A submission is over, one way or the other, within the same 10 s; the grace
\* of a claim is two minutes, a limit longer.  That a claim does not grow old
\* before its Running is written is what ClaimGrace is chosen for; nothing in
\* the code makes it so, and SlowStarts lets it happen.
GracePasses ==
    /\ obj.age = "fresh" /\ obj.phase \notin Final /\ sub = "done"
    /\ SlowStarts \/ ~Starting(obj.owner)
    /\ obj' = [obj EXCEPT !.age = "old"]
    /\ overtaken' = (overtaken \/ Starting(obj.owner))
    /\ UNCHANGED <<row, sub, leader, rec, user, exec, ctx, proj, kills>>

\* A retry waits a minute at least (runRetryBaseBackoff; 30 s for a dispatch),
\* a projection is given up after 10 s (projectionTimeout): those in flight when
\* the run was handed back are over when its retry comes.
RetryComes ==
    /\ "later" \in {obj.retry, row.retry}
    /\ sub = "done" /\ \A p \in Replicas : ~proj[p]
    /\ obj' = [obj EXCEPT !.retry = Late(@)]
    /\ row' = [row EXCEPT !.retry = Late(@)]
    /\ UNCHANGED <<sub, leader, rec, user, exec, ctx, proj, kills, overtaken>>

\* The time limit of the run passes since its start.
LimitPasses ==
    /\ \/ row.started = "young" /\ row.phase \notin Final
       \/ obj.deadline = "later" /\ obj.phase \notin Final
    /\ sub = "done"
    /\ obj' = [obj EXCEPT !.started = Old(@), !.deadline = Late(@)]
    /\ row' = [row EXCEPT !.started = Old(@)]
    /\ UNCHANGED <<sub, leader, rec, user, exec, ctx, proj, kills, overtaken>>

\* A replica campaigns again only when the reconciles of its last term are over.
Elect(p) ==
    /\ leader = NoOne /\ rec[p] = "idle"
    /\ leader' = p
    /\ UNCHANGED <<obj, row, sub, rec, user, exec, ctx, proj, kills, overtaken>>

\* The lease is lost or given up while the process lives: its reconciles end,
\* the turns it was handed go on (execute runs on the provider's context).
Loses(p) ==
    /\ leader = p /\ p \in Leasing
    /\ leader' = NoOne
    /\ UNCHANGED <<obj, row, sub, rec, user, exec, ctx, proj, kills, overtaken>>

\* A reconcile whose term has ended fails with its context, wherever it is; a
\* call that is under way by then may still be answered.
Quits(p) ==
    /\ leader # p /\ rec[p] # "idle"
    /\ Worker(p, "idle")
    /\ UNCHANGED <<obj, row, sub, leader, user, exec, ctx, proj, kills, overtaken>>

\* The process ends and is started again: what it held in memory is gone, and
\* its name with it unless the name is the pod's.
Dies(p) ==
    /\ leader' = IF leader = p THEN NoOne ELSE leader
    /\ user' = IF user = p THEN NoOne ELSE user
    /\ obj' = IF obj.owner = p /\ ~KeepsName THEN [obj EXCEPT !.owner = Former] ELSE obj
    /\ Worker(p, "idle")
    /\ exec' = [exec EXCEPT ![p] = [t \in Turns |-> "none"]]
    /\ ctx' = [ctx EXCEPT ![p] = FALSE]
    /\ proj' = [proj EXCEPT ![p] = FALSE]
    /\ kills' = kills + (IF Registered(p) THEN 1 ELSE 0)
    /\ UNCHANGED <<row, sub, overtaken>>

TimePasses == GracePasses \/ RetryComes \/ LimitPasses

Begin(p) == Claim(p) \/ Abandon(p) \/ Recover(p) \/ Stamp(p) \/ Overdue(p)
Finish(p) == Dispatch(p) \/ HandBack(p) \/ StopEnds(p)
Turn(p, t) ==
    \/ Starts(p, t) \/ Begins(p, t) \/ FailsBeforeStart(p, t)
    \/ Checkpoints(p, t) \/ Ends(p, t) \/ Resumes(p, t)

Next ==
    \/ SubmitRow \/ SubmitObject \/ SubmitStatus \/ SubmitEnds
    \/ TimePasses
    \/ \E p \in Replicas :
          \/ Begin(p) \/ Finish(p) \/ RemoteStopFails(p) \/ Clear(p) \/ Project(p)
          \/ Approve(p) \/ Cancel(p) \/ CancelEnds(p) \/ Wake(p)
          \/ Elect(p) \/ Loses(p) \/ Quits(p) \/ Dies(p)
          \/ \E t \in Turns : Turn(p, t)

Spec == Init /\ [][Next]_vars

(* Replicas are replaced again and again, as deploys do; somebody is elected, *)
(* time passes, and a reconcile that can go on again and again goes on.       *)
FairSpec ==
    /\ Spec
    /\ WF_vars(TimePasses) /\ WF_vars(SubmitEnds)
    /\ WF_vars(\E p \in Replicas : Elect(p))
    /\ SF_vars(\E p \in Replicas : Begin(p)) /\ SF_vars(\E p \in Replicas : Finish(p))
    /\ \A p \in Replicas : WF_vars(Dies(p))

(* ---- properties -------------------------------------------------------- *)

Marks == {"no", "later", "due"}

\* Every record of the run, of its workers and of its turns is well formed;
\* in particular a claim is counted at most MaxClaims times in a series and a
\* recovery at most MaxRecovery times.
RunTypeOK ==
    /\ obj \in [phase : Phases, owner : Replicas \cup {NoOne, Former},
                age : {"no", "fresh", "old"}, attempt : 0..MaxClaims, retry : Marks,
                started : {"no", "young", "old"}, deadline : Marks]
    /\ row \in [phase : Phases \ {"new"}, cancel : BOOLEAN, retries : 0..(MaxAttempts - 1),
                retry : Marks, ckpt : BOOLEAN, recovered : 0..MaxRecovery,
                started : {"no", "young", "old"}]
    /\ sub \in {"row", "object", "status", "done"}
    /\ leader \in Replicas \cup {NoOne} /\ user \in Replicas \cup {NoOne}
    /\ rec \in [Replicas -> {"idle", "claimed", "refused", "stopping"}]
    /\ exec \in [Replicas -> [Turns -> {"none", "queued", "prep", "running", "claimed", "resumed"}]]
    /\ ctx \in [Replicas -> BOOLEAN] /\ proj \in [Replicas -> BOOLEAN]
    /\ kills \in Nat /\ overtaken \in BOOLEAN

\* A run that was started from the queue is not started from it again while
\* that turn is prepared or executed, here or elsewhere, although claims are
\* redelivered, grow old, are handed back, woken and taken over, and although
\* leaders lose the lease and go on (claimAndDispatch, handle).  It is said of
\* a run that was not overtaken.  A run recovered alive has two turns, one of
\* which may hand it back while the queue starts the other anew; a claim that
\* grew old before its process wrote Running is taken over with the turn still
\* to start (the comment of ClaimGrace: the run is executed twice); and a first
\* status that comes after a hand-back takes its wake-up from the object.
StartedOnce ==
    [][\A p \in Replicas, t \in Turns :
          exec[p][t] = "queued" /\ exec'[p][t] = "prep" /\ ~overtaken =>
             \A q \in Replicas, u \in Turns : exec[q][u] \notin {"prep", "running"}]_vars

\* A run is recovered only when the process that executed it is gone: nobody
\* else has a turn of it (stranded).  The code does not keep it: neither a
\* person's approval on another replica nor the end of a leader's term takes
\* the run from the process that executes it, or its name off the object.
OnlyTheDeadAreRecovered ==
    [][row'.recovered > row.recovered => \A p \in Replicas : ~Registered(p)]_vars

\* A run that kills whatever executes it is given up: in each series of pickups
\* it takes MaxClaims processes from the queue, each with the recoveries that
\* its start allows, and only a refused turn opens another series (Begins sets
\* recovered to 0).  While no turn was overtaken the recoveries of a series are
\* those of one start: a run that was seen to run is not claimed again before
\* it is handed back.
KillsAreBounded ==
    /\ kills <= MaxAttempts * MaxClaims * (1 + MaxRecovery)
    /\ ~overtaken => kills <= MaxAttempts * (MaxClaims + MaxRecovery)

\* A run whose object exists does not wait forever on both its records: while
\* replicas are replaced, each of them by one with another name, the row or
\* the object reaches a phase that is settled, unless the submission took the
\* row out again (claimable, stranded, abandon).
QueuedRunSettles ==
    obj.phase # "none" ~> (row.phase \in Settled \cup {"none"} \/ obj.phase \in Settled)

\* The deadline of a run that a person let go on is measured afresh: it is
\* not over when it is stamped, before the resumed turn has begun
\* (enforceDeadline, deadlineFor).
ResumeIsMeasuredAfresh ==
    [][\A p \in Replicas :
          Stamp(p) /\ (\E q \in Replicas, t \in Turns : exec[q][t] = "claimed")
             => obj'.deadline = "later"]_vars

=============================================================================
