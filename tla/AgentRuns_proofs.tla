-------------------------- MODULE AgentRuns_proofs --------------------------
(* What is proved of the run queue, for any number of replicas, any limits,   *)
(* any grace, and whether or not a new process has its predecessor's name:    *)
(* the records stay well formed, with the pickups of a series, the attempts   *)
(* and the recoveries of a run within their limits.  Moreover, while no       *)
(* wake-up is projected after the claim it led to: the processes a run takes  *)
(* with it are bounded, because each is a claim's or a recovery's, and a      *)
(* claim's turn opens one row of recoveries.  And while, besides, no turn was *)
(* overtaken: one pair of hands has the run from its claim to its report, be  *)
(* it a process that lost the lease since; the run is started only with no    *)
(* turn of it alive; and the recoveries are counted once per attempt.         *)
EXTENDS AgentRuns, FiniteSetTheorems, TLAPS

Objs == [phase : Phases, owner : Replicas \cup {NoOne, Former},
         age : {"no", "fresh", "old"}, attempt : 0..MaxClaims, retry : Marks,
         started : {"no", "young", "old"}, deadline : Marks]
Rows == [phase : Phases \ {"new"}, cancel : BOOLEAN, retries : 0..(MaxAttempts - 1),
         retry : Marks, ckpt : BOOLEAN, recovered : 0..MaxRecovery,
         started : {"no", "young", "old"}]
TurnStates == {"none", "queued", "prep", "running", "claimed", "resumed"}

\* The projection of a row is a well-formed status.
LEMMA ProjectedType ==
    ASSUME NEW o \in Objs, NEW r,
           r.phase \in Phases \ {"new"}, r.retry \in Marks, r.started \in {"no", "young", "old"}
    PROVE  Projected(o, r) \in Objs
<1> DEFINE wake == IF r.phase = "Pending" THEN r.retry ELSE "no"
           start == IF r.phase = "Running" THEN r.started ELSE "no"
<1>1. wake \in Marks /\ start \in {"no", "young", "old"}  BY DEF Marks
<1>2. [o EXCEPT !.phase = r.phase, !.started = start, !.retry = wake] \in Objs
  <2> HIDE DEF wake, start
  <2>1. r.phase \in Phases  OBVIOUS
  <2>2. QED  BY <1>1, <2>1 DEF Objs
<1>3. QED  BY <1>2 DEF Projected

\* finishRun leaves a well-formed row.
LEMMA ClosedType ==
    ASSUME NEW r \in Rows, NEW phase \in Final
    PROVE  Closed(r, phase) \in Rows
BY DEF Closed, Rows, Phases, Settled, Final

\* A save leaves both tables well formed.
LEMMA SaveType ==
    ASSUME NEW p \in Replicas, NEW r \in Rows, Save(p, r), proj \in [Replicas -> BOOLEAN]
    PROVE  row' \in Rows /\ proj' \in [Replicas -> BOOLEAN]
BY DEF Save

\* A turn moves to another state of a turn.
LEMMA NowType ==
    ASSUME NEW p \in Replicas, NEW t, NEW s \in TurnStates, Now(p, t, s),
           exec \in [Replicas -> [Turns -> TurnStates]]
    PROVE  exec' \in [Replicas -> [Turns -> TurnStates]]
BY DEF Now

\* A worker moves to another state of a worker.
LEMMA WorkerType ==
    ASSUME NEW p \in Replicas, NEW s \in {"idle", "claimed", "refused", "stopping"}, Worker(p, s),
           rec \in [Replicas -> {"idle", "claimed", "refused", "stopping"}]
    PROVE  rec' \in [Replicas -> {"idle", "claimed", "refused", "stopping"}]
BY DEF Worker

\* The records of a run that has just been submitted are well formed.
LEMMA TypeInit == ASSUME Init PROVE RunTypeOK
<1> USE AgentAssumption DEF Init
<1>1. obj \in Objs  BY DEF Objs, Phases, Settled, Final, Marks
<1>2. row \in Rows  BY DEF Rows, NoRow, Phases, Settled, Final, Marks
<1>3. QED  BY <1>1, <1>2 DEF RunTypeOK, Objs, Rows

\* Submission and the passing of time.
LEMMA SubmissionAndTime ==
    ASSUME RunTypeOK,
           SubmitRow \/ SubmitObject \/ SubmitStatus \/ SubmitEnds \/ TimePasses
    PROVE  RunTypeOK'
<1> USE AgentAssumption
<1>0. obj \in Objs /\ row \in Rows  BY DEF RunTypeOK, Objs, Rows
<1>1. CASE SubmitRow
  <2>1. row' \in Rows  BY <1>0, <1>1 DEF SubmitRow, Rows, Phases, Settled, Final
  <2>2. QED  BY <1>1, <2>1 DEF SubmitRow, RunTypeOK, Rows
<1>2. CASE SubmitObject
  <2>1. obj' \in Objs  BY <1>0, <1>2 DEF SubmitObject, Objs, Phases
  <2>2. QED  BY <1>2, <2>1 DEF SubmitObject, RunTypeOK, Objs
<1>3. CASE SubmitStatus
  <2>1. obj' \in Objs
    BY <1>0, <1>3 DEF SubmitStatus, Projected, Objs, Phases, Settled, Final, Marks
  <2>2. QED  BY <1>3, <2>1 DEF SubmitStatus, RunTypeOK, Objs
<1>4. CASE SubmitEnds
  <2>1. NoRow \in Rows
    <3>1. 0 \in 0..(MaxAttempts - 1) /\ 0 \in 0..MaxRecovery  OBVIOUS
    <3>2. "none" \in Phases \ {"new"} /\ "no" \in Marks  BY DEF Phases, Marks
    <3>3. QED  BY <3>1, <3>2 DEF NoRow, Rows
  <2>2. row' \in Rows  BY <1>0, <1>4, <2>1 DEF SubmitEnds
  <2>3. QED  BY <1>4, <2>2 DEF SubmitEnds, RunTypeOK, Rows
<1>5. CASE GracePasses
  <2>1. obj' \in Objs  BY <1>0, <1>5 DEF GracePasses, Objs
  <2>2. overtaken' \in BOOLEAN  BY <1>5 DEF GracePasses
  <2>3. QED  BY <1>5, <2>1, <2>2 DEF GracePasses, RunTypeOK, Objs
<1>6. CASE RetryComes
  <2>1. obj' \in Objs /\ row' \in Rows  BY <1>0, <1>6 DEF RetryComes, Late, Objs, Rows, Marks
  <2>2. QED  BY <1>6, <2>1 DEF RetryComes, RunTypeOK, Objs, Rows
<1>7. CASE LimitPasses
  <2>1. obj' \in Objs /\ row' \in Rows
    BY <1>0, <1>7 DEF LimitPasses, Late, Old, Objs, Rows, Marks
  <2>2. QED  BY <1>7, <2>1 DEF LimitPasses, RunTypeOK, Objs, Rows
<1>8. QED  BY <1>1, <1>2, <1>3, <1>4, <1>5, <1>6, <1>7 DEF TimePasses

\* The turns of a replica.
LEMMA TurnTyped ==
    ASSUME RunTypeOK, NEW p \in Replicas, NEW t \in Turns, Turn(p, t)
    PROVE  RunTypeOK'
<1> USE AgentAssumption
<1>0. row \in Rows /\ exec \in [Replicas -> [Turns -> TurnStates]]
      /\ proj \in [Replicas -> BOOLEAN] /\ ctx \in [Replicas -> BOOLEAN]
  BY DEF RunTypeOK, Rows, TurnStates
<1>1. CASE Starts(p, t)
  <2>1. exec' \in [Replicas -> [Turns -> TurnStates]] /\ ctx' \in [Replicas -> BOOLEAN]
    <3>1. PICK starts \in BOOLEAN : /\ Now(p, t, IF starts THEN "prep" ELSE "none")
                                    /\ ctx' = [ctx EXCEPT ![p] = @ /\ ~starts]
      BY <1>1 DEF Starts
    <3>2. (IF starts THEN "prep" ELSE "none") \in TurnStates  BY DEF TurnStates
    <3>3. exec' \in [Replicas -> [Turns -> TurnStates]]  BY <1>0, <3>1, <3>2, NowType
    <3>4. (ctx[p] /\ ~starts) \in BOOLEAN  OBVIOUS
    <3>5. ctx' \in [Replicas -> BOOLEAN]  BY <1>0, <3>1, <3>4
    <3>6. QED  BY <3>3, <3>5
  <2>2. QED  BY <1>1, <2>1 DEF Starts, RunTypeOK, TurnStates
<1>2. CASE Begins(p, t)
  <2>1. PICK harness \in BOOLEAN :
            Save(p, [row EXCEPT !.phase = "Running", !.retry = "no", !.ckpt = harness,
                                !.recovered = 0, !.started = "young"])
    BY <1>2 DEF Begins
  <2>2. [row EXCEPT !.phase = "Running", !.retry = "no", !.ckpt = harness,
                    !.recovered = 0, !.started = "young"] \in Rows
    <3>1. 0 \in 0..MaxRecovery /\ "no" \in Marks  BY DEF Marks
    <3>2. "Running" \in Phases \ {"new"}  BY DEF Phases
    <3>3. QED  BY <1>0, <3>1, <3>2 DEF Rows
  <2>3. row' \in Rows /\ proj' \in [Replicas -> BOOLEAN]  BY <1>0, <2>1, <2>2, SaveType
  <2>4. exec' \in [Replicas -> [Turns -> TurnStates]]
    BY <1>0, <1>2, NowType DEF Begins, TurnStates
  <2>5. QED  BY <1>2, <2>3, <2>4 DEF Begins, RunTypeOK, Rows, TurnStates
<1>3. CASE FailsBeforeStart(p, t)
  <2>1. Closed(row, "Failed") \in Rows  BY <1>0, ClosedType DEF Final
  <2>2. row' \in Rows /\ proj' \in [Replicas -> BOOLEAN]
    BY <1>0, <1>3, <2>1, SaveType DEF FailsBeforeStart
  <2>3. exec' \in [Replicas -> [Turns -> TurnStates]]
    BY <1>0, <1>3, NowType DEF FailsBeforeStart, TurnStates
  <2>4. QED  BY <1>3, <2>2, <2>3 DEF FailsBeforeStart, RunTypeOK, Rows, TurnStates
<1>4. CASE Checkpoints(p, t)
  <2>1. [row EXCEPT !.ckpt = TRUE] \in Rows  BY <1>0 DEF Rows
  <2>2. row' \in Rows /\ proj' \in [Replicas -> BOOLEAN]
    BY <1>0, <1>4, <2>1, SaveType DEF Checkpoints
  <2>3. QED  BY <1>4, <2>2 DEF Checkpoints, RunTypeOK, Rows
<1>5. CASE Ends(p, t)
  <2>1. PICK r \in Ended \cup {Closed(row, "Aborted")} : Save(p, r)  BY <1>5 DEF Ends
  <2>2. r \in Rows
    <3>1. \A phase \in Final : Closed(row, phase) \in Rows  BY <1>0, ClosedType
    <3>2. [row EXCEPT !.phase = "Approval", !.ckpt = TRUE] \in Rows
      BY <1>0 DEF Rows, Phases, Settled
    <3>3. ASSUME Retries(row) PROVE HandedBack(row) \in Rows
      <4>1. row.retries + 1 \in 0..(MaxAttempts - 1)  BY <1>0, <3>3 DEF Retries, Rows
      <4>2. "Pending" \in Phases \ {"new"} /\ "later" \in Marks  BY DEF Phases, Marks
      <4>3. QED  BY <1>0, <4>1, <4>2 DEF HandedBack, Rows
    <3>4. QED  BY <2>1, <3>1, <3>2, <3>3 DEF Ended, Final
  <2>3. row' \in Rows /\ proj' \in [Replicas -> BOOLEAN]  BY <1>0, <2>1, <2>2, SaveType
  <2>4. exec' \in [Replicas -> [Turns -> TurnStates]]
    BY <1>0, <1>5, NowType DEF Ends, TurnStates
  <2>5. QED  BY <1>5, <2>3, <2>4 DEF Ends, RunTypeOK, Rows, TurnStates
<1>6. CASE Resumes(p, t)
  <2>1. Closed(row, "Failed") \in Rows  BY <1>0, ClosedType DEF Final
  <2>2. row' \in Rows /\ proj' \in [Replicas -> BOOLEAN]
    BY <1>0, <1>6, <2>1, SaveType DEF Resumes
  <2>3. exec' \in [Replicas -> [Turns -> TurnStates]]
    BY <1>0, <1>6, NowType DEF Resumes, TurnStates
  <2>4. QED  BY <1>6, <2>2, <2>3 DEF Resumes, RunTypeOK, Rows, TurnStates
<1>7. QED  BY <1>1, <1>2, <1>3, <1>4, <1>5, <1>6 DEF Turn

\* The reconciler of a replica.
LEMMA ReconcilerTyped ==
    ASSUME RunTypeOK, NEW p \in Replicas, Begin(p) \/ Finish(p) \/ RemoteStopFails(p) \/ Clear(p)
    PROVE  RunTypeOK'
<1> USE AgentAssumption
<1>0. obj \in Objs /\ row \in Rows /\ exec \in [Replicas -> [Turns -> TurnStates]]
      /\ proj \in [Replicas -> BOOLEAN] /\ ctx \in [Replicas -> BOOLEAN]
      /\ rec \in [Replicas -> {"idle", "claimed", "refused", "stopping"}]
  BY DEF RunTypeOK, Objs, Rows, TurnStates
<1>A. Closed(row, "Aborted") \in Rows /\ Closed(row, "Failed") \in Rows
  BY <1>0, ClosedType DEF Final
<1>B. ASSUME Stop(p) PROVE RunTypeOK'
  <2>1. row' \in Rows  BY <1>0, <1>B DEF Stop, Rows
  <2>2. rec' \in [Replicas -> {"idle", "claimed", "refused", "stopping"}]
    BY <1>0, <1>B, WorkerType DEF Stop
  <2>3. QED  BY <1>B, <2>1, <2>2 DEF Stop, RunTypeOK, Rows
<1>C. ASSUME CloseOrInterrupt(p)
      PROVE  row' \in Rows /\ proj' \in [Replicas -> BOOLEAN] /\ ctx' \in [Replicas -> BOOLEAN]
  BY <1>0, <1>A, <1>C, SaveType DEF CloseOrInterrupt
<1>1. CASE Claim(p)
  <2>1. Pickups(obj) \in 0..MaxClaims
    BY <1>0, <1>1 DEF Claim, Claimable, Pickups, Objs
  <2>2. obj' \in Objs  BY <1>0, <1>1, <2>1 DEF Claim, Objs, Phases, Marks
  <2>3. rec' \in [Replicas -> {"idle", "claimed", "refused", "stopping"}]
    BY <1>0, <1>1, WorkerType DEF Claim
  <2>4. QED  BY <1>1, <2>2, <2>3 DEF Claim, RunTypeOK, Objs
<1>2. CASE Abandon(p)  BY <1>2, <1>B DEF Abandon
<1>3. CASE Overdue(p)  BY <1>3, <1>B DEF Overdue
<1>4. CASE Recover(p)
  <2>1. Recoverable => [row EXCEPT !.recovered = @ + 1] \in Rows
    BY <1>0 DEF Recoverable, Rows
  <2>2. row' \in Rows /\ proj' \in [Replicas -> BOOLEAN]
    BY <1>0, <1>A, <1>4, <2>1, SaveType DEF Recover
  <2>3. exec' \in [Replicas -> [Turns -> TurnStates]]
    <3>1. exec' = exec \/ Now(p, FreeTurn(p), "claimed")  BY <1>4 DEF Recover
    <3>2. QED  BY <1>0, <3>1, NowType DEF TurnStates
  <2>4. overtaken' \in BOOLEAN  BY <1>4 DEF Recover
  <2>5. QED  BY <1>4, <2>2, <2>3, <2>4 DEF Recover, RunTypeOK, Rows, TurnStates
<1>5. CASE Stamp(p)
  <2>1. obj' \in Objs  BY <1>0, <1>5 DEF Stamp, Objs, Marks
  <2>2. QED  BY <1>5, <2>1 DEF Stamp, RunTypeOK, Objs
<1>6. CASE Clear(p)
  <2>1. obj' \in Objs  BY <1>0, <1>6 DEF Clear, Objs, Marks
  <2>2. QED  BY <1>6, <2>1 DEF Clear, RunTypeOK, Objs
<1>7. CASE Dispatch(p)
  <2>1. PICK w \in {"idle", "refused"} : Worker(p, w)  BY <1>7 DEF Dispatch
  <2>2. rec' \in [Replicas -> {"idle", "claimed", "refused", "stopping"}]
    BY <1>0, <2>1, WorkerType
  <2>3. row' \in Rows /\ proj' \in [Replicas -> BOOLEAN]
    BY <1>0, <1>A, <1>7, SaveType DEF Dispatch
  <2>4. exec' \in [Replicas -> [Turns -> TurnStates]]
    <3>1. exec' = exec \/ Now(p, FreeTurn(p), "queued")  BY <1>7 DEF Dispatch
    <3>2. QED  BY <1>0, <3>1, NowType DEF TurnStates
  <2>5. QED  BY <1>7, <2>2, <2>3, <2>4 DEF Dispatch, RunTypeOK, Rows, TurnStates
<1>8. CASE HandBack(p)
  <2>1. obj' \in Objs  BY <1>0, <1>8 DEF HandBack, Objs, Marks
  <2>2. rec' \in [Replicas -> {"idle", "claimed", "refused", "stopping"}]
    BY <1>0, <1>8, WorkerType DEF HandBack
  <2>3. QED  BY <1>8, <2>1, <2>2 DEF HandBack, RunTypeOK, Objs
<1>9. CASE StopEnds(p)
  <2>1. rec' \in [Replicas -> {"idle", "claimed", "refused", "stopping"}]
    BY <1>0, <1>9, WorkerType DEF StopEnds
  <2>2. QED  BY <1>9, <1>C, <2>1 DEF StopEnds, RunTypeOK, Rows
<1>10. CASE RemoteStopFails(p)
  <2>1. rec' \in [Replicas -> {"idle", "claimed", "refused", "stopping"}]
    BY <1>0, <1>10, WorkerType DEF RemoteStopFails
  <2>2. user' \in Replicas \cup {NoOne}  BY <1>10 DEF RemoteStopFails, RunTypeOK
  <2>3. QED  BY <1>10, <2>1, <2>2 DEF RemoteStopFails, RunTypeOK
<1>11. QED
  BY <1>1, <1>2, <1>3, <1>4, <1>5, <1>6, <1>7, <1>8, <1>9, <1>10 DEF Begin, Finish

\* Users, other runs, projections, elections and deaths.
LEMMA ReplicaTyped ==
    ASSUME RunTypeOK, NEW p \in Replicas,
           \/ Project(p) \/ Approve(p) \/ Cancel(p) \/ CancelEnds(p) \/ Wake(p)
           \/ Elect(p) \/ Loses(p) \/ Quits(p) \/ Dies(p)
    PROVE  RunTypeOK'
<1> USE AgentAssumption
<1>0. obj \in Objs /\ row \in Rows /\ exec \in [Replicas -> [Turns -> TurnStates]]
      /\ proj \in [Replicas -> BOOLEAN] /\ ctx \in [Replicas -> BOOLEAN]
      /\ rec \in [Replicas -> {"idle", "claimed", "refused", "stopping"}]
  BY DEF RunTypeOK, Objs, Rows, TurnStates
<1>1. CASE Project(p)
  <2>1. obj' \in Objs  BY <1>0, <1>1, ProjectedType DEF Project, Rows
  <2>2. QED  BY <1>1, <2>1 DEF Project, RunTypeOK, Objs
<1>2. CASE Approve(p)
  <2>1. [row EXCEPT !.phase = "Running", !.started = IF @ = "no" THEN "young" ELSE @] \in Rows
    BY <1>0 DEF Rows, Phases
  <2>2. row' \in Rows /\ proj' \in [Replicas -> BOOLEAN]
    BY <1>0, <1>2, <2>1, SaveType DEF Approve
  <2>3. exec' \in [Replicas -> [Turns -> TurnStates]]
    BY <1>0, <1>2, NowType DEF Approve, TurnStates
  <2>4. QED  BY <1>2, <2>2, <2>3 DEF Approve, RunTypeOK, Rows, TurnStates
<1>3. CASE Cancel(p)
  <2>1. row' \in Rows  BY <1>0, <1>3 DEF Cancel, Rows
  <2>2. QED  BY <1>3, <2>1 DEF Cancel, RunTypeOK, Rows
<1>4. CASE CancelEnds(p)
  <2>1. Closed(row, "Aborted") \in Rows  BY <1>0, ClosedType DEF Final
  <2>2. row' \in Rows /\ proj' \in [Replicas -> BOOLEAN] /\ ctx' \in [Replicas -> BOOLEAN]
    BY <1>0, <1>4, <2>1, SaveType DEF CancelEnds, CloseOrInterrupt
  <2>3. QED  BY <1>4, <2>2 DEF CancelEnds, RunTypeOK, Rows
<1>5. CASE Wake(p)
  <2>1. row' \in Rows /\ proj' \in [Replicas -> BOOLEAN]
    BY <1>0, <1>5 DEF Wake, Rows, Marks
  <2>2. obj' \in Objs
    <3>1. obj' = obj \/ obj' = Projected(obj, row')  BY <1>5 DEF Wake
    <3>2. QED  BY <1>0, <2>1, <3>1, ProjectedType DEF Rows
  <2>3. QED  BY <1>5, <2>1, <2>2 DEF Wake, RunTypeOK, Objs, Rows
<1>6. CASE Elect(p)  BY <1>6 DEF Elect, RunTypeOK
<1>7. CASE Dies(p)
  <2>1. obj' \in Objs  BY <1>0, <1>7 DEF Dies, Objs
  <2>2. rec' \in [Replicas -> {"idle", "claimed", "refused", "stopping"}]
    BY <1>0, <1>7, WorkerType DEF Dies
  <2>3. exec' \in [Replicas -> [Turns -> TurnStates]]  BY <1>0, <1>7 DEF Dies, TurnStates
  <2>4. kills' \in Nat  BY <1>7 DEF Dies, RunTypeOK
  <2>5. QED  BY <1>7, <2>1, <2>2, <2>3, <2>4 DEF Dies, RunTypeOK, Objs, TurnStates
<1>8. CASE Loses(p)  BY <1>8 DEF Loses, RunTypeOK
<1>9. CASE Quits(p)
  <2>1. rec' \in [Replicas -> {"idle", "claimed", "refused", "stopping"}]
    BY <1>0, <1>9, WorkerType DEF Quits
  <2>2. QED  BY <1>9, <2>1 DEF Quits, RunTypeOK
<1>10. QED  BY <1>1, <1>2, <1>3, <1>4, <1>5, <1>6, <1>7, <1>8, <1>9

\* Who a step of a turn or of a worker may change, and to what.
LEMMA OneTurnChanges ==
    ASSUME RunTypeOK, NEW p \in Replicas, NEW t, NEW s, Now(p, t, s),
           NEW q \in Replicas, NEW u \in Turns, exec'[q][u] # exec[q][u]
    PROVE  q = p /\ u = t /\ exec'[q][u] = s
BY DEF RunTypeOK, Now

LEMMA OneWorkerChanges ==
    ASSUME RunTypeOK, NEW p \in Replicas, NEW s, Worker(p, s),
           NEW q \in Replicas, rec'[q] # rec[q]
    PROVE  q = p /\ rec'[q] = s
BY DEF RunTypeOK, Worker

\* Every record of a run is well formed, for every number of replicas: its
\* pickups, attempts and recoveries stay within MaxClaims, MaxAttempts and
\* MaxRecovery whatever dies, loses the lease, is handed back, woken or taken over.
THEOREM RunTypeCorrect == Spec => []RunTypeOK
<1>1. Init => RunTypeOK  BY TypeInit
<1>2. RunTypeOK /\ [Next]_vars => RunTypeOK'
  <2> SUFFICES ASSUME RunTypeOK, [Next]_vars PROVE RunTypeOK'  OBVIOUS
  <2>1. CASE Next
    BY <2>1, SubmissionAndTime, TurnTyped, ReconcilerTyped, ReplicaTyped DEF Next
  <2>2. CASE UNCHANGED vars  BY <2>2 DEF vars, RunTypeOK
  <2>3. QED  BY <2>1, <2>2
<1>3. QED  BY <1>1, <1>2, PTL DEF Spec

(* ---- a run is started once ---------------------------------------------- *)

\* A turn that came from the queue, and one that was claimed to go on.
FromQueue(p, t) == exec[p][t] \in {"queued", "prep", "running"}
GoesOn(p, t) == exec[p][t] \in {"claimed", "resumed"}

\* What the object says as long as nobody has reported the run begun.
Unreported == {"none", "new", "Pending"}

\* A process takes the run from the queue once at a time, it goes on in one
\* turn at a time, and never both.
QueuedOnce ==
    \A p \in Replicas :
       /\ rec[p] \in {"claimed", "refused"} => \A t \in Turns : ~FromQueue(p, t)
       /\ \A t, u \in Turns : FromQueue(p, t) /\ FromQueue(p, u) => t = u

ResumedOnce ==
    \A p, q \in Replicas, t, u \in Turns : GoesOn(p, t) /\ GoesOn(q, u) => p = q /\ t = u

OneOrigin ==
    \A p, q \in Replicas, u \in Turns :
       GoesOn(q, u) => rec[p] # "claimed" /\ \A t \in Turns : ~FromQueue(p, t)

\* The row of a turn that is prepared is pending, that of one that executes is
\* running, unless somebody has closed it; a parked run has no turn.
RowFits ==
    /\ \A p \in Replicas, t \in Turns :
          /\ exec[p][t] = "prep" => row.phase \in {"Pending"} \cup Final
          /\ exec[p][t] \in {"running", "claimed", "resumed"} => row.phase \in {"Running"} \cup Final
    /\ sub = "row" => row = NoRow

ParkedAlone ==
    row.phase = "Approval" =>
       \A p \in Replicas : rec[p] # "claimed" /\ \A t \in Turns : ~FromQueue(p, t) /\ ~GoesOn(p, t)

\* Who has taken the run from the queue holds its claim.
ClaimHeld ==
    \A p \in Replicas :
       rec[p] = "claimed" \/ (\E t \in Turns : FromQueue(p, t)) => obj.owner = p /\ obj.retry = "no"

\* A run that has begun is off the queue once its save was projected, and one
\* that is parked or goes on is off it.
OffTheQueue ==
    /\ row.phase = "Approval" => obj.phase \notin Unreported
    /\ \A p \in Replicas, t \in Turns :
          GoesOn(p, t) \/ (exec[p][t] = "running" /\ ~proj[p]) => obj.phase \notin Unreported

\* A run that was handed back waits: nobody has it, and it is not claimable
\* before its retry comes, when no projection is left to be written.
Waits ==
    row.phase = "Pending" =>
       /\ row.retry = "later" =>
             /\ obj.phase \notin Unreported \/ obj.retry = "later"
             /\ \A p \in Replicas : rec[p] # "claimed" /\ \A t \in Turns : ~FromQueue(p, t)
       /\ row.retry = "due" => \A p \in Replicas : ~proj[p]

\* A claim that is old is one whose turn was seen to run.
Aged ==
    /\ obj.phase \in {"none", "new"} => obj.age = "no"
    /\ obj.age = "old" => \A p \in Replicas : rec[p] # "claimed" /\ \A t \in Turns :
          /\ exec[p][t] \notin {"queued", "prep"}
          /\ exec[p][t] = "running" => obj.phase \notin Unreported

StartOK ==
    /\ QueuedOnce /\ ResumedOnce /\ OneOrigin
    /\ RowFits /\ ParkedAlone /\ ClaimHeld /\ OffTheQueue /\ Waits /\ Aged

StartInv == ~overtaken => StartOK

\* A step that takes the run from no queue and lets no turn go on.
Quiet ==
    /\ \A p \in Replicas, t \in Turns :
          /\ exec'[p][t] \in {"queued", "prep", "running"} => FromQueue(p, t)
          /\ exec'[p][t] \in {"claimed", "resumed"} => GoesOn(p, t)
    /\ \A p \in Replicas :
          /\ rec'[p] \in {"claimed", "refused"} => rec[p] \in {"claimed", "refused"}
          /\ rec'[p] = "claimed" => rec[p] = "claimed"

LEMMA QuietShape ==
    ASSUME StartOK, Quiet
    PROVE  QueuedOnce' /\ ResumedOnce' /\ OneOrigin'
<1>1. QueuedOnce'  BY DEF StartOK, Quiet, QueuedOnce, FromQueue
<1>2. ResumedOnce'  BY DEF StartOK, Quiet, ResumedOnce, GoesOn
<1>3. OneOrigin'  BY DEF StartOK, Quiet, OneOrigin, FromQueue, GoesOn
<1>4. QED  BY <1>1, <1>2, <1>3

\* What a step that leaves the claim and the phases alone keeps.
LEMMA UnmovedKeeps ==
    ASSUME StartOK, Quiet, exec' = exec, proj' = proj,
           row'.phase = row.phase, row'.retry = row.retry,
           sub' = "row" => sub = "row" /\ row' = row,
           obj'.phase = obj.phase, obj'.owner = obj.owner, obj'.retry = obj.retry,
           obj'.age = obj.age
    PROVE  StartOK'
<1>1. RowFits'  BY DEF StartOK, RowFits
<1>2. ParkedAlone'  BY DEF StartOK, ParkedAlone, Quiet, FromQueue, GoesOn
<1>3. ClaimHeld'  BY DEF StartOK, ClaimHeld, Quiet, FromQueue
<1>4. OffTheQueue'  BY DEF StartOK, OffTheQueue, GoesOn
<1>5. Waits'  BY DEF StartOK, Waits, Quiet, FromQueue
<1>6. Aged'  BY DEF StartOK, Aged, Quiet
<1>7. QED  BY <1>1, <1>2, <1>3, <1>4, <1>5, <1>6, QuietShape DEF StartOK

\* A step that closes the row keeps the invariant, whoever's turn ends with it.
LEMMA ClosingKeeps ==
    ASSUME RunTypeOK, StartOK, Quiet, NEW p \in Replicas, NEW f \in Final, Save(p, Closed(row, f)),
           obj' = obj, sub' = sub,
           \A q \in Replicas, u \in Turns : exec'[q][u] \in {exec[q][u], "none"}
    PROVE  StartOK'
<1>1. row'.phase \in Final \/ (row' = row /\ row.phase = "none")
  BY DEF Save, Closed, RunTypeOK
<1>2. \A q \in Replicas : proj[q] => proj'[q]  BY DEF Save, RunTypeOK
<1>3. RowFits'
  <2>1. row.phase = "none" \/ sub # "row"
    BY DEF StartOK, RowFits, NoRow
  <2>2. sub' = "row" => row' = NoRow  BY <2>1 DEF StartOK, RowFits, Save, Closed
  <2>3. QED  BY <1>1, <2>2 DEF StartOK, RowFits, Final
<1>4. row'.phase # "Approval" /\ row'.phase # "Pending"  BY <1>1 DEF Final
<1>5. ParkedAlone' /\ Waits'  BY <1>4 DEF ParkedAlone, Waits
<1>6. ClaimHeld'  BY DEF StartOK, ClaimHeld, Quiet, FromQueue
<1>7. OffTheQueue'
  BY <1>2, <1>4 DEF StartOK, OffTheQueue, Quiet, GoesOn
<1>8. Aged'  BY DEF StartOK, Aged, Quiet
<1>9. QED  BY <1>3, <1>5, <1>6, <1>7, <1>8, QuietShape DEF StartOK

\* Submission and the passing of time.
LEMMA StartsSubmission ==
    ASSUME RunTypeOK, StartOK, ~overtaken',
           SubmitRow \/ SubmitObject \/ SubmitStatus \/ SubmitEnds \/ TimePasses
    PROVE  StartOK'
<1> USE DEF Final, FromQueue, GoesOn
<1>1. Quiet
  BY DEF SubmitRow, SubmitObject, SubmitStatus, SubmitEnds, TimePasses, GracePasses, RetryComes,
         LimitPasses, Quiet
<1>2. QueuedOnce' /\ ResumedOnce' /\ OneOrigin'  BY <1>1, QuietShape
<1>3. CASE SubmitRow
  <2>1. row = NoRow /\ row'.phase = "Pending" /\ row'.retry = "no"
    BY <1>3 DEF SubmitRow, StartOK, RowFits, NoRow
  <2>2. exec' = exec /\ rec' = rec /\ obj' = obj /\ proj' = proj /\ sub' = "object"
    BY <1>3 DEF SubmitRow
  <2>3. RowFits'  BY <2>1, <2>2 DEF StartOK, RowFits, NoRow
  <2>4. ParkedAlone' /\ Waits'  BY <2>1 DEF ParkedAlone, Waits
  <2>5. ClaimHeld'  BY <2>2 DEF StartOK, ClaimHeld
  <2>6. OffTheQueue' /\ Aged'  BY <2>1, <2>2 DEF StartOK, OffTheQueue, Aged
  <2>7. QED  BY <1>2, <2>3, <2>4, <2>5, <2>6 DEF StartOK
<1>4. CASE SubmitObject
  <2>1. /\ exec' = exec /\ rec' = rec /\ row' = row /\ proj' = proj /\ sub' = "status"
        /\ obj'.owner = obj.owner /\ obj'.retry = obj.retry /\ obj'.age = obj.age
        /\ obj'.phase = obj.phase \/ (obj.phase = "none" /\ obj'.phase = "new")
    BY <1>4 DEF SubmitObject, RunTypeOK
  <2>2. obj'.phase \in Unreported <=> obj.phase \in Unreported  BY <2>1 DEF Unreported
  <2>3. RowFits'  BY <2>1 DEF StartOK, RowFits
  <2>4. ParkedAlone' /\ Waits'  BY <2>1, <2>2 DEF StartOK, ParkedAlone, Waits
  <2>5. ClaimHeld'  BY <2>1 DEF StartOK, ClaimHeld
  <2>6. OffTheQueue' /\ Aged'  BY <2>1, <2>2 DEF StartOK, OffTheQueue, Aged
  <2>7. QED  BY <1>2, <2>3, <2>4, <2>5, <2>6 DEF StartOK
<1>5. CASE SubmitStatus
  <2>1. /\ exec' = exec /\ rec' = rec /\ row' = row /\ proj' = proj /\ sub' = "done"
        /\ row.retry = "no"
    BY <1>5 DEF SubmitStatus, RunTypeOK
  <2>2. /\ obj'.owner = obj.owner /\ obj'.age = obj.age
        /\ obj'.phase \in {"none", "new"} => obj'.phase = obj.phase
        /\ obj' = obj \/ obj'.retry = "no"
        /\ obj.phase \notin Unreported => obj'.phase \notin Unreported
    BY <1>5 DEF SubmitStatus, RunTypeOK, Projected, Unreported
  <2>3. RowFits'  BY <2>1 DEF StartOK, RowFits
  <2>4. ParkedAlone' /\ Waits'  BY <2>1 DEF StartOK, ParkedAlone, Waits
  <2>5. ClaimHeld'  BY <2>1, <2>2 DEF StartOK, ClaimHeld
  <2>6. OffTheQueue' /\ Aged'  BY <2>1, <2>2 DEF StartOK, OffTheQueue, Aged
  <2>7. QED  BY <1>2, <2>3, <2>4, <2>5, <2>6 DEF StartOK
<1>6. CASE SubmitEnds
  <2>1. exec' = exec /\ rec' = rec /\ obj' = obj /\ proj' = proj /\ sub' = "done"
    BY <1>6 DEF SubmitEnds
  <2>2. CASE row' = row  BY <1>1, <2>1, <2>2, UnmovedKeeps
  <2>3. CASE row' # row
    <3>1. row'.phase = "none"  BY <1>6, <2>3 DEF SubmitEnds, NoRow
    <3>2. \A p \in Replicas, t \in Turns : exec[p][t] \in {"none", "queued"}
      BY <1>6, <2>3 DEF SubmitEnds
    <3>3. RowFits'  BY <2>1, <3>2 DEF RowFits
    <3>4. ParkedAlone' /\ Waits'  BY <3>1 DEF ParkedAlone, Waits
    <3>5. ClaimHeld'  BY <2>1 DEF StartOK, ClaimHeld
    <3>6. OffTheQueue' /\ Aged'  BY <2>1, <3>1 DEF StartOK, OffTheQueue, Aged
    <3>7. QED  BY <1>2, <3>3, <3>4, <3>5, <3>6 DEF StartOK
  <2>4. QED  BY <2>2, <2>3
<1>7. CASE LimitPasses
  <2>1. /\ exec' = exec /\ proj' = proj /\ sub' = sub /\ sub = "done"
        /\ obj'.phase = obj.phase /\ obj'.owner = obj.owner /\ obj'.retry = obj.retry
        /\ obj'.age = obj.age /\ row'.phase = row.phase /\ row'.retry = row.retry
    BY <1>7 DEF LimitPasses, RunTypeOK
  <2>2. QED  BY <1>1, <2>1, UnmovedKeeps
<1>8. CASE RetryComes
  <2>1. /\ exec' = exec /\ rec' = rec /\ proj' = proj /\ sub' = "done"
        /\ \A p \in Replicas : ~proj[p]
        /\ obj'.phase = obj.phase /\ obj'.owner = obj.owner /\ obj'.age = obj.age
        /\ obj.retry = "no" => obj'.retry = "no"
        /\ row'.phase = row.phase /\ row'.retry # "later"
    BY <1>8 DEF RetryComes, RunTypeOK, Late
  <2>2. RowFits'  BY <2>1 DEF StartOK, RowFits
  <2>3. ParkedAlone' /\ Waits'  BY <2>1 DEF StartOK, ParkedAlone, Waits
  <2>4. ClaimHeld'  BY <2>1 DEF StartOK, ClaimHeld
  <2>5. OffTheQueue' /\ Aged'  BY <2>1 DEF StartOK, OffTheQueue, Aged
  <2>6. QED  BY <1>2, <2>2, <2>3, <2>4, <2>5 DEF StartOK
<1>9. CASE GracePasses
  <2>1. /\ exec' = exec /\ rec' = rec /\ row' = row /\ proj' = proj /\ sub' = "done"
        /\ obj'.phase = obj.phase /\ obj'.owner = obj.owner /\ obj'.retry = obj.retry
        /\ obj.age = "fresh" /\ ~Starting(obj.owner)
    BY <1>9 DEF GracePasses, RunTypeOK
  <2>2. obj.phase \notin {"none", "new"}  BY <2>1 DEF StartOK, Aged
  <2>3. \A q \in Replicas : rec[q] # "claimed" /\ \A u \in Turns :
           exec[q][u] \notin {"queued", "prep"} /\ (exec[q][u] = "running" => obj.phase \notin Unreported)
    <3>1. SUFFICES ASSUME NEW q \in Replicas, rec[q] = "claimed" \/ \E u \in Turns : FromQueue(q, u)
                   PROVE  rec[q] # "claimed" /\ \A u \in Turns :
                             /\ exec[q][u] \notin {"queued", "prep"}
                             /\ exec[q][u] = "running" => obj.phase \notin Unreported
      OBVIOUS
    <3>2. obj.owner = q  BY <3>1 DEF StartOK, ClaimHeld
    <3>3. /\ rec[q] # "claimed" /\ \A u \in Turns : exec[q][u] \notin {"queued", "prep"}
          /\ ~(obj.phase = "Pending" /\ proj[q])
      BY <2>1, <3>2 DEF Starting
    <3>4. \A u \in Turns : exec[q][u] = "running" => obj.phase \notin Unreported
      BY <2>2, <3>3 DEF StartOK, OffTheQueue, Unreported
    <3>5. QED  BY <3>3, <3>4
  <2>4. Aged'  BY <2>1, <2>2, <2>3 DEF Aged
  <2>5. RowFits'  BY <2>1 DEF StartOK, RowFits
  <2>6. ParkedAlone' /\ Waits'  BY <2>1 DEF StartOK, ParkedAlone, Waits
  <2>7. ClaimHeld' /\ OffTheQueue'  BY <2>1 DEF StartOK, ClaimHeld, OffTheQueue
  <2>8. QED  BY <1>2, <2>4, <2>5, <2>6, <2>7 DEF StartOK
<1>10. QED  BY <1>3, <1>4, <1>5, <1>6, <1>7, <1>8, <1>9 DEF TimePasses

\* How a step moves one turn or one worker.
LEMMA TurnMoves ==
    ASSUME RunTypeOK, NEW p \in Replicas, NEW t \in Turns, NEW s, Now(p, t, s)
    PROVE  \A q \in Replicas, u \in Turns :
              exec'[q][u] = IF q = p /\ u = t THEN s ELSE exec[q][u]
BY DEF RunTypeOK, Now

LEMMA WorkerMoves ==
    ASSUME RunTypeOK, NEW p \in Replicas, NEW s, Worker(p, s)
    PROVE  \A q \in Replicas : rec'[q] = IF q = p THEN s ELSE rec[q]
BY DEF RunTypeOK, Worker

LEMMA SaveMoves ==
    ASSUME RunTypeOK, NEW p \in Replicas, NEW r, Save(p, r)
    PROVE  row' = r /\ \A q \in Replicas : proj'[q] = IF q = p THEN TRUE ELSE proj[q]
BY DEF RunTypeOK, Save

\* The turns of a replica.
LEMMA StartsTurn ==
    ASSUME RunTypeOK, StartOK, NEW p \in Replicas, NEW t \in Turns, Turn(p, t)
    PROVE  StartOK'
<1> USE DEF Final, FromQueue, GoesOn
<1>0. sub' = sub /\ obj' = obj /\ rec' = rec /\ (row.phase # "none" => sub # "row")
  <2>1. sub' = sub /\ obj' = obj /\ rec' = rec
    BY DEF Turn, Starts, Begins, FailsBeforeStart, Checkpoints, Ends, Resumes
  <2>2. row.phase # "none" => sub # "row"  BY DEF StartOK, RowFits, NoRow
  <2>3. QED  BY <2>1, <2>2
<1>1. CASE Starts(p, t)
  <2>1. PICK s \in {"prep", "none"} : Now(p, t, s) /\ (s = "prep" => row.phase = "Pending")
    BY <1>1 DEF Starts
  <2>2. \A q \in Replicas, u \in Turns :
           exec'[q][u] = IF q = p /\ u = t THEN s ELSE exec[q][u]
    BY <2>1, TurnMoves
  <2>3. exec[p][t] = "queued" /\ row' = row /\ proj' = proj  BY <1>1 DEF Starts
  <2>4. Quiet  BY <1>0, <2>2, <2>3 DEF Quiet
  <2>5. RowFits'  BY <1>0, <2>1, <2>2, <2>3 DEF StartOK, RowFits
  <2>6. ParkedAlone'  BY <2>3, <2>4 DEF StartOK, ParkedAlone, Quiet
  <2>7. ClaimHeld'  BY <1>0, <2>4 DEF StartOK, ClaimHeld, Quiet
  <2>8. OffTheQueue' /\ Aged'  BY <1>0, <2>2, <2>3 DEF StartOK, OffTheQueue, Aged
  <2>9. Waits'  BY <1>0, <2>3, <2>4 DEF StartOK, Waits, Quiet
  <2>10. QED  BY <2>4, <2>5, <2>6, <2>7, <2>8, <2>9, QuietShape DEF StartOK
<1>2. CASE Begins(p, t)
  <2>1. PICK harness \in BOOLEAN :
            Save(p, [row EXCEPT !.phase = "Running", !.retry = "no", !.ckpt = harness,
                                !.recovered = 0, !.started = "young"])
    BY <1>2 DEF Begins
  <2>2. /\ row'.phase = "Running"
        /\ \A q \in Replicas : proj'[q] = IF q = p THEN TRUE ELSE proj[q]
    BY <2>1 DEF Save, RunTypeOK
  <2>3. /\ exec[p][t] = "prep"
        /\ \A q \in Replicas, u \in Turns :
              exec'[q][u] = IF q = p /\ u = t THEN "running" ELSE exec[q][u]
    BY <1>2, TurnMoves DEF Begins
  <2>4. Quiet  BY <1>0, <2>3 DEF Quiet
  <2>5. QueuedOnce' /\ ResumedOnce' /\ OneOrigin'  BY <2>4, QuietShape
  <2>6. RowFits'
    <3>1. sub # "row"  BY <2>3 DEF StartOK, RowFits, NoRow
    <3>2. \A q \in Replicas, u \in Turns : exec'[q][u] # "prep"
      <4>1. SUFFICES ASSUME NEW q \in Replicas, NEW u \in Turns, exec'[q][u] = "prep" PROVE FALSE
        OBVIOUS
      <4>2. exec[q][u] = "prep" /\ ~(q = p /\ u = t)  BY <2>3, <4>1
      <4>3. q = p  BY <2>3, <4>2 DEF StartOK, ClaimHeld
      <4>4. QED  BY <2>3, <4>2, <4>3 DEF StartOK, QueuedOnce
    <3>3. QED  BY <1>0, <2>2, <3>1, <3>2 DEF RowFits
  <2>7. ParkedAlone' /\ Waits'  BY <2>2 DEF ParkedAlone, Waits
  <2>8. ClaimHeld'  BY <1>0, <2>4 DEF StartOK, ClaimHeld, Quiet
  <2>9. OffTheQueue'
    <3>1. row'.phase # "Approval"  BY <2>2
    <3>2. ASSUME NEW q \in Replicas, NEW u \in Turns,
                 GoesOn(q, u)' \/ (exec'[q][u] = "running" /\ ~proj'[q])
          PROVE  obj.phase \notin Unreported
      <4>1. GoesOn(q, u) \/ (exec[q][u] = "running" /\ ~proj[q])  BY <2>2, <2>3, <3>2
      <4>2. QED  BY <4>1 DEF StartOK, OffTheQueue
    <3>3. QED  BY <1>0, <3>1, <3>2 DEF OffTheQueue
  <2>10. Aged'  BY <1>0, <2>3 DEF StartOK, Aged
  <2>11. QED  BY <2>5, <2>6, <2>7, <2>8, <2>9, <2>10 DEF StartOK
<1>3. CASE FailsBeforeStart(p, t)
  <2>1. /\ Save(p, Closed(row, "Failed"))
        /\ \A q \in Replicas, u \in Turns :
              exec'[q][u] = IF q = p /\ u = t THEN "none" ELSE exec[q][u]
    BY <1>3, TurnMoves DEF FailsBeforeStart
  <2>2. Quiet  BY <1>0, <2>1 DEF Quiet
  <2>3. \A q \in Replicas, u \in Turns : exec'[q][u] \in {exec[q][u], "none"}  BY <2>1
  <2>4. "Failed" \in Final  OBVIOUS
  <2>5. QED  BY <1>0, <2>1, <2>2, <2>3, <2>4, ClosingKeeps
<1>4. CASE Checkpoints(p, t)
  <2>1. /\ row.phase = "Running" /\ row'.phase = "Running" /\ exec' = exec
        /\ \A q \in Replicas : proj'[q] = IF q = p THEN TRUE ELSE proj[q]
    BY <1>4 DEF Checkpoints, Save, RunTypeOK
  <2>2. Quiet  BY <1>0, <2>1 DEF Quiet
  <2>3. RowFits'  BY <1>0, <2>1 DEF StartOK, RowFits
  <2>4. ParkedAlone' /\ Waits'  BY <2>1 DEF ParkedAlone, Waits
  <2>5. ClaimHeld'  BY <1>0, <2>1 DEF StartOK, ClaimHeld
  <2>6. OffTheQueue' /\ Aged'  BY <1>0, <2>1 DEF StartOK, OffTheQueue, Aged
  <2>7. QED  BY <2>2, <2>3, <2>4, <2>5, <2>6, QuietShape DEF StartOK
<1>5. CASE Ends(p, t)
  <2>1. /\ exec[p][t] \in {"running", "resumed"} /\ ~proj[p]
        /\ \A q \in Replicas, u \in Turns :
              exec'[q][u] = IF q = p /\ u = t THEN "none" ELSE exec[q][u]
    BY <1>5, TurnMoves DEF Ends
  <2>2. Quiet  BY <1>0, <2>1 DEF Quiet
  <2>3. \A q \in Replicas, u \in Turns : exec'[q][u] \in {exec[q][u], "none"}  BY <2>1
  <2>4. PICK r \in Ended \cup {Closed(row, "Aborted")} : Save(p, r)  BY <1>5 DEF Ends
  <2>5. CASE \E f \in Final : r = Closed(row, f)
    BY <1>0, <2>2, <2>3, <2>4, <2>5, ClosingKeeps
  <2>6. CASE r = [row EXCEPT !.phase = "Approval", !.ckpt = TRUE] \/ (Retries(row) /\ r = HandedBack(row))
    <3>1. /\ row'.phase = "Approval" \/ (row'.phase = "Pending" /\ row'.retry = "later")
          /\ \A q \in Replicas : proj'[q] = IF q = p THEN TRUE ELSE proj[q]
      <4>1. row' = r /\ proj' = [proj EXCEPT ![p] = TRUE]  BY <2>4 DEF Save
      <4>2. r.phase = "Approval" \/ (r.phase = "Pending" /\ r.retry = "later")
        BY <2>6 DEF HandedBack, RunTypeOK
      <4>3. QED  BY <4>1, <4>2 DEF RunTypeOK
    <3>2. \A q \in Replicas : rec'[q] # "claimed"
      BY <1>0, <2>1 DEF StartOK, OneOrigin, QueuedOnce, ClaimHeld
    <3>3. \A q \in Replicas, u \in Turns :
             exec'[q][u] \notin {"queued", "prep", "running", "claimed", "resumed"}
      <4>1. SUFFICES ASSUME NEW q \in Replicas, NEW u \in Turns, ~(q = p /\ u = t),
                            FromQueue(q, u) \/ GoesOn(q, u)
                     PROVE  FALSE
        BY <2>1
      <4>2. CASE exec[p][t] = "running"
        <5>1. ~GoesOn(q, u)  BY <4>2 DEF StartOK, OneOrigin
        <5>2. FromQueue(q, u) => q = p  BY <4>2 DEF StartOK, ClaimHeld
        <5>3. QED  BY <4>1, <4>2, <5>1, <5>2 DEF StartOK, QueuedOnce
      <4>3. CASE exec[p][t] = "resumed"
        <5>1. ~FromQueue(q, u)  BY <4>3 DEF StartOK, OneOrigin
        <5>2. QED  BY <4>1, <4>3, <5>1 DEF StartOK, ResumedOnce
      <4>4. QED  BY <2>1, <4>2, <4>3
    <3>4. obj.phase \notin Unreported  BY <2>1 DEF StartOK, OffTheQueue
    <3>5. RowFits'
      <4>1. sub # "row"  BY <2>1 DEF StartOK, RowFits, NoRow
      <4>2. QED  BY <1>0, <3>3, <4>1 DEF RowFits
    <3>6. ParkedAlone' /\ ClaimHeld'  BY <3>2, <3>3 DEF ParkedAlone, ClaimHeld
    <3>7. OffTheQueue' /\ Aged'  BY <1>0, <3>2, <3>3, <3>4 DEF OffTheQueue, StartOK, Aged
    <3>8. Waits'  BY <1>0, <3>1, <3>2, <3>3, <3>4 DEF Waits
    <3>9. QED  BY <2>2, <3>5, <3>6, <3>7, <3>8, QuietShape DEF StartOK
  <2>7. QED  BY <2>4, <2>5, <2>6 DEF Ended
<1>6. CASE Resumes(p, t)
  <2>1. exec[p][t] = "claimed"  BY <1>6 DEF Resumes
  <2>2. CASE Now(p, t, "none") /\ Save(p, Closed(row, "Failed"))
    <3>1. \A q \in Replicas, u \in Turns :
             exec'[q][u] = IF q = p /\ u = t THEN "none" ELSE exec[q][u]
      BY <2>2, TurnMoves
    <3>2. Quiet  BY <1>0, <3>1 DEF Quiet
    <3>3. \A q \in Replicas, u \in Turns : exec'[q][u] \in {exec[q][u], "none"}  BY <3>1
    <3>4. "Failed" \in Final  OBVIOUS
    <3>5. QED  BY <1>0, <2>2, <3>2, <3>3, <3>4, ClosingKeeps
  <2>3. ASSUME NEW s \in {"none", "resumed"}, Now(p, t, s), row' = row, proj' = proj PROVE StartOK'
    <3>1. \A q \in Replicas, u \in Turns :
             exec'[q][u] = IF q = p /\ u = t THEN s ELSE exec[q][u]
      BY <2>3, TurnMoves
    <3>2. Quiet  BY <1>0, <2>1, <3>1 DEF Quiet
    <3>3. RowFits'  BY <1>0, <2>1, <2>3, <3>1 DEF StartOK, RowFits
    <3>4. ParkedAlone'  BY <2>3, <3>2 DEF StartOK, ParkedAlone, Quiet
    <3>5. ClaimHeld'  BY <1>0, <3>2 DEF StartOK, ClaimHeld, Quiet
    <3>6. OffTheQueue' /\ Aged'  BY <1>0, <2>1, <2>3, <3>1 DEF StartOK, OffTheQueue, Aged
    <3>7. Waits'  BY <1>0, <2>3, <3>2 DEF StartOK, Waits, Quiet
    <3>8. QED  BY <3>2, <3>3, <3>4, <3>5, <3>6, <3>7, QuietShape DEF StartOK
  <2>4. QED  BY <1>6, <2>2, <2>3 DEF Resumes
<1>7. QED  BY <1>1, <1>2, <1>3, <1>4, <1>5, <1>6 DEF Turn

\* A cancel or a stop that ends: the turn is told, or the row is closed.
LEMMA InterruptKeeps ==
    ASSUME RunTypeOK, StartOK, Quiet, NEW p \in Replicas, CloseOrInterrupt(p),
           obj' = obj, sub' = sub, exec' = exec
    PROVE  StartOK'
<1>1. CASE row' = row /\ proj' = proj  BY <1>1, UnmovedKeeps
<1>2. CASE Save(p, Closed(row, "Aborted"))
  <2>1. "Aborted" \in Final  BY DEF Final
  <2>2. QED  BY <1>2, <2>1, ClosingKeeps
<1>3. QED  BY <1>1, <1>2 DEF CloseOrInterrupt

\* A running row that is saved keeps the invariant.
LEMMA RunningKeeps ==
    ASSUME RunTypeOK, StartOK, NEW p \in Replicas, NEW r, Save(p, r),
           row.phase = "Running", r.phase = "Running",
           obj' = obj, sub' = sub, exec' = exec, rec' = rec
    PROVE  StartOK'
<1> USE DEF Final, FromQueue, GoesOn
<1>1. row'.phase = "Running" /\ \A q \in Replicas : proj'[q] = IF q = p THEN TRUE ELSE proj[q]
  BY DEF Save, RunTypeOK
<1>2. Quiet  BY DEF Quiet
<1>3. RowFits'
  <2>1. sub # "row"  BY DEF StartOK, RowFits, NoRow
  <2>2. QED  BY <1>1, <2>1 DEF StartOK, RowFits
<1>4. ParkedAlone' /\ Waits'  BY <1>1 DEF ParkedAlone, Waits
<1>5. ClaimHeld'  BY DEF StartOK, ClaimHeld
<1>6. OffTheQueue' /\ Aged'  BY <1>1 DEF StartOK, OffTheQueue, Aged
<1>7. QED  BY <1>2, <1>3, <1>4, <1>5, <1>6, QuietShape DEF StartOK

\* A run that is claimed is in nobody's hands.
LEMMA ClaimedAlone ==
    ASSUME StartOK, NEW p \in Replicas, Claim(p)
    PROVE  /\ \A q \in Replicas : rec[q] # "claimed"
           /\ \A q \in Replicas, u \in Turns : ~FromQueue(q, u) /\ ~GoesOn(q, u)
           /\ row.phase # "Approval"
           /\ row.phase = "Pending" => row.retry # "later"
<1>1. Claimable(p)  BY DEF Claim
<1>2. obj.phase \in Unreported  BY <1>1 DEF Claimable, Unreported
<1>3. \A q \in Replicas : rec[q] # "claimed" /\ \A u \in Turns : ~FromQueue(q, u)
  <2>1. CASE obj.age = "old"  BY <1>2, <2>1 DEF StartOK, Aged, FromQueue
  <2>2. CASE obj.retry # "no" \/ obj.owner = NoOne
    BY <2>2, AgentAssumption DEF StartOK, ClaimHeld
  <2>3. QED  BY <1>1, <2>1, <2>2 DEF Claimable
<1>4. \A q \in Replicas, u \in Turns : ~GoesOn(q, u)  BY <1>2 DEF StartOK, OffTheQueue
<1>5. row.phase # "Approval"  BY <1>2 DEF StartOK, OffTheQueue
<1>6. row.phase = "Pending" => row.retry # "later"
  BY <1>1, <1>2 DEF StartOK, Waits, Claimable
<1>7. QED  BY <1>3, <1>4, <1>5, <1>6

\* The reconciler of a replica.
LEMMA StartsReconciler ==
    ASSUME RunTypeOK, StartOK, ~overtaken', NEW p \in Replicas,
           Begin(p) \/ Finish(p) \/ RemoteStopFails(p) \/ Clear(p)
    PROVE  StartOK'
<1> USE DEF Final, FromQueue, GoesOn
<1>0. RunTypeOK /\ (row.phase # "none" => sub # "row")
  BY DEF StartOK, RowFits, NoRow
<1>1. CASE Claim(p)
  <2>1. /\ \A q \in Replicas : rec'[q] = IF q = p THEN "claimed" ELSE rec[q]
        /\ exec' = exec /\ row' = row /\ proj' = proj /\ sub' = sub
        /\ obj'.owner = p /\ obj'.retry = "no" /\ obj'.age = "fresh" /\ obj'.phase = "Pending"
    BY <1>0, <1>1, WorkerMoves DEF Claim, RunTypeOK
  <2>2. /\ \A q \in Replicas : rec[q] # "claimed"
        /\ \A q \in Replicas, u \in Turns : ~FromQueue(q, u) /\ ~GoesOn(q, u)
        /\ row.phase # "Approval"
        /\ row.phase = "Pending" => row.retry # "later"
    BY <1>1, ClaimedAlone
  <2>3. QueuedOnce' /\ ResumedOnce' /\ OneOrigin'
    BY <2>1, <2>2 DEF QueuedOnce, ResumedOnce, OneOrigin
  <2>4. RowFits'  BY <2>1 DEF StartOK, RowFits
  <2>5. ParkedAlone'  BY <2>1, <2>2 DEF ParkedAlone
  <2>6. ClaimHeld'  BY <2>1, <2>2 DEF ClaimHeld
  <2>7. OffTheQueue'  BY <2>1, <2>2 DEF OffTheQueue
  <2>8. Waits'  BY <2>1, <2>2 DEF StartOK, Waits
  <2>9. Aged'  BY <2>1 DEF Aged
  <2>10. QED  BY <2>3, <2>4, <2>5, <2>6, <2>7, <2>8, <2>9 DEF StartOK
<1>2. CASE Abandon(p) \/ Overdue(p)
  <2>1. /\ row.phase # "none" /\ Worker(p, "stopping")
        /\ exec' = exec /\ proj' = proj /\ obj' = obj /\ sub' = sub
        /\ row'.phase = row.phase /\ row'.retry = row.retry
    BY <1>0, <1>2 DEF Abandon, Overdue, Stop, RunTypeOK
  <2>2. Quiet  BY <1>0, <2>1, WorkerMoves DEF Quiet
  <2>3. QED  BY <1>0, <2>1, <2>2, UnmovedKeeps
<1>3. CASE Stamp(p) \/ Clear(p)
  <2>1. /\ exec' = exec /\ proj' = proj /\ rec' = rec /\ sub' = sub /\ row' = row
        /\ obj'.phase = obj.phase /\ obj'.owner = obj.owner /\ obj'.retry = obj.retry
        /\ obj'.age = obj.age
    BY <1>0, <1>3 DEF Stamp, Clear, RunTypeOK
  <2>2. Quiet  BY <2>1 DEF Quiet
  <2>3. QED  BY <2>1, <2>2, UnmovedKeeps
<1>4. CASE Recover(p)
  <2>1. obj' = obj /\ sub' = sub /\ rec' = rec  BY <1>4 DEF Recover
  <2>2. ASSUME NEW f \in Final, Save(p, Closed(row, f)), exec' = exec PROVE StartOK'
    <3>1. Quiet  BY <2>1, <2>2 DEF Quiet
    <3>2. \A q \in Replicas, u \in Turns : exec'[q][u] \in {exec[q][u], "none"}  BY <2>2
    <3>3. QED  BY <1>0, <2>1, <2>2, <3>1, <3>2, ClosingKeeps
  <2>3. CASE row.phase = "Running" /\ Save(p, [row EXCEPT !.recovered = @ + 1])
    <3>1. [row EXCEPT !.recovered = @ + 1].phase = "Running"  BY <1>0, <2>3 DEF RunTypeOK
    <3>2. CASE exec' = exec  BY <1>0, <2>1, <2>3, <3>1, <3>2, RunningKeeps
    <3>3. CASE exec' # exec
      <4>1. Now(p, FreeTurn(p), "claimed") /\ \A q \in Replicas : ~Alive(q)
        BY <1>4, <3>3 DEF Recover, Closed
      <4>2. \A q \in Replicas, u \in Turns :
               exec'[q][u] # exec[q][u] => q = p /\ u = FreeTurn(p) /\ exec'[q][u] = "claimed"
        BY <1>0, <4>1, OneTurnChanges
      <4>3. obj.phase = "Running" /\ obj.age = "old"
        BY <1>4 DEF Recover, Stranded, Elsewhere
      <4>4. \A q \in Replicas : rec[q] # "claimed"  BY <4>3 DEF StartOK, Aged
      <4>5. \A q \in Replicas, u \in Turns : ~FromQueue(q, u) /\ ~GoesOn(q, u)
        BY <4>1, <4>3 DEF Alive, StartOK, Aged
      <4>6. /\ row'.phase = "Running"
            /\ \A q \in Replicas : proj'[q] = IF q = p THEN TRUE ELSE proj[q]
        BY <1>0, <2>3, <3>1, SaveMoves
      <4>7. \A q \in Replicas, u \in Turns :
               /\ exec'[q][u] \notin {"queued", "prep", "running"}
               /\ GoesOn(q, u)' => q = p /\ u = FreeTurn(p)
        BY <4>2, <4>5
      <4>8. QueuedOnce' /\ ResumedOnce' /\ OneOrigin'
        BY <2>1, <4>4, <4>7 DEF QueuedOnce, ResumedOnce, OneOrigin
      <4>9. RowFits'  BY <1>0, <2>1, <2>3, <4>6, <4>7 DEF RowFits
      <4>10. ParkedAlone' /\ Waits'  BY <4>6 DEF ParkedAlone, Waits
      <4>11. ClaimHeld'  BY <2>1, <4>4, <4>7 DEF ClaimHeld
      <4>12. OffTheQueue'  BY <2>1, <4>3, <4>6 DEF OffTheQueue, Unreported
      <4>13. Aged'  BY <2>1, <4>3, <4>4, <4>7 DEF Aged
      <4>14. QED  BY <4>8, <4>9, <4>10, <4>11, <4>12, <4>13 DEF StartOK
    <3>4. QED  BY <3>2, <3>3
  <2>4. QED  BY <1>4, <2>2, <2>3 DEF Recover
<1>5. CASE Dispatch(p)
  <2>1. obj' = obj /\ sub' = sub /\ rec[p] = "claimed"  BY <1>5 DEF Dispatch
  <2>2. PICK w \in {"idle", "refused"} : Worker(p, w)  BY <1>5 DEF Dispatch
  <2>3. \A q \in Replicas : rec'[q] = IF q = p THEN w ELSE rec[q]  BY <1>0, <2>2, WorkerMoves
  <2>4. CASE exec' = exec
    <3>1. Quiet  BY <2>1, <2>3, <2>4 DEF Quiet
    <3>2. CASE row' = row /\ proj' = proj  BY <2>1, <2>4, <3>1, <3>2, UnmovedKeeps
    <3>3. CASE Save(p, Closed(row, "Aborted"))
      <4>1. "Aborted" \in Final  OBVIOUS
      <4>2. QED  BY <1>0, <2>1, <2>4, <3>1, <3>3, <4>1, ClosingKeeps
    <3>4. QED  BY <1>5, <3>2, <3>3 DEF Dispatch
  <2>5. CASE Now(p, FreeTurn(p), "queued") /\ Worker(p, "idle") /\ row' = row /\ proj' = proj
    <3>1. \A q \in Replicas, u \in Turns :
             exec'[q][u] # exec[q][u] => q = p /\ u = FreeTurn(p) /\ exec'[q][u] = "queued"
      BY <1>0, <2>5, OneTurnChanges
    <3>2. \A q \in Replicas : rec'[q] = IF q = p THEN "idle" ELSE rec[q]
      BY <1>0, <2>5, WorkerMoves
    <3>3. /\ \A u \in Turns : ~FromQueue(p, u)
          /\ \A q \in Replicas, u \in Turns : ~GoesOn(q, u)
      BY <2>1 DEF StartOK, QueuedOnce, OneOrigin
    <3>4. row.phase # "Approval" /\ (row.phase = "Pending" => row.retry # "later")
      BY <2>1 DEF StartOK, ParkedAlone, Waits
    <3>5. QueuedOnce'
      <4>1. \A q \in Replicas : q # p => rec'[q] = rec[q] /\ \A u \in Turns : exec'[q][u] = exec[q][u]
        BY <3>1, <3>2
      <4>2. \A u \in Turns : exec'[p][u] \in {"queued", "prep", "running"} => u = FreeTurn(p)
        BY <3>1, <3>3
      <4>3. QED  BY <3>2, <4>1, <4>2 DEF StartOK, QueuedOnce
    <3>6. \A q \in Replicas, u \in Turns : exec'[q][u] \notin {"claimed", "resumed"}
      BY <3>1, <3>3
    <3>7. ResumedOnce' /\ OneOrigin'  BY <3>6 DEF ResumedOnce, OneOrigin
    <3>8. RowFits'  BY <2>1, <2>5, <3>1 DEF StartOK, RowFits
    <3>9. ParkedAlone' /\ Waits'  BY <2>5, <3>4 DEF StartOK, ParkedAlone, Waits
    <3>10. ClaimHeld'  BY <2>1, <3>1, <3>2 DEF StartOK, ClaimHeld
    <3>11. OffTheQueue' /\ Aged'
      BY <2>1, <2>5, <3>1, <3>4, <3>6 DEF StartOK, OffTheQueue, Aged
    <3>12. QED  BY <3>5, <3>7, <3>8, <3>9, <3>10, <3>11 DEF StartOK
  <2>6. QED  BY <1>5, <2>4, <2>5 DEF Dispatch
<1>6. CASE HandBack(p)
  <2>1. /\ rec[p] = "refused"
        /\ exec' = exec /\ row' = row /\ proj' = proj /\ sub' = sub
        /\ obj'.phase = obj.phase /\ (obj.retry = "later" => obj'.retry = "later")
        /\ obj' = obj \/ (obj.owner = p /\ obj'.age = "no")
    BY <1>0, <1>6 DEF HandBack, RunTypeOK
  <2>2. \A q \in Replicas : rec'[q] = IF q = p THEN "idle" ELSE rec[q]
    BY <1>0, <1>6, WorkerMoves DEF HandBack
  <2>3. ASSUME NEW q \in Replicas, rec'[q] = "claimed" \/ \E u \in Turns : FromQueue(q, u)
        PROVE  obj' = obj /\ obj.owner = q /\ obj.retry = "no"
    <3>1. obj.owner = q /\ obj.retry = "no"  BY <2>2, <2>3 DEF StartOK, ClaimHeld
    <3>2. q # p  BY <2>1, <2>2, <2>3 DEF StartOK, QueuedOnce
    <3>3. QED  BY <2>1, <3>1, <3>2
  <2>4. Quiet  BY <2>1, <2>2 DEF Quiet
  <2>5. RowFits'  BY <2>1 DEF StartOK, RowFits
  <2>6. ParkedAlone' /\ Waits'  BY <2>1, <2>4 DEF StartOK, ParkedAlone, Waits, Quiet
  <2>7. ClaimHeld'  BY <2>1, <2>2, <2>3 DEF ClaimHeld
  <2>8. OffTheQueue' /\ Aged'  BY <2>1, <2>2 DEF StartOK, OffTheQueue, Aged
  <2>9. QED  BY <2>4, <2>5, <2>6, <2>7, <2>8, QuietShape DEF StartOK
<1>7. CASE StopEnds(p)
  <2>1. CloseOrInterrupt(p) /\ obj' = obj /\ sub' = sub /\ exec' = exec  BY <1>7 DEF StopEnds
  <2>2. \A q \in Replicas : rec'[q] = IF q = p THEN "idle" ELSE rec[q]
    BY <1>0, <1>7, WorkerMoves DEF StopEnds
  <2>3. Quiet  BY <2>1, <2>2 DEF Quiet
  <2>4. QED  BY <1>0, <2>1, <2>3, InterruptKeeps
<1>8. CASE RemoteStopFails(p)
  <2>1. /\ exec' = exec /\ proj' = proj /\ obj' = obj /\ sub' = sub /\ row' = row
        /\ rec' = rec \/ Worker(p, "idle")
    BY <1>8 DEF RemoteStopFails
  <2>2. Quiet  BY <1>0, <2>1, WorkerMoves DEF Quiet
  <2>3. QED  BY <2>1, <2>2, UnmovedKeeps
<1>9. QED
  BY <1>1, <1>2, <1>3, <1>4, <1>5, <1>6, <1>7, <1>8 DEF Begin, Finish

\* Users, other runs, projections, elections and deaths.
LEMMA StartsReplica ==
    ASSUME RunTypeOK, StartOK, ~LateWakes, NEW p \in Replicas,
           \/ Project(p) \/ Approve(p) \/ Cancel(p) \/ CancelEnds(p) \/ Wake(p)
           \/ Elect(p) \/ Loses(p) \/ Quits(p) \/ Dies(p)
    PROVE  StartOK'
<1> USE DEF Final, FromQueue, GoesOn
<1>1. CASE Project(p)
  <2>1. /\ exec' = exec /\ rec' = rec /\ row' = row /\ sub' = sub
        /\ proj[p] /\ \A q \in Replicas : proj'[q] = IF q = p THEN FALSE ELSE proj[q]
    BY <1>1 DEF Project, RunTypeOK
  <2>2. Quiet  BY <2>1 DEF Quiet
  <2>3. /\ obj'.owner = obj.owner /\ obj'.age = obj.age
        /\ obj'.phase \in {"none", "new"} => obj' = obj
        /\ obj' = obj \/ obj'.phase = row.phase
        /\ obj' = obj \/ obj'.retry = IF row.phase = "Pending" THEN row.retry ELSE "no"
        /\ row.phase \in {"Running", "Approval"} \cup Final => obj'.phase \notin Unreported
    <3>1. CASE obj' = obj /\ (obj.phase \in Final \/ row.phase \in {"none", "Pending"})
      BY <3>1 DEF Unreported
    <3>2. CASE /\ row.phase # "none"
               /\ obj' = [obj EXCEPT !.phase = row.phase,
                                     !.started = IF row.phase = "Running" THEN row.started ELSE "no",
                                     !.retry = IF row.phase = "Pending" THEN row.retry ELSE "no"]
      BY <3>2 DEF RunTypeOK, Unreported
    <3>3. QED  BY <1>1, <3>1, <3>2 DEF Project, Projected
  <2>4. RowFits'  BY <2>1 DEF StartOK, RowFits
  <2>5. ParkedAlone'  BY <2>1 DEF StartOK, ParkedAlone
  <2>6. ClaimHeld'
    <3>1. SUFFICES ASSUME NEW q \in Replicas, rec[q] = "claimed" \/ (\E t \in Turns : FromQueue(q, t))
                   PROVE  obj'.owner = q /\ obj'.retry = "no"
      BY <2>1 DEF ClaimHeld
    <3>2. obj.owner = q /\ obj.retry = "no"  BY <3>1 DEF StartOK, ClaimHeld
    <3>3. row.phase = "Pending" => row.retry = "no"
      BY <2>1, <3>1 DEF StartOK, Waits, RunTypeOK, Marks
    <3>4. QED  BY <2>3, <3>2, <3>3
  <2>7. OffTheQueue'
    <3>1. \A q \in Replicas, t \in Turns :
             GoesOn(q, t) \/ exec[q][t] = "running" => row.phase \in {"Running"} \cup Final
      BY DEF StartOK, RowFits
    <3>2. QED  BY <2>1, <2>3, <3>1 DEF OffTheQueue
  <2>8. Waits'
    <3>1. SUFFICES ASSUME row.phase = "Pending" PROVE Waits'  BY <2>1 DEF Waits
    <3>2. row.retry # "due"  BY <2>1, <3>1 DEF StartOK, Waits
    <3>3. row.retry = "later" => obj'.phase \notin Unreported \/ obj'.retry = "later"
      <4>1. CASE obj' = obj  BY <3>1, <4>1 DEF StartOK, Waits
      <4>2. CASE obj' # obj  BY <2>3, <3>1, <4>2
      <4>3. QED  BY <4>1, <4>2
    <3>4. QED  BY <2>1, <3>1, <3>2, <3>3 DEF StartOK, Waits
  <2>9. Aged'
    <3>1. \A q \in Replicas, t \in Turns : exec[q][t] = "running" => row.phase \in {"Running"} \cup Final
      BY DEF StartOK, RowFits
    <3>2. QED  BY <2>1, <2>3, <3>1 DEF StartOK, Aged, Unreported
  <2>10. QED  BY <2>2, <2>4, <2>5, <2>6, <2>7, <2>8, <2>9, QuietShape DEF StartOK
<1>2. CASE Approve(p)
  <2>1. /\ row.phase = "Approval" /\ obj' = obj /\ rec' = rec /\ sub' = sub
        /\ Now(p, FreeTurn(p), "claimed")
        /\ row'.phase = "Running"
    BY <1>2 DEF Approve, Save, RunTypeOK
  <2>2. \A q \in Replicas : rec[q] # "claimed" /\ \A u \in Turns : ~FromQueue(q, u) /\ ~GoesOn(q, u)
    BY <2>1 DEF StartOK, ParkedAlone
  <2>3. \A q \in Replicas, u \in Turns :
           exec'[q][u] # exec[q][u] => q = p /\ u = FreeTurn(p) /\ exec'[q][u] = "claimed"
    BY <2>1, OneTurnChanges
  <2>4. \A q \in Replicas, u \in Turns :
           /\ exec'[q][u] \notin {"queued", "prep", "running"}
           /\ GoesOn(q, u)' => q = p /\ u = FreeTurn(p)
    BY <2>2, <2>3
  <2>5. QueuedOnce' /\ ResumedOnce' /\ OneOrigin'
    BY <2>1, <2>2, <2>4 DEF QueuedOnce, ResumedOnce, OneOrigin
  <2>6. RowFits'
    <3>1. sub # "row"  BY <2>1 DEF StartOK, RowFits, NoRow
    <3>2. QED  BY <2>1, <2>4, <3>1 DEF RowFits
  <2>7. ParkedAlone' /\ Waits'  BY <2>1 DEF ParkedAlone, Waits
  <2>8. ClaimHeld'  BY <2>1, <2>2, <2>4 DEF ClaimHeld
  <2>9. OffTheQueue' /\ Aged'  BY <2>1, <2>2, <2>4 DEF StartOK, OffTheQueue, Aged
  <2>10. QED  BY <2>5, <2>6, <2>7, <2>8, <2>9 DEF StartOK
<1>3. CASE Cancel(p)
  <2>1. /\ exec' = exec /\ rec' = rec /\ proj' = proj /\ obj' = obj /\ sub' = sub
        /\ row'.phase = row.phase /\ row'.retry = row.retry /\ row.phase # "none"
    BY <1>3 DEF Cancel, RunTypeOK
  <2>2. sub # "row"  BY <2>1 DEF StartOK, RowFits, NoRow
  <2>3. Quiet  BY <2>1 DEF Quiet
  <2>4. QED  BY <2>1, <2>2, <2>3, UnmovedKeeps
<1>4. CASE CancelEnds(p)
  <2>1. CloseOrInterrupt(p) /\ obj' = obj /\ sub' = sub /\ exec' = exec /\ rec' = rec
    BY <1>4 DEF CancelEnds
  <2>2. Quiet  BY <2>1 DEF Quiet
  <2>3. QED  BY <2>1, <2>2, InterruptKeeps
<1>5. CASE Wake(p)
  <2>1. /\ row.phase = "Pending" /\ row.retry = "later" /\ \A q \in Replicas : ~proj[q]
        /\ row'.phase = "Pending" /\ row'.retry = "due"
        /\ exec' = exec /\ rec' = rec /\ sub' = sub
        /\ \A q \in Replicas : ~proj'[q]
        /\ obj'.age = obj.age /\ (obj'.phase \in {"none", "new"} => obj' = obj)
    BY <1>5 DEF Wake, Projected, RunTypeOK
  <2>2. \A q \in Replicas :
           rec[q] # "claimed" /\ \A u \in Turns : ~FromQueue(q, u) /\ ~GoesOn(q, u)
    BY <2>1 DEF StartOK, Waits, RowFits
  <2>3. Quiet  BY <2>1 DEF Quiet
  <2>4. RowFits'
    <3>1. sub # "row"  BY <2>1 DEF StartOK, RowFits, NoRow
    <3>2. QED  BY <2>1, <2>2, <3>1 DEF RowFits
  <2>5. ParkedAlone' /\ Waits'  BY <2>1 DEF ParkedAlone, Waits
  <2>6. ClaimHeld'
    <3>1. \A q \in Replicas : ~(rec'[q] = "claimed" \/ \E t \in Turns : FromQueue(q, t)')
      BY <2>1, <2>2
    <3>2. QED  BY <3>1 DEF ClaimHeld
  <2>7. OffTheQueue' /\ Aged'  BY <2>1, <2>2 DEF StartOK, OffTheQueue, Aged
  <2>8. QED  BY <2>3, <2>4, <2>5, <2>6, <2>7, QuietShape DEF StartOK
<1>6. CASE Elect(p) \/ Loses(p) \/ Quits(p)
  <2>1. /\ exec' = exec /\ proj' = proj /\ obj' = obj /\ sub' = sub /\ row' = row
        /\ rec' = rec \/ Worker(p, "idle")
    BY <1>6 DEF Elect, Loses, Quits
  <2>2. Quiet  BY <2>1, WorkerMoves DEF Quiet
  <2>3. QED  BY <2>1, <2>2, UnmovedKeeps
<1>7. CASE Dies(p)
  <2>1. \A q \in Replicas : rec'[q] = IF q = p THEN "idle" ELSE rec[q]
    BY <1>7, WorkerMoves DEF Dies
  <2>2. /\ \A q \in Replicas, u \in Turns : exec'[q][u] = IF q = p THEN "none" ELSE exec[q][u]
        /\ \A q \in Replicas : proj'[q] = IF q = p THEN FALSE ELSE proj[q]
        /\ row' = row /\ sub' = sub
        /\ obj'.phase = obj.phase /\ obj'.retry = obj.retry /\ obj'.age = obj.age
        /\ obj.owner # p => obj'.owner = obj.owner
    BY <1>7 DEF Dies, RunTypeOK
  <2>3. Quiet  BY <2>1, <2>2 DEF Quiet
  <2>4. RowFits'  BY <2>2 DEF StartOK, RowFits
  <2>5. ParkedAlone'  BY <2>2, <2>3 DEF StartOK, ParkedAlone, Quiet
  <2>6. ClaimHeld'
    <3>1. SUFFICES ASSUME NEW q \in Replicas,
                          rec'[q] = "claimed" \/ (\E t \in Turns : FromQueue(q, t)')
                   PROVE  obj'.owner = q /\ obj'.retry = "no"
      BY DEF ClaimHeld
    <3>2. q # p /\ (rec[q] = "claimed" \/ \E t \in Turns : FromQueue(q, t))
      BY <2>1, <2>2, <3>1
    <3>3. obj.owner = q /\ obj.retry = "no"  BY <3>2 DEF StartOK, ClaimHeld
    <3>4. QED  BY <2>2, <3>2, <3>3
  <2>7. OffTheQueue'
    <3>1. ASSUME NEW q \in Replicas, NEW u \in Turns,
                 GoesOn(q, u)' \/ (exec'[q][u] = "running" /\ ~proj'[q])
          PROVE  obj.phase \notin Unreported
      <4>1. GoesOn(q, u) \/ (exec[q][u] = "running" /\ ~proj[q])  BY <2>2, <3>1
      <4>2. QED  BY <4>1 DEF StartOK, OffTheQueue
    <3>2. row.phase = "Approval" => obj.phase \notin Unreported  BY DEF StartOK, OffTheQueue
    <3>3. QED  BY <2>2, <3>1, <3>2 DEF OffTheQueue
  <2>8. Waits'  BY <2>2, <2>3 DEF StartOK, Waits, Quiet
  <2>9. Aged'  BY <2>1, <2>2 DEF StartOK, Aged
  <2>10. QED  BY <2>3, <2>4, <2>5, <2>6, <2>7, <2>8, <2>9, QuietShape DEF StartOK
<1>8. QED  BY <1>1, <1>2, <1>3, <1>4, <1>5, <1>6, <1>7

\* A run that is submitted is in nobody's hands.
LEMMA StartInit == ASSUME Init PROVE StartInv
<1> USE DEF Init, FromQueue, GoesOn
<1>1. QueuedOnce /\ ResumedOnce /\ OneOrigin  BY DEF QueuedOnce, ResumedOnce, OneOrigin
<1>2. RowFits /\ ParkedAlone  BY DEF RowFits, ParkedAlone, NoRow
<1>3. ClaimHeld /\ OffTheQueue /\ Waits /\ Aged  BY DEF ClaimHeld, OffTheQueue, Waits, Aged, NoRow
<1>4. QED  BY <1>1, <1>2, <1>3 DEF StartInv, StartOK

\* Once overtaken, always overtaken.
LEMMA OvertakenStays == ASSUME Next, ~overtaken' PROVE ~overtaken
<1>1. CASE \E p \in Replicas, t \in Turns : Turn(p, t)
  BY <1>1 DEF Turn, Starts, Begins, FailsBeforeStart, Checkpoints, Ends, Resumes
<1>2. CASE \E p \in Replicas : Begin(p) \/ Finish(p) \/ RemoteStopFails(p) \/ Clear(p)
  BY <1>2 DEF Begin, Finish, Claim, Abandon, Recover, Stamp, Overdue, Stop, Dispatch, HandBack,
              StopEnds, RemoteStopFails, Clear
<1>3. CASE \E p \in Replicas : \/ Project(p) \/ Approve(p) \/ Cancel(p) \/ CancelEnds(p)
                               \/ Wake(p) \/ Elect(p) \/ Loses(p) \/ Quits(p) \/ Dies(p)
  BY <1>3 DEF Project, Approve, Cancel, CancelEnds, Wake, Elect, Loses, Quits, Dies
<1>4. CASE SubmitRow \/ SubmitObject \/ SubmitStatus \/ SubmitEnds \/ TimePasses
  BY <1>4 DEF SubmitRow, SubmitObject, SubmitStatus, SubmitEnds, TimePasses, GracePasses,
              RetryComes, LimitPasses
<1>5. QED  BY <1>1, <1>2, <1>3, <1>4 DEF Next

\* While no turn was overtaken the run is in one pair of hands.
LEMMA StartStep ==
    ASSUME ~LateWakes, RunTypeOK, StartInv, [Next]_vars
    PROVE  StartInv'
<1> SUFFICES ASSUME ~overtaken' PROVE StartOK'  BY DEF StartInv
<1>1. RunTypeOK  OBVIOUS
<1>2. CASE Next
  <2>1. StartOK  BY <1>2, OvertakenStays DEF StartInv
  <2>2. QED
    BY <1>1, <1>2, <2>1, StartsSubmission, StartsTurn, StartsReconciler, StartsReplica DEF Next
<1>3. CASE UNCHANGED vars
  <2>1. StartOK  BY <1>3 DEF StartInv, vars
  <2>2. Quiet  BY <1>3 DEF Quiet, vars, FromQueue, GoesOn
  <2>3. QED  BY <1>3, <2>1, <2>2, UnmovedKeeps DEF vars
<1>4. QED  BY <1>2, <1>3

\* A turn is only started where nobody prepares or executes one.
LEMMA StartAlone ==
    ASSUME RunTypeOK, StartOK, Next,
           NEW p \in Replicas, NEW t \in Turns, exec[p][t] = "queued", exec'[p][t] = "prep"
    PROVE  \A q \in Replicas, u \in Turns : exec[q][u] \notin {"prep", "running"}
<1>1. row.phase = "Pending"
  <2>0. RunTypeOK  OBVIOUS
  <2>1. CASE \E q \in Replicas, u \in Turns : Turn(q, u)
    <3>1. PICK q \in Replicas, u \in Turns : Turn(q, u)  BY <2>1
    <3>2. CASE Starts(q, u)
      BY <2>0, <3>2, OneTurnChanges DEF Starts
    <3>3. CASE ~Starts(q, u)
      <4>1. exec' = exec \/ Now(q, u, "running") \/ Now(q, u, "none") \/ Now(q, u, "resumed")
        BY <3>1, <3>3 DEF Turn, Begins, FailsBeforeStart, Checkpoints, Ends, Resumes
      <4>2. QED  BY <2>0, <4>1, OneTurnChanges
    <3>4. QED  BY <3>2, <3>3
  <2>2. CASE \E q \in Replicas : Dies(q)
    <3>1. exec'[p][t] \in {exec[p][t], "none"}  BY <2>0, <2>2 DEF Dies, RunTypeOK
    <3>2. QED  BY <3>1
  <2>3. CASE \E q \in Replicas :
                \/ Begin(q) \/ Finish(q) \/ RemoteStopFails(q) \/ Clear(q) \/ Project(q)
                \/ Approve(q) \/ Cancel(q) \/ CancelEnds(q) \/ Wake(q) \/ Elect(q)
                \/ Loses(q) \/ Quits(q)
    <3>1. PICK q \in Replicas :
                \/ Begin(q) \/ Finish(q) \/ RemoteStopFails(q) \/ Clear(q) \/ Project(q)
                \/ Approve(q) \/ Cancel(q) \/ CancelEnds(q) \/ Wake(q) \/ Elect(q)
                \/ Loses(q) \/ Quits(q)
      BY <2>3
    <3>2. exec' = exec \/ Now(q, FreeTurn(q), "claimed") \/ Now(q, FreeTurn(q), "queued")
      BY <3>1 DEF Begin, Finish, Claim, Abandon, Recover, Stamp, Overdue, Stop, Dispatch, HandBack,
              StopEnds, RemoteStopFails, Clear, Project, Approve, Cancel, CancelEnds, Wake, Elect,
              Loses, Quits
    <3>3. QED  BY <2>0, <3>2, OneTurnChanges
  <2>4. CASE SubmitRow \/ SubmitObject \/ SubmitStatus \/ SubmitEnds \/ TimePasses
    BY <2>4 DEF SubmitRow, SubmitObject, SubmitStatus, SubmitEnds, TimePasses, GracePasses,
                RetryComes, LimitPasses
  <2>5. QED  BY <2>1, <2>2, <2>3, <2>4 DEF Next
<1>2. SUFFICES ASSUME NEW q \in Replicas, NEW u \in Turns, exec[q][u] \in {"prep", "running"}
               PROVE  FALSE
  OBVIOUS
<1>3. exec[q][u] = "prep"  BY <1>1, <1>2 DEF StartOK, RowFits, Final
<1>4. q = p  BY <1>3 DEF StartOK, ClaimHeld, FromQueue
<1>5. u = t  BY <1>3, <1>4 DEF StartOK, QueuedOnce, FromQueue
<1>6. QED  BY <1>3, <1>4, <1>5

\* Under the same conditions what precedes the run's start is done in one
\* process, the one that holds the claim: a process that still has the run from
\* the queue, be it one that lost the lease and went on, owns it on the object,
\* and nobody else takes it meanwhile (claimable, handBack, execute).
THEOREM OnlyOwnerHasRun == ~LateWakes => (Spec => [](~overtaken => ClaimHeld /\ QueuedOnce))
<1> SUFFICES ASSUME ~LateWakes PROVE Spec => [](~overtaken => ClaimHeld /\ QueuedOnce)  OBVIOUS
<1>1. Init => StartInv  BY StartInit
<1>2. RunTypeOK /\ StartInv /\ [Next]_vars => StartInv'  BY StartStep
<1>3. StartInv => (~overtaken => ClaimHeld /\ QueuedOnce)  BY DEF StartInv, StartOK
<1>4. QED  BY <1>1, <1>2, <1>3, RunTypeCorrect, PTL DEF Spec

\* Unless a wake-up is projected after the claim it led to, a turn was recovered
\* alive, a claim grew old before its turn was seen to run, or the first status
\* came after a hand-back, no run is started from the queue while a turn that
\* came from it is prepared or executed: for any number of replicas, turns,
\* claims, attempts and recoveries, whatever dies and whoever loses the lease
\* (claimAndDispatch, claimable, handBack, handle, retryRun, wakeNextQueued).
THEOREM RunStartsOnce == ~LateWakes => (Spec => StartedOnce)
<1> SUFFICES ASSUME ~LateWakes PROVE Spec => StartedOnce  OBVIOUS
<1>1. Init => StartInv  BY StartInit
<1>2. RunTypeOK /\ StartInv /\ [Next]_vars => StartInv'  BY StartStep
<1>3. RunTypeOK /\ StartInv /\ [Next]_vars =>
         [\A p \in Replicas, t \in Turns :
             exec[p][t] = "queued" /\ exec'[p][t] = "prep" /\ ~overtaken =>
                \A q \in Replicas, u \in Turns : exec[q][u] \notin {"prep", "running"}]_vars
  BY StartAlone DEF StartInv
<1>4. QED  BY <1>1, <1>2, <1>3, RunTypeCorrect, PTL DEF Spec, StartedOnce

(* ---- what a run may kill ------------------------------------------------- *)

\* Whether some process may still die of the run as things are, whether a claim
\* may open a new series of pickups, and a turn start the count of recoveries anew.
InHand ==
    \/ row.phase = "Approval"
    \/ \E p \in Replicas : rec[p] = "claimed" \/ \E t \in Turns : exec[p][t] # "none"
Armed ==
    \/ obj.retry # "no" /\ obj.owner # NoOne
    \/ row.phase = "Pending" /\ row.retry = "later"
Startable == row.phase = "Pending" \/ \E p \in Replicas, t \in Turns : exec[p][t] = "prep"
Fresh == row.retries # 0 /\ Startable

\* The processes that died, or may die without another claim or recovery, with
\* the series and the recoveries that are already provided for; and what the
\* counters of the two records account for.
Spent ==
    kills + (IF InHand THEN 1 ELSE 0)
          + (IF Armed THEN MaxClaims ELSE 0) + (IF Fresh THEN MaxRecovery ELSE 0)
Allowed == row.retries * (MaxClaims + MaxRecovery) + obj.attempt + row.recovered

KillsWithin == kills <= MaxAttempts * (MaxClaims + MaxRecovery)

KillOK ==
    /\ row.phase # "none" => Spent <= Allowed /\ (Armed => row.retries # 0)
    /\ row.retries = 0 /\ Startable => row.recovered = 0
    /\ sub = "row" => kills = 0 /\ obj.phase = "none" /\ ~InHand /\ ~Armed
    /\ KillsWithin

KillInv == ~overtaken => KillOK

\* The counters are bounded by the limits.
LEMMA AllowedBound ==
    ASSUME NEW a \in 0..(MaxAttempts - 1), NEW c \in 0..MaxClaims, NEW r \in 0..MaxRecovery
    PROVE  /\ a * (MaxClaims + MaxRecovery) \in Nat
           /\ a * (MaxClaims + MaxRecovery) + c + r <= MaxAttempts * (MaxClaims + MaxRecovery)
<1> DEFINE m == MaxClaims + MaxRecovery
           b == MaxAttempts - (a + 1)
<1>1. m \in Nat /\ a \in Nat /\ b \in Nat /\ c + r <= m  BY AgentAssumption
<1>2. a * m \in Nat /\ b * m \in Nat
  <2> HIDE DEF m, b
  <2>1. QED  BY <1>1
<1>3. MaxAttempts * m = a * m + m + b * m
  <2>1. MaxAttempts = a + 1 + b  BY AgentAssumption
  <2>2. (a + 1 + b) * m = a * m + m + b * m
    <3> HIDE DEF m, b
    <3>1. QED  BY <1>1
  <2>3. QED  BY <2>1, <2>2
<1>4. a * m + c + r <= a * m + m + b * m
  <2> HIDE DEF m, b
  <2>1. QED  BY <1>1, <1>2
<1>5. QED  BY <1>2, <1>3, <1>4

\* The next attempt provides for another series and its recoveries.
LEMMA AttemptProvides ==
    ASSUME NEW a \in Nat
    PROVE  (a + 1) * (MaxClaims + MaxRecovery)
              = a * (MaxClaims + MaxRecovery) + MaxClaims + MaxRecovery
<1> DEFINE m == MaxClaims + MaxRecovery
<1>1. m \in Nat /\ MaxClaims \in Nat /\ MaxRecovery \in Nat  BY AgentAssumption
<1>2. (a + 1) * m = a * m + m
  <2> HIDE DEF m
  <2>1. QED  BY <1>1
<1>3. QED  BY <1>1, <1>2

\* The bound follows where there is a row; without one nobody dies of the run.
LEMMA BudgetBounds ==
    ASSUME RunTypeOK', KillsWithin, row'.phase # "none" => Spent' <= Allowed',
           row'.phase = "none" => kills' = kills
    PROVE  KillsWithin'
<1>1. CASE row'.phase = "none"  BY <1>1 DEF KillsWithin
<1>2. CASE row'.phase # "none"
  <2> DEFINE total == MaxAttempts * (MaxClaims + MaxRecovery)
             used == row'.retries * (MaxClaims + MaxRecovery)
  <2>1. /\ row'.retries \in 0..(MaxAttempts - 1) /\ obj'.attempt \in 0..MaxClaims
        /\ row'.recovered \in 0..MaxRecovery /\ kills' \in Nat
    BY DEF RunTypeOK
  <2>2. used \in Nat /\ used + obj'.attempt + row'.recovered <= total
    BY <2>1, AllowedBound
  <2>3. total \in Nat  BY AgentAssumption
  <2>4. Spent' \in Nat /\ kills' <= Spent'
    <3>1. (IF InHand' THEN 1 ELSE 0) \in Nat /\ (IF Armed' THEN MaxClaims ELSE 0) \in Nat
          /\ (IF Fresh' THEN MaxRecovery ELSE 0) \in Nat
      BY AgentAssumption
    <3>2. QED  BY <2>1, <3>1 DEF Spent
  <2>5. Spent' <= used + obj'.attempt + row'.recovered  BY <1>2 DEF Allowed
  <2>6. kills' <= total
    <3> HIDE DEF total, used
    <3>1. QED  BY <2>1, <2>2, <2>3, <2>4, <2>5
  <2>7. QED  BY <2>6 DEF KillsWithin
<1>3. QED  BY <1>1, <1>2

\* A step at which nobody dies, that takes the run in no hands and provides for
\* nothing anew.
Calm ==
    /\ kills' = kills /\ obj'.attempt = obj.attempt
    /\ row'.retries = row.retries /\ row'.recovered = row.recovered
    /\ row'.phase # "none" => row.phase # "none"
    /\ sub' = "row" => sub = "row" /\ obj'.phase = obj.phase
    /\ InHand' => InHand
    /\ Armed' => Armed
    /\ Startable' => Startable

LEMMA CalmKeeps ==
    ASSUME RunTypeOK, RunTypeOK', KillOK, Calm
    PROVE  KillOK'
<1>1. Fresh' => Fresh  BY DEF Calm, Fresh
<1>2. row'.phase # "none" => Spent' <= Allowed'
  <2>1. Allowed' = Allowed  BY DEF Calm, Allowed
  <2>2. Allowed \in Nat
    <3>1. row.retries \in 0..(MaxAttempts - 1) /\ obj.attempt \in Nat /\ row.recovered \in Nat
      BY DEF RunTypeOK
    <3>2. row.retries * (MaxClaims + MaxRecovery) \in Nat
      <4>1. row.retries \in Nat /\ MaxClaims + MaxRecovery \in Nat  BY <3>1, AgentAssumption
      <4>2. \A a, b \in Nat : a * b \in Nat  OBVIOUS
      <4>3. QED  BY <4>1, <4>2
    <3>3. QED  BY <3>1, <3>2 DEF Allowed
  <2>3. kills \in Nat /\ MaxClaims \in Nat /\ MaxRecovery \in Nat
    BY AgentAssumption DEF RunTypeOK
  <2>4. Spent' <= Spent /\ Spent \in Nat /\ Spent' \in Nat
    BY <1>1, <2>3 DEF Calm, Spent
  <2>5. QED  BY <2>1, <2>2, <2>4 DEF Calm, KillOK
<1>3. row'.phase # "none" => (Armed' => row'.retries # 0)  BY DEF Calm, KillOK
<1>4. row'.retries = 0 /\ Startable' => row'.recovered = 0
  BY DEF Calm, KillOK
<1>5. sub' = "row" => kills' = 0 /\ obj'.phase = "none" /\ ~InHand' /\ ~Armed'
  BY DEF Calm, KillOK
<1>6. KillsWithin'  BY <1>2, BudgetBounds DEF Calm, KillOK
<1>7. QED  BY <1>2, <1>3, <1>4, <1>5, <1>6 DEF KillOK

\* A step that closes the row is calm.
LEMMA ClosingCalm ==
    ASSUME RunTypeOK, NEW p \in Replicas, NEW f \in Final, Save(p, Closed(row, f)),
           obj' = obj, sub' = sub, kills' = kills,
           \A q \in Replicas : rec'[q] = "claimed" => rec[q] = "claimed",
           \A q \in Replicas, u \in Turns : exec'[q][u] \in {exec[q][u], "none"}
    PROVE  Calm
<1>1. /\ (row'.phase \in Final /\ row.phase # "none") \/ (row' = row /\ row.phase = "none")
      /\ row'.retries = row.retries /\ row'.recovered = row.recovered
  <2>1. CASE row.phase = "none"  BY <2>1 DEF Save, Closed
  <2>2. CASE row.phase # "none"  BY <2>2 DEF Save, Closed, RunTypeOK
  <2>3. QED  BY <2>1, <2>2
<1>2. row'.phase # "Pending" /\ row'.phase # "Approval"  BY <1>1 DEF Final
<1>3. row'.phase # "none" => row.phase # "none"  BY <1>1
<1>4. (InHand' => InHand) /\ (Startable' => Startable) /\ (Armed' => Armed)
  BY <1>2 DEF InHand, Startable, Armed
<1>5. QED  BY <1>1, <1>3, <1>4 DEF Calm

\* A cancel or a stop that ends is calm.
LEMMA InterruptCalm ==
    ASSUME RunTypeOK, NEW p \in Replicas, CloseOrInterrupt(p),
           obj' = obj, sub' = sub, kills' = kills, exec' = exec,
           \A q \in Replicas : rec'[q] = "claimed" => rec[q] = "claimed"
    PROVE  Calm
<1>1. CASE row' = row  BY <1>1 DEF Calm, InHand, Startable, Armed
<1>2. CASE Save(p, Closed(row, "Aborted"))
  <2>1. "Aborted" \in Final  BY DEF Final
  <2>2. \A q \in Replicas, u \in Turns : exec'[q][u] \in {exec[q][u], "none"}  OBVIOUS
  <2>3. QED  BY <1>2, <2>1, <2>2, ClosingCalm
<1>3. QED  BY <1>1, <1>2 DEF CloseOrInterrupt

\* Submission and the passing of time.
LEMMA KillsSubmission ==
    ASSUME RunTypeOK, RunTypeOK', StartOK, KillOK,
           SubmitRow \/ SubmitObject \/ SubmitStatus \/ SubmitEnds \/ TimePasses
    PROVE  KillOK'
<1>1. CASE SubmitRow
  <2>1. /\ row = NoRow /\ row'.phase = "Pending" /\ row'.retry = "no"
        /\ row'.retries = 0 /\ row'.recovered = 0
    BY <1>1 DEF SubmitRow, StartOK, RowFits, NoRow
  <2>2. /\ kills' = 0 /\ ~InHand' /\ ~Armed' /\ ~Fresh'
    BY <1>1, <2>1 DEF SubmitRow, KillOK, InHand, Armed, Fresh
  <2>3. Spent' = 0  BY <2>2, AgentAssumption DEF Spent
  <2>4. Allowed' \in Nat
    <3>1. 0 * (MaxClaims + MaxRecovery) = 0  BY AgentAssumption
    <3>2. obj'.attempt \in Nat  BY DEF RunTypeOK
    <3>3. QED  BY <2>1, <3>1, <3>2 DEF Allowed
  <2>5. Spent' <= Allowed'  BY <2>3, <2>4
  <2>6. KillsWithin'  BY <2>1, <2>5, BudgetBounds DEF KillOK
  <2>7. sub' # "row"  BY <1>1 DEF SubmitRow
  <2>8. QED  BY <2>1, <2>2, <2>5, <2>6, <2>7 DEF KillOK
<1>2. CASE SubmitEnds /\ row' = NoRow
  <2>1. row'.phase = "none" /\ row'.recovered = 0 /\ kills' = kills /\ sub' # "row"
    BY <1>2 DEF SubmitEnds, NoRow
  <2>2. KillsWithin'  BY <2>1 DEF KillOK, KillsWithin
  <2>3. QED  BY <2>1, <2>2 DEF KillOK
<1>3. CASE SubmitObject \/ SubmitStatus \/ (SubmitEnds /\ row' = row) \/ GracePasses
           \/ LimitPasses \/ RetryComes
  <2>1. exec' = exec /\ rec' = rec /\ kills' = kills /\ sub' # "row"
    BY <1>3 DEF SubmitObject, SubmitStatus, SubmitEnds, GracePasses, LimitPasses, RetryComes
  <2>2. /\ row'.phase = row.phase /\ row'.retries = row.retries /\ row'.recovered = row.recovered
        /\ row'.retry = "later" => row.retry = "later"
    BY <1>3 DEF SubmitObject, SubmitStatus, SubmitEnds, GracePasses, LimitPasses, RetryComes,
                RunTypeOK, Late
  <2>3. /\ obj'.attempt = obj.attempt /\ obj'.owner = obj.owner
        /\ obj'.retry # "no" => obj.retry # "no"
    <3>1. CASE SubmitStatus  BY <3>1 DEF SubmitStatus, Projected, RunTypeOK
    <3>2. CASE SubmitObject  BY <3>2 DEF SubmitObject, RunTypeOK
    <3>3. CASE SubmitEnds  BY <3>3 DEF SubmitEnds
    <3>4. CASE GracePasses  BY <3>4 DEF GracePasses, RunTypeOK
    <3>5. CASE LimitPasses  BY <3>5 DEF LimitPasses, RunTypeOK
    <3>6. CASE RetryComes  BY <3>6 DEF RetryComes, Late, RunTypeOK
    <3>7. QED  BY <1>3, <3>1, <3>2, <3>3, <3>4, <3>5, <3>6
  <2>4. Calm  BY <2>1, <2>2, <2>3 DEF Calm, InHand, Armed, Startable
  <2>5. QED  BY <2>4, CalmKeeps
<1>4. QED  BY <1>1, <1>2, <1>3 DEF SubmitEnds, TimePasses

\* The turns of a replica.
LEMMA KillsTurn ==
    ASSUME RunTypeOK, RunTypeOK', StartOK, StartOK', KillOK,
           NEW p \in Replicas, NEW t \in Turns, Turn(p, t)
    PROVE  KillOK'
<1>0. sub' = sub /\ obj' = obj /\ rec' = rec /\ kills' = kills
  BY DEF Turn, Starts, Begins, FailsBeforeStart, Checkpoints, Ends, Resumes
<1>A. exec[p][t] # "none"
  BY DEF Turn, Starts, Begins, FailsBeforeStart, Checkpoints, Ends, Resumes
<1>B. InHand  BY <1>A DEF InHand
<1>1. CASE Starts(p, t)
  <2>1. PICK s \in {"prep", "none"} : Now(p, t, s) /\ (s = "prep" => row.phase = "Pending")
    BY <1>1 DEF Starts
  <2>2. \A q \in Replicas, u \in Turns :
           exec'[q][u] = IF q = p /\ u = t THEN s ELSE exec[q][u]
    BY <2>1, TurnMoves
  <2>3. row' = row  BY <1>1 DEF Starts
  <2>4. Startable' => Startable  BY <2>1, <2>2, <2>3 DEF Startable
  <2>5. Calm  BY <1>0, <1>B, <2>3, <2>4 DEF Calm, Armed
  <2>6. QED  BY <2>5, CalmKeeps
<1>2. CASE Begins(p, t)
  <2>1. /\ row'.phase = "Running" /\ row'.recovered = 0 /\ row'.retries = row.retries
    BY <1>2 DEF Begins, Save, RunTypeOK
  <2>2. Startable  BY <1>2 DEF Begins, Startable
  <2>3. ~Startable'  BY <2>1 DEF Startable, StartOK, RowFits, Final
  <2>4. Armed' => Armed  BY <1>0, <2>1 DEF Armed
  <2>5. row.phase # "none" /\ sub # "row"
    BY <1>2 DEF Begins, StartOK, RowFits, Final, NoRow
  <2>6. Spent' <= Allowed'
    <3> DEFINE used == row.retries * (MaxClaims + MaxRecovery)
    <3>1. /\ row.retries \in 0..(MaxAttempts - 1) /\ obj.attempt \in 0..MaxClaims
          /\ row.recovered \in 0..MaxRecovery /\ kills \in Nat
          /\ MaxClaims \in Nat /\ MaxRecovery \in Nat
      BY AgentAssumption DEF RunTypeOK
    <3>2. used \in Nat  BY <3>1, AllowedBound
    <3>3. Spent <= used + obj.attempt + row.recovered  BY <2>5 DEF KillOK, Allowed
    <3>4. Allowed' = used + obj.attempt  BY <1>0, <2>1, <3>1, <3>2 DEF Allowed
    <3>5. ~Fresh'  BY <2>3 DEF Fresh
    <3>6. CASE row.retries = 0
      <4>1. row.recovered = 0  BY <2>2, <3>6 DEF KillOK
      <4>2. Spent' <= Spent /\ Spent' \in Nat /\ Spent \in Nat
        BY <1>0, <1>B, <2>4, <3>1, <3>5 DEF Spent
      <4>3. QED
        <5> HIDE DEF used
        <5>1. QED  BY <3>1, <3>2, <3>3, <3>4, <4>1, <4>2
    <3>7. CASE row.retries # 0
      <4>1. Fresh  BY <2>2, <3>7 DEF Fresh
      <4>2. Spent' + MaxRecovery <= Spent /\ Spent' \in Nat /\ Spent \in Nat
        BY <1>0, <1>B, <2>4, <3>1, <3>5, <4>1 DEF Spent
      <4>3. Spent <= used + obj.attempt + MaxRecovery
        <5> HIDE DEF used
        <5>1. QED  BY <3>1, <3>2, <3>3, <4>2
      <4>4. obj.attempt \in Nat  BY <3>1
      <4>5. Spent' <= used + obj.attempt
        <5>1. used + obj.attempt \in Nat /\ MaxRecovery \in Nat  BY <3>1, <3>2, <4>4
        <5>2. \A a, b, c, m \in Nat : a + m <= b /\ b <= c + m => a <= c  OBVIOUS
        <5> HIDE DEF used
        <5>3. QED  BY <4>2, <4>3, <5>1, <5>2
      <4>6. QED  BY <3>4, <4>5
    <3>8. QED  BY <3>6, <3>7
  <2>7. KillsWithin'  BY <2>1, <2>6, BudgetBounds DEF KillOK
  <2>8. QED  BY <1>0, <2>1, <2>3, <2>4, <2>5, <2>6, <2>7 DEF KillOK
<1>3. CASE FailsBeforeStart(p, t)
  <2>1. /\ Save(p, Closed(row, "Failed"))
        /\ \A q \in Replicas, u \in Turns :
              exec'[q][u] = IF q = p /\ u = t THEN "none" ELSE exec[q][u]
    BY <1>3, TurnMoves DEF FailsBeforeStart
  <2>2. \A q \in Replicas, u \in Turns : exec'[q][u] \in {exec[q][u], "none"}  BY <2>1
  <2>3. "Failed" \in Final  BY DEF Final
  <2>4. Calm  BY <1>0, <2>1, <2>2, <2>3, ClosingCalm
  <2>5. QED  BY <2>4, CalmKeeps
<1>4. CASE Checkpoints(p, t)
  <2>1. /\ row'.phase = row.phase /\ row'.retry = row.retry /\ row'.retries = row.retries
        /\ row'.recovered = row.recovered /\ exec' = exec
    BY <1>4 DEF Checkpoints, Save, RunTypeOK
  <2>2. Calm  BY <1>0, <2>1 DEF Calm, InHand, Armed, Startable
  <2>3. QED  BY <2>2, CalmKeeps
<1>5. CASE Ends(p, t)
  <2>1. \A q \in Replicas, u \in Turns :
           exec'[q][u] = IF q = p /\ u = t THEN "none" ELSE exec[q][u]
    BY <1>5, TurnMoves DEF Ends
  <2>2. \A q \in Replicas, u \in Turns : exec'[q][u] \in {exec[q][u], "none"}  BY <2>1
  <2>3. row.phase # "none" /\ sub # "row"
    BY <1>5 DEF Ends, StartOK, RowFits, Final, NoRow
  <2>4. PICK r \in Ended \cup {Closed(row, "Aborted")} : Save(p, r)  BY <1>5 DEF Ends
  <2>5. CASE \E f \in Final : r = Closed(row, f)
    <3>1. Calm  BY <1>0, <2>2, <2>4, <2>5, ClosingCalm
    <3>2. QED  BY <3>1, CalmKeeps
  <2>6. CASE r = [row EXCEPT !.phase = "Approval", !.ckpt = TRUE]
    <3>1. row'.phase = "Approval" /\ row'.retries = row.retries /\ row'.recovered = row.recovered
      BY <2>4, <2>6 DEF Save, RunTypeOK
    <3>2. Startable' => Startable  BY <2>2, <3>1 DEF Startable
    <3>3. Calm  BY <1>0, <1>B, <2>3, <3>1, <3>2 DEF Calm, Armed
    <3>4. QED  BY <3>3, CalmKeeps
  <2>7. CASE r = HandedBack(row)
    <3>1. /\ row'.phase = "Pending" /\ row'.retry = "later"
          /\ row'.retries = row.retries + 1 /\ row'.recovered = row.recovered
      BY <2>4, <2>7 DEF Save, HandedBack, RunTypeOK
    <3>2. ~InHand'
      <4>1. \A q \in Replicas : rec'[q] # "claimed" /\ \A u \in Turns : ~FromQueue(q, u)'
        BY <3>1 DEF StartOK, Waits
      <4>2. \A q \in Replicas, u \in Turns : exec'[q][u] \notin {"claimed", "resumed"}
        BY <3>1 DEF StartOK, RowFits, Final
      <4>3. \A q \in Replicas, u \in Turns : exec'[q][u] = "none"
        BY <4>1, <4>2 DEF RunTypeOK, FromQueue
      <4>4. QED  BY <3>1, <4>1, <4>3 DEF InHand
    <3>3. Spent' <= Allowed'
      <4> DEFINE used == row.retries * (MaxClaims + MaxRecovery)
      <4>1. /\ row.retries \in 0..(MaxAttempts - 1) /\ obj.attempt \in 0..MaxClaims
            /\ row.recovered \in 0..MaxRecovery /\ kills \in Nat /\ row.retries \in Nat
            /\ MaxClaims \in Nat /\ MaxRecovery \in Nat
        BY AgentAssumption DEF RunTypeOK
      <4>2. used \in Nat  BY <4>1, AllowedBound
      <4>3. Spent <= used + obj.attempt + row.recovered  BY <2>3 DEF KillOK, Allowed
      <4>4. (row.retries + 1) * (MaxClaims + MaxRecovery) = used + MaxClaims + MaxRecovery
        BY <4>1, AttemptProvides
      <4>5. Allowed' = used + MaxClaims + MaxRecovery + obj.attempt + row.recovered
        BY <1>0, <3>1, <4>4 DEF Allowed
      <4>6. Spent \in Nat /\ kills <= Spent /\ Spent' \in Nat /\ Spent' <= kills + MaxClaims + MaxRecovery
        BY <1>0, <3>2, <4>1 DEF Spent
      <4>7. QED
        <5> HIDE DEF used
        <5>1. QED  BY <4>1, <4>2, <4>3, <4>5, <4>6
    <3>4. row'.retries # 0  BY <3>1 DEF RunTypeOK
    <3>5. KillsWithin'  BY <3>1, <3>3, BudgetBounds DEF KillOK
    <3>6. QED  BY <1>0, <2>3, <3>3, <3>4, <3>5 DEF KillOK
  <2>8. QED  BY <2>4, <2>5, <2>6, <2>7 DEF Ended, Final
<1>6. CASE Resumes(p, t)
  <2>1. PICK s \in {"none", "resumed"} : Now(p, t, s)  BY <1>6 DEF Resumes
  <2>2. \A q \in Replicas, u \in Turns :
           exec'[q][u] = IF q = p /\ u = t THEN s ELSE exec[q][u]
    BY <2>1, TurnMoves
  <2>3. CASE row' = row
    <3>1. Startable' => Startable  BY <2>2, <2>3 DEF Startable
    <3>2. Calm  BY <1>0, <1>B, <2>3, <3>1 DEF Calm, Armed
    <3>3. QED  BY <3>2, CalmKeeps
  <2>4. CASE Now(p, t, "none") /\ Save(p, Closed(row, "Failed"))
    <3>1. \A q \in Replicas, u \in Turns :
             exec'[q][u] = IF q = p /\ u = t THEN "none" ELSE exec[q][u]
      BY <2>4, TurnMoves
    <3>2. \A q \in Replicas, u \in Turns : exec'[q][u] \in {exec[q][u], "none"}  BY <3>1
    <3>3. "Failed" \in Final  BY DEF Final
    <3>4. Calm  BY <1>0, <2>4, <3>2, <3>3, ClosingCalm
    <3>5. QED  BY <3>4, CalmKeeps
  <2>5. QED  BY <1>6, <2>3, <2>4 DEF Resumes
<1>7. QED  BY <1>1, <1>2, <1>3, <1>4, <1>5, <1>6 DEF Turn

\* The reconciler of a replica.
LEMMA KillsReconciler ==
    ASSUME RunTypeOK, RunTypeOK', StartOK, KillOK, NEW p \in Replicas,
           Begin(p) \/ Finish(p) \/ RemoteStopFails(p) \/ Clear(p)
    PROVE  KillOK'
<1>0. RunTypeOK /\ (row.phase # "none" => sub # "row")
  BY DEF StartOK, RowFits, NoRow
<1>1. CASE Claim(p)
  <2>1. /\ exec' = exec /\ row' = row /\ sub' = sub /\ kills' = kills
        /\ obj'.retry = "no" /\ obj'.attempt = Pickups(obj)
        /\ obj.attempt < MaxClaims /\ obj.phase # "none"
    BY <1>0, <1>1 DEF Claim, Claimable, RunTypeOK
  <2>2. /\ \A q \in Replicas : rec[q] # "claimed"
        /\ \A q \in Replicas, u \in Turns : ~FromQueue(q, u) /\ ~GoesOn(q, u)
        /\ row.phase # "Approval"
        /\ row.phase = "Pending" => row.retry # "later"
    BY <1>1, ClaimedAlone
  <2>3. ~InHand
    <3>1. \A q \in Replicas, u \in Turns : exec[q][u] = "none"
      BY <1>0, <2>2 DEF RunTypeOK, FromQueue, GoesOn
    <3>2. QED  BY <2>2, <3>1 DEF InHand
  <2>4. Armed <=> obj.retry # "no" /\ obj.owner # NoOne  BY <2>2 DEF Armed
  <2>5. ~Armed'  BY <2>1, <2>2 DEF Armed
  <2>6. (Startable' <=> Startable) /\ (Fresh' <=> Fresh)  BY <2>1 DEF Startable, Fresh
  <2>7. ASSUME row.phase # "none" PROVE Spent' <= Allowed'
    <3> DEFINE used == row.retries * (MaxClaims + MaxRecovery)
               again == IF Fresh THEN MaxRecovery ELSE 0
    <3>1. /\ row.retries \in 0..(MaxAttempts - 1)
          /\ obj.attempt \in 0..MaxClaims /\ row.recovered \in 0..MaxRecovery
          /\ obj.attempt \in Nat /\ row.recovered \in Nat
          /\ kills \in Nat /\ MaxClaims \in Nat /\ again \in Nat
      BY <1>0, AgentAssumption DEF RunTypeOK
    <3>2. used \in Nat  BY <3>1, AllowedBound
    <3>3. Spent <= used + obj.attempt + row.recovered  BY <2>7 DEF KillOK, Allowed
    <3>4. Allowed' = used + Pickups(obj) + row.recovered  BY <2>1 DEF Allowed
    <3>5. Spent = kills + (IF Armed THEN MaxClaims ELSE 0) + again
      BY <2>3, <3>1 DEF Spent
    <3>6. Spent' \in Nat /\ Spent' <= kills + 1 + again
      BY <2>1, <2>5, <2>6, <3>1 DEF Spent
    <3>7. CASE Armed
      <4>1. Pickups(obj) = 1  BY <2>4, <3>7 DEF Pickups
      <4>2. Allowed' = used + 1 + row.recovered  BY <3>4, <4>1
      <4>3. kills + MaxClaims + again <= used + obj.attempt + row.recovered  BY <3>3, <3>5, <3>7
      <4>4. QED
        <5> HIDE DEF used, again
        <5>1. kills + again <= used + row.recovered  BY <2>1, <3>1, <3>2, <4>3
        <5>2. QED  BY <3>1, <3>2, <3>6, <4>2, <5>1
    <3>8. CASE ~Armed
      <4>1. Pickups(obj) = obj.attempt + 1  BY <2>4, <3>8 DEF Pickups
      <4>2. Allowed' = used + (obj.attempt + 1) + row.recovered  BY <3>4, <4>1
      <4>3. kills + again <= used + obj.attempt + row.recovered
        <5>1. Spent = kills + again  BY <3>1, <3>5, <3>8
        <5>2. QED  BY <3>3, <5>1
      <4>4. QED
        <5> HIDE DEF used, again
        <5>1. QED  BY <3>1, <3>2, <3>6, <4>2, <4>3
    <3>9. QED  BY <3>7, <3>8
  <2>8. row'.retries = 0 /\ Startable' => row'.recovered = 0  BY <2>1, <2>6 DEF KillOK
  <2>9. sub' # "row"  BY <2>1 DEF KillOK
  <2>10. KillsWithin'  BY <2>1, <2>7, BudgetBounds DEF KillOK
  <2>11. QED  BY <2>1, <2>5, <2>7, <2>8, <2>9, <2>10 DEF KillOK
<1>2. CASE Abandon(p) \/ Overdue(p) \/ Stamp(p) \/ Clear(p) \/ RemoteStopFails(p)
  <2>1. exec' = exec /\ sub' = sub /\ kills' = kills
    BY <1>2 DEF Abandon, Overdue, Stop, Stamp, Clear, RemoteStopFails
  <2>2. rec' = rec \/ Worker(p, "stopping") \/ Worker(p, "idle")
    BY <1>2 DEF Abandon, Overdue, Stop, Stamp, Clear, RemoteStopFails
  <2>3. \A q \in Replicas : rec'[q] = "claimed" => rec[q] = "claimed"
    BY <1>0, <2>2, WorkerMoves
  <2>4. /\ row'.phase = row.phase /\ row'.retry = row.retry
        /\ row'.retries = row.retries /\ row'.recovered = row.recovered
    <3>1. row' = row \/ row' = [row EXCEPT !.cancel = TRUE]
      BY <1>2 DEF Abandon, Overdue, Stop, Stamp, Clear, RemoteStopFails
    <3>2. QED  BY <1>0, <3>1 DEF RunTypeOK
  <2>5. /\ obj'.phase = obj.phase /\ obj'.retry = obj.retry /\ obj'.owner = obj.owner
        /\ obj'.attempt = obj.attempt
    BY <1>0, <1>2 DEF Abandon, Overdue, Stop, Stamp, Clear, RemoteStopFails, RunTypeOK
  <2>6. Calm  BY <2>1, <2>3, <2>4, <2>5 DEF Calm, InHand, Armed, Startable
  <2>7. QED  BY <1>0, <2>6, CalmKeeps
<1>3. CASE Recover(p)
  <2>1. obj' = obj /\ sub' = sub /\ rec' = rec /\ kills' = kills  BY <1>3 DEF Recover
  <2>2. ASSUME NEW f \in Final, Save(p, Closed(row, f)), exec' = exec PROVE KillOK'
    <3>1. \A q \in Replicas, u \in Turns : exec'[q][u] \in {exec[q][u], "none"}  BY <2>2
    <3>2. Calm  BY <1>0, <2>1, <2>2, <3>1, ClosingCalm
    <3>3. QED  BY <1>0, <3>2, CalmKeeps
  <2>3. CASE /\ row.phase = "Running" /\ row' = [row EXCEPT !.recovered = @ + 1]
             /\ exec' = exec \/ Now(p, FreeTurn(p), "claimed")
    <3>1. /\ row'.phase = "Running" /\ row'.recovered = row.recovered + 1
          /\ row'.retries = row.retries
      BY <1>0, <2>3 DEF RunTypeOK
    <3>2. \A q \in Replicas, u \in Turns : exec'[q][u] = exec[q][u] \/ exec'[q][u] = "claimed"
      BY <1>0, <2>3, OneTurnChanges
    <3>3. ~Startable /\ ~Startable'
      <4>1. \A q \in Replicas, u \in Turns : exec[q][u] # "prep"
        BY <2>3 DEF StartOK, RowFits, Final
      <4>2. QED  BY <2>3, <3>1, <3>2, <4>1 DEF Startable
    <3>4. Armed' => Armed  BY <2>1, <3>1 DEF Armed
    <3>5. Spent' <= Allowed'
      <4> DEFINE used == row.retries * (MaxClaims + MaxRecovery)
      <4>1. /\ row.retries \in 0..(MaxAttempts - 1)
            /\ obj.attempt \in 0..MaxClaims /\ row.recovered \in 0..MaxRecovery
            /\ obj.attempt \in Nat /\ row.recovered \in Nat
            /\ kills \in Nat /\ MaxClaims \in Nat
        BY <1>0, AgentAssumption DEF RunTypeOK
      <4>2. used \in Nat  BY <4>1, AllowedBound
      <4>3. Spent <= used + obj.attempt + row.recovered  BY <2>3 DEF KillOK, Allowed
      <4>4. Allowed' = used + obj.attempt + (row.recovered + 1)  BY <2>1, <3>1 DEF Allowed
      <4>5. Spent \in Nat /\ Spent' \in Nat /\ Spent' <= Spent + 1
        BY <2>1, <3>3, <3>4, <4>1 DEF Spent, Fresh
      <4>6. QED
        <5> HIDE DEF used
        <5>1. QED  BY <4>1, <4>2, <4>3, <4>4, <4>5
    <3>6. KillsWithin'  BY <3>1, <3>5, BudgetBounds DEF KillOK
    <3>7. row'.phase # "none" => (Armed' => row'.retries # 0)  BY <2>3, <3>1, <3>4 DEF KillOK
    <3>8. QED  BY <1>0, <2>1, <2>3, <3>3, <3>5, <3>6, <3>7 DEF KillOK
  <2>4. QED  BY <1>3, <2>2, <2>3 DEF Recover, Save, Final
<1>4. CASE Dispatch(p)
  <2>1. obj' = obj /\ sub' = sub /\ kills' = kills /\ rec[p] = "claimed"  BY <1>4 DEF Dispatch
  <2>2. PICK w \in {"idle", "refused"} : Worker(p, w)  BY <1>4 DEF Dispatch
  <2>3. \A q \in Replicas : rec'[q] = "claimed" => rec[q] = "claimed"
    BY <1>0, <2>2, WorkerMoves
  <2>4. CASE row' = row /\ (exec' = exec \/ Now(p, FreeTurn(p), "queued"))
    <3>1. \A q \in Replicas, u \in Turns : exec'[q][u] = exec[q][u] \/ exec'[q][u] = "queued"
      BY <1>0, <2>4, OneTurnChanges
    <3>2. Startable' => Startable  BY <2>4, <3>1 DEF Startable
    <3>3. InHand  BY <2>1 DEF InHand
    <3>4. Calm  BY <2>1, <2>4, <3>2, <3>3 DEF Calm, Armed
    <3>5. QED  BY <1>0, <3>4, CalmKeeps
  <2>5. CASE Save(p, Closed(row, "Aborted")) /\ exec' = exec
    <3>1. \A q \in Replicas, u \in Turns : exec'[q][u] \in {exec[q][u], "none"}  BY <2>5
    <3>2. "Aborted" \in Final  BY DEF Final
    <3>3. Calm  BY <1>0, <2>1, <2>3, <2>5, <3>1, <3>2, ClosingCalm
    <3>4. QED  BY <1>0, <3>3, CalmKeeps
  <2>6. QED  BY <1>4, <2>4, <2>5 DEF Dispatch
<1>5. CASE HandBack(p)
  <2>1. /\ exec' = exec /\ row' = row /\ sub' = sub /\ kills' = kills
        /\ obj'.phase = obj.phase /\ obj'.attempt = obj.attempt
        /\ obj' = obj \/ obj'.owner = NoOne
    BY <1>0, <1>5 DEF HandBack, RunTypeOK
  <2>2. \A q \in Replicas : rec'[q] = IF q = p THEN "idle" ELSE rec[q]
    BY <1>0, <1>5, WorkerMoves DEF HandBack
  <2>3. Calm  BY <2>1, <2>2 DEF Calm, InHand, Armed, Startable
  <2>4. QED  BY <1>0, <2>3, CalmKeeps
<1>6. CASE StopEnds(p)
  <2>1. /\ CloseOrInterrupt(p) /\ obj' = obj /\ sub' = sub /\ exec' = exec /\ kills' = kills
    BY <1>6 DEF StopEnds
  <2>2. \A q \in Replicas : rec'[q] = "claimed" => rec[q] = "claimed"
    BY <1>0, <1>6, WorkerMoves DEF StopEnds
  <2>3. Calm  BY <1>0, <2>1, <2>2, InterruptCalm
  <2>4. QED  BY <1>0, <2>3, CalmKeeps
<1>7. QED  BY <1>1, <1>2, <1>3, <1>4, <1>5, <1>6 DEF Begin, Finish

\* Users, other runs, projections, elections and deaths.
LEMMA KillsReplica ==
    ASSUME RunTypeOK, RunTypeOK', StartOK, KillOK, ~LateWakes, NEW p \in Replicas,
           \/ Project(p) \/ Approve(p) \/ Cancel(p) \/ CancelEnds(p) \/ Wake(p)
           \/ Elect(p) \/ Loses(p) \/ Quits(p) \/ Dies(p)
    PROVE  KillOK'
<1>0. RunTypeOK /\ (row.phase # "none" => sub # "row")
  BY DEF StartOK, RowFits, NoRow
<1>1. CASE Project(p)
  <2>1. exec' = exec /\ rec' = rec /\ row' = row /\ sub' = sub /\ kills' = kills /\ proj[p]
    BY <1>1 DEF Project
  <2>2. /\ obj'.attempt = obj.attempt
        /\ row.phase = "none" => obj' = obj
        /\ obj' = obj \/ obj'.retry = IF row.phase = "Pending" THEN row.retry ELSE "no"
    BY <1>0, <1>1 DEF Project, Projected, RunTypeOK
  <2>3. row.phase = "Pending" => row.retry # "due"  BY <2>1 DEF StartOK, Waits
  <2>4. Armed' => Armed
    <3>1. row.retry \in {"no", "later", "due"}  BY <1>0 DEF RunTypeOK, Marks
    <3>2. QED  BY <2>1, <2>2, <2>3, <3>1 DEF Armed
  <2>5. Calm  BY <1>0, <2>1, <2>2, <2>4 DEF Calm, InHand, Startable
  <2>6. QED  BY <1>0, <2>5, CalmKeeps
<1>2. CASE Approve(p)
  <2>1. /\ row.phase = "Approval" /\ obj' = obj /\ sub' = sub /\ kills' = kills
        /\ Now(p, FreeTurn(p), "claimed")
        /\ row'.phase = "Running" /\ row'.retries = row.retries /\ row'.recovered = row.recovered
    BY <1>0, <1>2 DEF Approve, Save, RunTypeOK
  <2>2. \A q \in Replicas, u \in Turns : exec'[q][u] = exec[q][u] \/ exec'[q][u] = "claimed"
    BY <1>0, <2>1, OneTurnChanges
  <2>3. InHand /\ (Startable' => Startable)  BY <2>1, <2>2 DEF InHand, Startable
  <2>4. Calm  BY <2>1, <2>3 DEF Calm, Armed
  <2>5. QED  BY <1>0, <2>4, CalmKeeps
<1>3. CASE Cancel(p)
  <2>1. /\ exec' = exec /\ rec' = rec /\ obj' = obj /\ sub' = sub /\ kills' = kills
        /\ row'.phase = row.phase /\ row'.retry = row.retry
        /\ row'.retries = row.retries /\ row'.recovered = row.recovered
    BY <1>0, <1>3 DEF Cancel, RunTypeOK
  <2>2. Calm  BY <2>1 DEF Calm, InHand, Armed, Startable
  <2>3. QED  BY <1>0, <2>2, CalmKeeps
<1>4. CASE CancelEnds(p)
  <2>1. /\ CloseOrInterrupt(p) /\ obj' = obj /\ sub' = sub /\ exec' = exec /\ rec' = rec
        /\ kills' = kills
    BY <1>4 DEF CancelEnds
  <2>2. Calm  BY <1>0, <2>1, InterruptCalm
  <2>3. QED  BY <1>0, <2>2, CalmKeeps
<1>5. CASE Wake(p)
  <2>1. /\ row.phase = "Pending" /\ row.retry = "later"
        /\ row'.phase = "Pending" /\ row'.retries = row.retries /\ row'.recovered = row.recovered
        /\ exec' = exec /\ rec' = rec /\ sub' = sub /\ kills' = kills
        /\ obj'.attempt = obj.attempt
    BY <1>0, <1>5 DEF Wake, Projected, RunTypeOK
  <2>2. Armed  BY <2>1 DEF Armed
  <2>3. Calm  BY <1>0, <2>1, <2>2 DEF Calm, InHand, Startable
  <2>4. QED  BY <1>0, <2>3, CalmKeeps
<1>6. CASE Elect(p) \/ Loses(p) \/ Quits(p)
  <2>1. /\ exec' = exec /\ obj' = obj /\ sub' = sub /\ row' = row /\ kills' = kills
        /\ rec' = rec \/ Worker(p, "idle")
    BY <1>6 DEF Elect, Loses, Quits
  <2>2. Calm  BY <1>0, <2>1, WorkerMoves DEF Calm, InHand, Armed, Startable
  <2>3. QED  BY <1>0, <2>2, CalmKeeps
<1>7. CASE Dies(p)
  <2>1. \A q \in Replicas : rec'[q] = IF q = p THEN "idle" ELSE rec[q]
    BY <1>0, <1>7, WorkerMoves DEF Dies
  <2>2. /\ \A q \in Replicas, u \in Turns : exec'[q][u] = IF q = p THEN "none" ELSE exec[q][u]
        /\ row' = row /\ sub' = sub
        /\ obj'.phase = obj.phase /\ obj'.retry = obj.retry /\ obj'.attempt = obj.attempt
        /\ obj' = obj \/ obj.owner = p
    BY <1>0, <1>7 DEF Dies, RunTypeOK
  <2>3. p # NoOne  BY AgentAssumption
  <2>4. Armed' => Armed  BY <2>2, <2>3 DEF Armed
  <2>5. Startable' => Startable  BY <2>2 DEF Startable
  <2>6. CASE ~Registered(p)
    <3>1. kills' = kills  BY <1>0, <1>7, <2>6 DEF Dies, RunTypeOK
    <3>2. InHand' => InHand  BY <2>1, <2>2 DEF InHand
    <3>3. Calm  BY <2>2, <2>4, <2>5, <3>1, <3>2 DEF Calm
    <3>4. QED  BY <1>0, <3>3, CalmKeeps
  <2>7. CASE Registered(p)
    <3>1. PICK t \in Turns : exec[p][t] \in {"prep", "running", "resumed"}
      BY <2>7 DEF Registered
    <3>2. kills' = kills + 1  BY <1>7, <2>7 DEF Dies
    <3>3. row.phase \notin {"none", "Approval"}  BY <3>1 DEF StartOK, RowFits, Final
    <3>4. InHand  BY <3>1 DEF InHand
    <3>5. ~InHand'
      <4>1. \A q \in Replicas : rec'[q] # "claimed"
        <5>1. SUFFICES ASSUME NEW q \in Replicas, q # p, rec[q] = "claimed" PROVE FALSE
          BY <2>1
        <5>2. CASE exec[p][t] = "resumed"
          BY <5>1, <5>2 DEF StartOK, OneOrigin, GoesOn
        <5>3. CASE exec[p][t] # "resumed"
          BY <3>1, <5>1, <5>3 DEF StartOK, ClaimHeld, FromQueue
        <5>4. QED  BY <5>2, <5>3
      <4>2. \A q \in Replicas, u \in Turns : exec'[q][u] = "none"
        <5>1. SUFFICES ASSUME NEW q \in Replicas, NEW u \in Turns, q # p,
                              FromQueue(q, u) \/ GoesOn(q, u)
                       PROVE  FALSE
          BY <1>0, <2>2 DEF RunTypeOK, FromQueue, GoesOn
        <5>2. CASE exec[p][t] = "resumed"
          BY <5>1, <5>2 DEF StartOK, OneOrigin, ResumedOnce, GoesOn
        <5>3. CASE exec[p][t] # "resumed"
          <6>1. FromQueue(p, t)  BY <3>1, <5>3 DEF FromQueue
          <6>2. ~GoesOn(q, u)  BY <6>1 DEF StartOK, OneOrigin
          <6>3. QED  BY <5>1, <6>1, <6>2 DEF StartOK, ClaimHeld
        <5>4. QED  BY <5>2, <5>3
      <4>3. QED  BY <2>2, <3>3, <4>1, <4>2 DEF InHand
    <3>6. Fresh' => Fresh  BY <2>2, <2>5 DEF Fresh
    <3>7. Spent' <= Allowed'
      <4>1. Allowed' = Allowed  BY <2>2 DEF Allowed
      <4>2. kills \in Nat /\ MaxClaims \in Nat /\ MaxRecovery \in Nat
        BY <1>0, AgentAssumption DEF RunTypeOK
      <4>3. Allowed \in Nat
        <5>1. /\ row.retries \in 0..(MaxAttempts - 1) /\ obj.attempt \in 0..MaxClaims
              /\ row.recovered \in 0..MaxRecovery
          BY <1>0 DEF RunTypeOK
        <5>2. row.retries * (MaxClaims + MaxRecovery) \in Nat  BY <5>1, AllowedBound
        <5>3. obj.attempt \in Nat /\ row.recovered \in Nat  BY <5>1
        <5>4. QED  BY <5>2, <5>3 DEF Allowed
      <4>4. Spent' <= Spent /\ Spent \in Nat /\ Spent' \in Nat
        BY <2>4, <3>2, <3>4, <3>5, <3>6, <4>2 DEF Spent
      <4>5. QED  BY <3>3, <4>1, <4>3, <4>4 DEF KillOK
    <3>8. KillsWithin'  BY <2>2, <3>3, <3>7, BudgetBounds DEF KillOK
    <3>9. QED  BY <1>0, <2>2, <2>4, <2>5, <3>3, <3>7, <3>8 DEF KillOK
  <2>8. QED  BY <2>6, <2>7
<1>8. QED  BY <1>1, <1>2, <1>3, <1>4, <1>5, <1>6, <1>7

\* While no turn was overtaken, a death is paid for by a claim or a recovery.
LEMMA KillStep ==
    ASSUME ~LateWakes, RunTypeOK, RunTypeOK', StartInv, StartInv', KillInv, [Next]_vars
    PROVE  KillInv'
<1> SUFFICES ASSUME ~overtaken' PROVE KillOK'  BY DEF KillInv
<1>1. RunTypeOK /\ RunTypeOK' /\ StartOK'  BY DEF StartInv
<1>2. CASE Next
  <2>1. StartOK /\ KillOK  BY <1>2, OvertakenStays DEF StartInv, KillInv
  <2>2. QED
    BY <1>1, <1>2, <2>1, KillsSubmission, KillsTurn, KillsReconciler, KillsReplica DEF Next
<1>3. CASE UNCHANGED vars
  <2>1. KillOK  BY <1>3 DEF KillInv, vars
  <2>2. Calm  BY <1>3 DEF Calm, InHand, Armed, Startable, vars
  <2>3. QED  BY <1>1, <2>1, <2>2, CalmKeeps
<1>4. QED  BY <1>2, <1>3

(* ---- what any run may kill ---------------------------------------------- *)

\* Of a run that was recovered alive, or whose claim grew old under its turn,
\* several turns go on at once.  Each of them was taken from the queue by a
\* claim, and what it may still cost is a share of that claim's: one process,
\* and the recoveries that its start allows again.
Series == 1 + MaxRecovery

\* The claims that are being dispatched, the turns that wait to begin and those
\* that did.
Hands == {p \in Replicas : rec[p] = "claimed"}
Waiting == {x \in Replicas \X Turns : exec[x[1]][x[2]] \in {"queued", "prep"}}
Going == {x \in Replicas \X Turns : exec[x[1]][x[2]] \in {"running", "claimed", "resumed"}}

\* Whether a turn of the run has begun, and whether the object, or the row
\* that will be projected onto it, opens another series of pickups.
Begun == row.started # "no" \/ row.retries # 0
ObjArmed == obj.retry # "no" /\ obj.owner # NoOne
RowArmed == row.phase = "Pending" /\ row.retry = "later" /\ ~(obj.retry = "later" /\ obj.owner # NoOne)

Picked == Series * (Cardinality(Hands) + Cardinality(Waiting))
Parked == IF row.phase = "Approval" THEN 1 ELSE 0
Spare == IF Begun THEN MaxRecovery - row.recovered ELSE 0
Opened == (IF ObjArmed THEN MaxClaims * Series ELSE 0) + (IF RowArmed THEN MaxClaims * Series ELSE 0)

\* What has died and what may still die, against what was claimed.
Weight == kills + Picked + Cardinality(Going) + Parked + Spare + Opened
Account == (row.retries * MaxClaims + obj.attempt) * Series

AccountOK ==
    /\ row.phase # "none" => Weight <= Account
    /\ row.phase = "none" =>
          /\ kills <= MaxAttempts * MaxClaims * (1 + MaxRecovery)
          /\ \A p \in Replicas, t \in Turns : exec[p][t] \in {"none", "queued"}
    /\ Going # {} \/ row.phase \in {"Running", "Approval"} => Begun
    /\ row.phase = "Pending" /\ row.retry = "due" => \A p \in Replicas : ~proj[p]
    /\ sub = "row" =>
          /\ row = NoRow /\ kills = 0 /\ Hands = {} /\ Waiting = {}
          /\ obj.phase = "none" /\ obj.attempt = 0 /\ obj.retry = "no"

\* What is counted is finite.
Counted ==
    /\ IsFiniteSet(Hands) /\ Cardinality(Hands) \in Nat
    /\ IsFiniteSet(Waiting) /\ Cardinality(Waiting) \in Nat
    /\ IsFiniteSet(Going) /\ Cardinality(Going) \in Nat

LEMMA CountedSets == Counted
<1>1. IsFiniteSet(Replicas) /\ IsFiniteSet(Replicas \X Turns)
  BY AgentAssumption, FS_Product
<1>2. Hands \in SUBSET Replicas  BY DEF Hands
<1>3. Waiting \in SUBSET (Replicas \X Turns) /\ Going \in SUBSET (Replicas \X Turns)
  BY DEF Waiting, Going
<1>4. IsFiniteSet(Hands) /\ IsFiniteSet(Waiting) /\ IsFiniteSet(Going)
  <2> HIDE DEF Hands, Waiting, Going
  <2>1. QED  BY <1>1, <1>2, <1>3, FS_Subset
<1>5. QED  BY <1>4, FS_CardinalityType DEF Counted

LEMMA CountedNext == Counted'
<1>1. Counted  BY CountedSets
<1>2. QED  BY <1>1, PTL

\* A smaller set, one that lacks an element and one that has another.
LEMMA Smaller ==
    ASSUME NEW S, IsFiniteSet(S), NEW T, T \subseteq S
    PROVE  Cardinality(T) <= Cardinality(S)
BY FS_Subset

LEMMA OneLess ==
    ASSUME NEW S, IsFiniteSet(S), NEW x \in S, NEW T, T \subseteq S \ {x}
    PROVE  Cardinality(T) + 1 <= Cardinality(S)
<1>1. IsFiniteSet(S \ {x}) /\ Cardinality(S \ {x}) = Cardinality(S) - 1  BY FS_RemoveElement
<1>2. IsFiniteSet(T) /\ Cardinality(T) <= Cardinality(S \ {x})  BY <1>1, FS_Subset
<1>3. Cardinality(T) \in Nat /\ Cardinality(S) \in Nat  BY <1>2, FS_CardinalityType
<1>4. QED  BY <1>1, <1>2, <1>3

LEMMA OneMore ==
    ASSUME NEW S, IsFiniteSet(S), NEW x, NEW T, T \subseteq S \cup {x}
    PROVE  Cardinality(T) <= Cardinality(S) + 1
<1>1. /\ IsFiniteSet(S \cup {x})
      /\ Cardinality(S \cup {x}) = IF x \in S THEN Cardinality(S) ELSE Cardinality(S) + 1
  BY FS_AddElement
<1>2. IsFiniteSet(T) /\ Cardinality(T) <= Cardinality(S \cup {x})  BY <1>1, FS_Subset
<1>3. Cardinality(T) \in Nat /\ Cardinality(S) \in Nat  BY <1>2, FS_CardinalityType
<1>4. QED  BY <1>1, <1>2, <1>3

\* The terms of the account are numbers.
Numbers ==
    /\ Series \in Nat /\ Series >= 1 /\ MaxClaims * Series \in Nat
    /\ kills \in Nat /\ Picked \in Nat /\ Cardinality(Going) \in Nat
    /\ Parked \in Nat /\ Spare \in Nat /\ Opened \in Nat
    /\ row.retries \in Nat /\ obj.attempt \in Nat /\ row.retries * MaxClaims \in Nat
    /\ Account \in Nat

LEMMA AccountTerms == ASSUME RunTypeOK PROVE Numbers
<1>0. \A a, b \in Nat : a * b \in Nat  OBVIOUS
<1>1. Series \in Nat /\ Series >= 1 /\ MaxClaims \in Nat /\ MaxRecovery \in Nat
  BY AgentAssumption DEF Series
<1>2. MaxClaims * Series \in Nat  BY <1>0, <1>1
<1>3. kills \in Nat /\ Cardinality(Going) \in Nat  BY CountedSets DEF RunTypeOK, Counted
<1>4. Picked \in Nat
  <2>1. Cardinality(Hands) + Cardinality(Waiting) \in Nat  BY CountedSets DEF Counted
  <2>2. QED  BY <1>0, <1>1, <2>1 DEF Picked
<1>5. Parked \in Nat  BY DEF Parked
<1>6. Spare \in Nat
  <2>1. row.recovered \in 0..MaxRecovery  BY DEF RunTypeOK
  <2>2. QED  BY <1>1, <2>1 DEF Spare
<1>7. Opened \in Nat
  <2>1. (IF ObjArmed THEN MaxClaims * Series ELSE 0) \in Nat
        /\ (IF RowArmed THEN MaxClaims * Series ELSE 0) \in Nat
    BY <1>2
  <2>2. QED  BY <2>1 DEF Opened
<1>8. row.retries \in Nat /\ obj.attempt \in Nat
  <2>1. row.retries \in 0..(MaxAttempts - 1) /\ obj.attempt \in 0..MaxClaims  BY DEF RunTypeOK
  <2>2. QED  BY <2>1
<1>9. row.retries * MaxClaims \in Nat  BY <1>0, <1>1, <1>8
<1>10. Account \in Nat
  <2>1. row.retries * MaxClaims + obj.attempt \in Nat  BY <1>8, <1>9
  <2>2. QED  BY <1>0, <1>1, <2>1 DEF Account
<1>11. QED  BY <1>1, <1>2, <1>3, <1>4, <1>5, <1>6, <1>7, <1>8, <1>9, <1>10 DEF Numbers

LEMMA AccountTermsNext == RunTypeOK' => Numbers'
<1>1. RunTypeOK => Numbers  BY AccountTerms
<1>2. QED  BY <1>1, PTL

\* A series more, a pickup more, and less of what is picked up.
LEMMA SeriesProduct ==
    ASSUME NEW a \in Nat, NEW b \in Nat, NEW s \in Nat
    PROVE  /\ (a + 1) * s = a * s + s /\ s * (a + 1) = s * a + s
           /\ (a + b) * s = a * s + b * s
           /\ a <= b => a * s <= b * s /\ s * a <= s * b
<1>1. (a + 1) * s = a * s + s /\ s * (a + 1) = s * a + s /\ (a + b) * s = a * s + b * s  OBVIOUS
<1>2. ASSUME a <= b PROVE a * s <= b * s /\ s * a <= s * b
  <2>1. PICK d \in Nat : b = a + d
    <3>1. b - a \in Nat /\ b = a + (b - a)  BY <1>2
    <3>2. QED  BY <3>1
  <2>2. d * s \in Nat /\ a * s \in Nat  OBVIOUS
  <2>3. b * s = a * s + d * s /\ s * b = b * s /\ s * a = a * s  BY <2>1
  <2>4. QED  BY <2>2, <2>3
<1>3. QED  BY <1>1, <1>2

\* What is accounted for is bounded, and so is what has died.
LEMMA AccountBound ==
    ASSUME RunTypeOK, row.phase # "none", Weight <= Account
    PROVE  kills <= MaxAttempts * MaxClaims * (1 + MaxRecovery)
<1> DEFINE a == row.retries
           m == row.retries * MaxClaims
           n == MaxAttempts * MaxClaims
<1>1. kills <= Weight /\ Weight \in Nat  BY AccountTerms DEF Weight, Numbers
<1>2. a \in Nat /\ a + 1 <= MaxAttempts /\ MaxAttempts \in Nat /\ MaxClaims \in Nat
      /\ obj.attempt \in Nat /\ obj.attempt <= MaxClaims
  <2>1. row.retries \in 0..(MaxAttempts - 1) /\ obj.attempt \in 0..MaxClaims  BY DEF RunTypeOK
  <2>2. QED  BY <2>1, AgentAssumption
<1>3. m \in Nat /\ n \in Nat /\ m + MaxClaims <= n
  <2> HIDE DEF a
  <2>1. m = a * MaxClaims  BY DEF a
  <2>2. (a + 1) * MaxClaims = a * MaxClaims + MaxClaims  BY <1>2, SeriesProduct
  <2>3. (a + 1) * MaxClaims <= MaxAttempts * MaxClaims  BY <1>2, SeriesProduct
  <2>4. \A x, y \in Nat : x * y \in Nat  OBVIOUS
  <2>5. a * MaxClaims \in Nat /\ MaxAttempts * MaxClaims \in Nat  BY <1>2, <2>4
  <2>6. QED  BY <2>1, <2>2, <2>3, <2>5
<1>4. (m + obj.attempt) * Series <= n * Series
  <2>1. m + obj.attempt \in Nat /\ m + obj.attempt <= n  BY <1>2, <1>3
  <2>2. Series \in Nat  BY AccountTerms DEF Numbers
  <2> HIDE DEF m, n
  <2>3. QED  BY <1>3, <2>1, <2>2, SeriesProduct
<1>5. Account = (m + obj.attempt) * Series  BY DEF Account
<1>6. n * Series = MaxAttempts * MaxClaims * (1 + MaxRecovery) /\ n * Series \in Nat
  <2>1. Series \in Nat  BY AccountTerms DEF Numbers
  <2>2. \A x, y \in Nat : x * y \in Nat  OBVIOUS
  <2>3. n * Series \in Nat
    <3> HIDE DEF n
    <3>1. QED  BY <1>3, <2>1, <2>2
  <2>4. QED  BY <2>3 DEF Series
<1>7. Account \in Nat /\ kills \in Nat  BY AccountTerms DEF Numbers
<1>8. QED
  <2> HIDE DEF m, n
  <2>1. QED  BY <1>1, <1>4, <1>5, <1>6, <1>7

(* ---- the account is kept ------------------------------------------------ *)

\* How a step of a turn changes what is counted.
LEMMA TurnSets ==
    ASSUME RunTypeOK, NEW p \in Replicas, NEW t, NEW s, Now(p, t, s)
    PROVE  /\ Waiting' \subseteq Waiting \cup {<<p, t>>} /\ Going' \subseteq Going \cup {<<p, t>>}
           /\ s \notin {"queued", "prep"} => Waiting' \subseteq Waiting \ {<<p, t>>}
           /\ s \notin {"running", "claimed", "resumed"} => Going' \subseteq Going \ {<<p, t>>}
<1>1. \A x \in Replicas \X Turns :
         /\ x # <<p, t>> => exec'[x[1]][x[2]] = exec[x[1]][x[2]]
         /\ x = <<p, t>> => exec'[x[1]][x[2]] = s
  <2>1. SUFFICES ASSUME NEW q \in Replicas, NEW u \in Turns
                 PROVE  /\ <<q, u>> # <<p, t>> => exec'[q][u] = exec[q][u]
                        /\ <<q, u>> = <<p, t>> => exec'[q][u] = s
    OBVIOUS
  <2>2. QED  BY DEF Now, RunTypeOK
<1>2. QED  BY <1>1 DEF Waiting, Going

LEMMA TurnCounts ==
    ASSUME RunTypeOK, NEW p \in Replicas, NEW t, NEW s, Now(p, t, s)
    PROVE  /\ Cardinality(Waiting') <= Cardinality(Waiting) + 1
           /\ Cardinality(Going') <= Cardinality(Going) + 1
           /\ s \notin {"queued", "prep"} => Cardinality(Waiting') <= Cardinality(Waiting)
           /\ s \notin {"running", "claimed", "resumed"} => Cardinality(Going') <= Cardinality(Going)
           /\ t \in Turns /\ exec[p][t] \in {"queued", "prep"} =>
                 /\ Cardinality(Waiting') <= Cardinality(Waiting)
                 /\ s \notin {"queued", "prep"} =>
                       Cardinality(Waiting') + 1 <= Cardinality(Waiting)
           /\ t \in Turns /\ exec[p][t] \in {"running", "claimed", "resumed"} =>
                 /\ Cardinality(Going') <= Cardinality(Going)
                 /\ s \notin {"running", "claimed", "resumed"} =>
                       Cardinality(Going') + 1 <= Cardinality(Going)
<1> DEFINE x == <<p, t>>
<1>1. /\ Waiting' \subseteq Waiting \cup {x} /\ Going' \subseteq Going \cup {x}
      /\ s \notin {"queued", "prep"} => Waiting' \subseteq Waiting \ {x}
      /\ s \notin {"running", "claimed", "resumed"} => Going' \subseteq Going \ {x}
  BY TurnSets
<1>2. /\ t \in Turns /\ exec[p][t] \in {"queued", "prep"} => x \in Waiting
      /\ t \in Turns /\ exec[p][t] \in {"running", "claimed", "resumed"} => x \in Going
  BY DEF Waiting, Going
<1>3. IsFiniteSet(Waiting) /\ IsFiniteSet(Going)  BY CountedSets DEF Counted
<1> HIDE DEF x
<1>4. Cardinality(Waiting') <= Cardinality(Waiting) + 1
      /\ Cardinality(Going') <= Cardinality(Going) + 1
  BY <1>1, <1>3, OneMore
<1>5. ASSUME s \notin {"queued", "prep"} PROVE Cardinality(Waiting') <= Cardinality(Waiting)
  <2>1. Waiting' \subseteq Waiting  BY <1>1, <1>5
  <2>2. QED  BY <1>3, <2>1, Smaller
<1>6. ASSUME s \notin {"running", "claimed", "resumed"} PROVE Cardinality(Going') <= Cardinality(Going)
  <2>1. Going' \subseteq Going  BY <1>1, <1>6
  <2>2. QED  BY <1>3, <2>1, Smaller
<1>7. ASSUME x \in Waiting
      PROVE  /\ Cardinality(Waiting') <= Cardinality(Waiting)
             /\ s \notin {"queued", "prep"} => Cardinality(Waiting') + 1 <= Cardinality(Waiting)
  <2>1. Waiting' \subseteq Waiting  BY <1>1, <1>7
  <2>2. Cardinality(Waiting') <= Cardinality(Waiting)  BY <1>3, <2>1, Smaller
  <2>3. Waiting' \subseteq Waiting \ {x} => Cardinality(Waiting') + 1 <= Cardinality(Waiting)
    BY <1>3, <1>7, OneLess
  <2>4. QED  BY <1>1, <2>2, <2>3
<1>8. ASSUME x \in Going
      PROVE  /\ Cardinality(Going') <= Cardinality(Going)
             /\ s \notin {"running", "claimed", "resumed"} =>
                   Cardinality(Going') + 1 <= Cardinality(Going)
  <2>1. Going' \subseteq Going  BY <1>1, <1>8
  <2>2. Cardinality(Going') <= Cardinality(Going)  BY <1>3, <2>1, Smaller
  <2>3. Going' \subseteq Going \ {x} => Cardinality(Going') + 1 <= Cardinality(Going)
    BY <1>3, <1>8, OneLess
  <2>4. QED  BY <1>1, <2>2, <2>3
<1>9. QED  BY <1>2, <1>4, <1>5, <1>6, <1>7, <1>8

\* How a step of a worker changes the claims in hand.
LEMMA HandCounts ==
    ASSUME RunTypeOK, NEW p \in Replicas, NEW s, Worker(p, s)
    PROVE  /\ Cardinality(Hands') <= Cardinality(Hands) + 1
           /\ s # "claimed" => Cardinality(Hands') <= Cardinality(Hands)
           /\ s # "claimed" /\ rec[p] = "claimed" => Cardinality(Hands') + 1 <= Cardinality(Hands)
<1>1. \A q \in Replicas : rec'[q] = IF q = p THEN s ELSE rec[q]  BY WorkerMoves
<1>2. /\ Hands' \subseteq Hands \cup {p}
      /\ s # "claimed" => Hands' \subseteq Hands \ {p}
      /\ rec[p] = "claimed" => p \in Hands
  BY <1>1 DEF Hands
<1>3. IsFiniteSet(Hands)  BY CountedSets DEF Counted
<1>4. Cardinality(Hands') <= Cardinality(Hands) + 1  BY <1>2, <1>3, OneMore
<1>5. ASSUME s # "claimed" PROVE Cardinality(Hands') <= Cardinality(Hands)
  <2>1. Hands' \subseteq Hands  BY <1>2, <1>5
  <2>2. QED  BY <1>3, <2>1, Smaller
<1>6. ASSUME s # "claimed", rec[p] = "claimed" PROVE Cardinality(Hands') + 1 <= Cardinality(Hands)
  <2>1. p \in Hands /\ Hands' \subseteq Hands \ {p}  BY <1>2, <1>6
  <2>2. QED  BY <1>3, <2>1, OneLess
<1>7. QED  BY <1>4, <1>5, <1>6

\* What is picked up, when there is more or less to begin.
LEMMA PickedMoves ==
    LET before == Cardinality(Hands) + Cardinality(Waiting)
        after == Cardinality(Hands') + Cardinality(Waiting')
    IN  /\ after <= before => Picked' <= Picked
        /\ after <= before + 1 => Picked' <= Picked + Series
        /\ after + 1 <= before => Picked' + Series <= Picked
<1> DEFINE before == Cardinality(Hands) + Cardinality(Waiting)
           after == Cardinality(Hands') + Cardinality(Waiting')
<1>1. before \in Nat /\ after \in Nat /\ Series \in Nat /\ Series' = Series
  BY CountedSets, CountedNext, AgentAssumption DEF Counted, Series
<1>2. Picked = Series * before /\ Picked' = Series * after  BY <1>1 DEF Picked
<1> HIDE DEF before, after
<1>3. after <= before => Picked' <= Picked  BY <1>1, <1>2, SeriesProduct
<1>4. after <= before + 1 => Picked' <= Picked + Series
  <2>1. before + 1 \in Nat /\ Series * (before + 1) = Series * before + Series
    BY <1>1, SeriesProduct
  <2>2. after <= before + 1 => Series * after <= Series * (before + 1)
    BY <1>1, <2>1, SeriesProduct
  <2>3. QED  BY <1>2, <2>1, <2>2
<1>5. after + 1 <= before => Picked' + Series <= Picked
  <2>1. after + 1 \in Nat /\ Series * (after + 1) = Series * after + Series
    BY <1>1, SeriesProduct
  <2>2. after + 1 <= before => Series * (after + 1) <= Series * before
    BY <1>1, <2>1, SeriesProduct
  <2>3. QED  BY <1>2, <2>1, <2>2
<1>6. QED  BY <1>3, <1>4, <1>5 DEF before, after

\* The series that are open do not grow.
LEMMA OpenedKeeps ==
    ASSUME RunTypeOK,
           \/ (ObjArmed' => ObjArmed) /\ (RowArmed' => RowArmed)
           \/ (ObjArmed \/ RowArmed) /\ ~(ObjArmed' /\ RowArmed')
    PROVE  Opened' <= Opened
<1>1. MaxClaims * Series \in Nat /\ Series' = Series  BY AccountTerms DEF Numbers, Series
<1>2. QED  BY <1>1 DEF Opened

\* A step at which nobody dies and nothing more is claimed, begun or opened.
Spares ==
    /\ kills' = kills /\ obj'.attempt = obj.attempt
    /\ row'.retries = row.retries /\ row'.recovered = row.recovered /\ (Begun' <=> Begun)
    /\ row'.phase = "none" <=> row.phase = "none"
    /\ row'.phase \in {"Running", "Approval"} => row.phase = row'.phase
    /\ \A q \in Replicas : rec'[q] = "claimed" => rec[q] = "claimed"
    /\ Waiting' \subseteq Waiting /\ Going' \subseteq Going
    /\ row'.phase = "none" =>
          \A q \in Replicas, u \in Turns : exec'[q][u] \in {exec[q][u], "none"}
    /\ \/ (ObjArmed' => ObjArmed) /\ (RowArmed' => RowArmed)
       \/ (ObjArmed \/ RowArmed) /\ ~(ObjArmed' /\ RowArmed')
    /\ row'.phase = "Pending" /\ row'.retry = "due" => \A q \in Replicas : ~proj'[q]
    /\ sub' = "row" => sub = "row" /\ row' = row /\ obj'.phase = obj.phase
                       /\ (obj.retry = "no" => obj'.retry = "no")

LEMMA SparesKeeps ==
    ASSUME RunTypeOK, RunTypeOK', AccountOK, Spares
    PROVE  AccountOK'
<1>0. Numbers /\ Numbers'  BY AccountTerms, AccountTermsNext
<1>1. Hands' \subseteq Hands  BY DEF Spares, Hands
<1>2. /\ Cardinality(Hands') <= Cardinality(Hands)
      /\ Cardinality(Waiting') <= Cardinality(Waiting)
      /\ Cardinality(Going') <= Cardinality(Going)
  BY <1>1, CountedSets, Smaller DEF Spares, Counted
<1>3. Picked' <= Picked
  <2>1. Cardinality(Hands') + Cardinality(Waiting') <= Cardinality(Hands) + Cardinality(Waiting)
    BY <1>2, CountedSets, CountedNext DEF Counted
  <2>2. QED  BY <2>1, PickedMoves
<1>4. Opened' <= Opened  BY OpenedKeeps DEF Spares
<1>5. Parked' <= Parked /\ Spare' = Spare /\ Account' = Account
  <2>1. Parked' <= Parked  BY DEF Parked, Spares
  <2>2. Spare' = Spare  BY DEF Spare, Spares
  <2>3. Account' = Account  BY DEF Account, Spares, Series
  <2>4. QED  BY <2>1, <2>2, <2>3
<1>6. row'.phase # "none" => Weight' <= Account'
  <2>1. SUFFICES ASSUME row'.phase # "none" PROVE Weight' <= Account'  OBVIOUS
  <2>2. Weight <= Account  BY <2>1 DEF AccountOK, Spares
  <2>3. kills' = kills  BY DEF Spares
  <2>4. QED  BY <1>0, <1>2, <1>3, <1>4, <1>5, <2>2, <2>3 DEF Numbers, Weight
<1>7. row'.phase = "none" =>
         /\ kills' <= MaxAttempts * MaxClaims * (1 + MaxRecovery)
         /\ \A q \in Replicas, u \in Turns : exec'[q][u] \in {"none", "queued"}
  BY DEF AccountOK, Spares
<1>8. Going' # {} \/ row'.phase \in {"Running", "Approval"} => Begun'
  BY DEF AccountOK, Spares
<1>9. sub' = "row" =>
         /\ row' = NoRow /\ kills' = 0 /\ Hands' = {} /\ Waiting' = {}
         /\ obj'.phase = "none" /\ obj'.attempt = 0 /\ obj'.retry = "no"
  BY <1>1 DEF AccountOK, Spares
<1>10. QED  BY <1>6, <1>7, <1>8, <1>9 DEF AccountOK, Spares

\* A step that leaves the turns alone, or lets some end, has no more of them.
LEMMA FewerTurns ==
    ASSUME \A q \in Replicas, u \in Turns : exec'[q][u] \in {exec[q][u], "none"}
    PROVE  Waiting' \subseteq Waiting /\ Going' \subseteq Going
<1>1. \A x \in Replicas \X Turns : exec'[x[1]][x[2]] \in {exec[x[1]][x[2]], "none"}  OBVIOUS
<1>2. QED  BY <1>1 DEF Waiting, Going

\* A step that closes the row spares.
LEMMA ClosingSpares ==
    ASSUME RunTypeOK, AccountOK, NEW p \in Replicas, NEW f \in Final, Save(p, Closed(row, f)),
           obj' = obj, sub' = sub, kills' = kills,
           \A q \in Replicas : rec'[q] = "claimed" => rec[q] = "claimed",
           \A q \in Replicas, u \in Turns : exec'[q][u] \in {exec[q][u], "none"}
    PROVE  Spares
<1>1. /\ (row'.phase \in Final /\ row.phase # "none") \/ (row' = row /\ row.phase = "none")
      /\ row'.retries = row.retries /\ row'.recovered = row.recovered /\ row'.started = row.started
  <2>1. CASE row.phase = "none"  BY <2>1 DEF Save, Closed
  <2>2. CASE row.phase # "none"  BY <2>2 DEF Save, Closed, RunTypeOK
  <2>3. QED  BY <2>1, <2>2
<1>2. Waiting' \subseteq Waiting /\ Going' \subseteq Going  BY FewerTurns
<1>3. sub' = "row" => row' = row  BY <1>1 DEF AccountOK, NoRow
<1>4. row'.phase \notin {"Running", "Approval", "Pending"}  BY <1>1 DEF Final
<1>5. (row'.phase = "none" <=> row.phase = "none") /\ (Begun' <=> Begun)
  BY <1>1 DEF Final, Begun
<1>6. (ObjArmed' => ObjArmed) /\ ~RowArmed'  BY <1>4 DEF ObjArmed, RowArmed
<1>7. QED  BY <1>1, <1>2, <1>3, <1>4, <1>5, <1>6 DEF Spares

\* A cancel or a stop that ends spares.
LEMMA InterruptSpares ==
    ASSUME RunTypeOK, AccountOK, NEW p \in Replicas, CloseOrInterrupt(p),
           obj' = obj, sub' = sub, kills' = kills, exec' = exec,
           \A q \in Replicas : rec'[q] = "claimed" => rec[q] = "claimed"
    PROVE  Spares
<1>1. \A q \in Replicas, u \in Turns : exec'[q][u] \in {exec[q][u], "none"}  OBVIOUS
<1>2. CASE row' = row /\ proj' = proj
  <2>1. Waiting' \subseteq Waiting /\ Going' \subseteq Going  BY <1>1, FewerTurns
  <2>2. QED  BY <1>2, <2>1 DEF Spares, Begun, ObjArmed, RowArmed, AccountOK
<1>3. CASE Save(p, Closed(row, "Aborted"))
  <2>1. "Aborted" \in Final  BY DEF Final
  <2>2. QED  BY <1>1, <1>3, <2>1, ClosingSpares
<1>4. QED  BY <1>2, <1>3 DEF CloseOrInterrupt

\* Submission and the passing of time.
LEMMA AccountSubmission ==
    ASSUME RunTypeOK, RunTypeOK', AccountOK,
           SubmitRow \/ SubmitObject \/ SubmitStatus \/ SubmitEnds \/ TimePasses
    PROVE  AccountOK'
<1>1. CASE SubmitRow
  <2>1. /\ row = NoRow /\ kills = 0 /\ Hands = {} /\ Waiting = {} /\ obj.retry = "no"
        /\ \A q \in Replicas, u \in Turns : exec[q][u] \in {"none", "queued"}
    BY <1>1 DEF SubmitRow, AccountOK, NoRow
  <2>2. /\ row'.phase = "Pending" /\ row'.retry = "no" /\ row'.retries = 0 /\ row'.started = "no"
        /\ kills' = 0 /\ obj' = obj /\ sub' = "object" /\ exec' = exec /\ rec' = rec
    BY <1>1, <2>1 DEF SubmitRow, NoRow
  <2>3. Going' = {}
    <3>1. \A x \in Replicas \X Turns : exec'[x[1]][x[2]] \in {"none", "queued"}  BY <2>1, <2>2
    <3>2. QED  BY <3>1 DEF Going
  <2>4. Hands' = {} /\ Waiting' = {}
    BY <2>1, <2>2 DEF Hands, Waiting
  <2>5. Picked' = 0 /\ Cardinality(Going') = 0
    <3>1. Cardinality(Hands') = 0 /\ Cardinality(Waiting') = 0 /\ Cardinality(Going') = 0
      BY <2>3, <2>4, FS_EmptySet
    <3>2. Picked' = Series' * (0 + 0)  BY <3>1 DEF Picked
    <3>3. Series' \in Nat  BY AgentAssumption DEF Series
    <3>4. QED  BY <3>1, <3>2, <3>3
  <2>6. Parked' = 0 /\ Spare' = 0 /\ Opened' = 0
    BY <2>1, <2>2 DEF Parked, Spare, Begun, Opened, ObjArmed, RowArmed
  <2>7. Weight' <= Account'
    BY <2>2, <2>5, <2>6, AccountTermsNext DEF Numbers, Weight
  <2>8. QED  BY <2>2, <2>3, <2>7 DEF AccountOK
<1>2. CASE SubmitEnds /\ row' = NoRow
  <2>1. /\ row'.phase = "none" /\ kills' = kills /\ sub' = "done" /\ exec' = exec
        /\ row' # row => \A q \in Replicas, u \in Turns : exec[q][u] \in {"none", "queued"}
    BY <1>2 DEF SubmitEnds, NoRow
  <2>2. kills' <= MaxAttempts * MaxClaims * (1 + MaxRecovery)
    BY <2>1, AccountBound DEF AccountOK
  <2>3. \A q \in Replicas, u \in Turns : exec'[q][u] \in {"none", "queued"}
    BY <1>2, <2>1 DEF AccountOK, NoRow
  <2>4. Going' = {}
    <3>1. \A x \in Replicas \X Turns : exec'[x[1]][x[2]] \in {"none", "queued"}  BY <2>3
    <3>2. QED  BY <3>1 DEF Going
  <2>5. QED  BY <2>1, <2>2, <2>3, <2>4 DEF AccountOK
<1>3. CASE SubmitObject \/ SubmitStatus \/ (SubmitEnds /\ row' = row) \/ GracePasses
           \/ LimitPasses \/ RetryComes
  <2>1. exec' = exec /\ rec' = rec /\ proj' = proj /\ kills' = kills /\ sub' # "row"
    BY <1>3 DEF SubmitObject, SubmitStatus, SubmitEnds, GracePasses, LimitPasses, RetryComes
  <2>2. /\ row'.phase = row.phase /\ row'.retries = row.retries /\ row'.recovered = row.recovered
        /\ row'.started # "no" <=> row.started # "no"
        /\ \/ row'.retry = row.retry
           \/ row'.retry # "later" /\ \A q \in Replicas : ~proj[q]
    BY <1>3 DEF SubmitObject, SubmitStatus, SubmitEnds, GracePasses, LimitPasses, RetryComes,
                RunTypeOK, Late, Old
  <2>3. /\ obj'.attempt = obj.attempt /\ obj'.owner = obj.owner
        /\ \/ obj'.retry = obj.retry
           \/ obj'.retry = "no" /\ row' = row
           \/ obj'.retry = Late(obj.retry) /\ row'.retry # "later"
    <3>1. CASE SubmitStatus  BY <3>1 DEF SubmitStatus, Projected, RunTypeOK
    <3>2. CASE SubmitObject  BY <3>2 DEF SubmitObject, RunTypeOK
    <3>3. CASE SubmitEnds  BY <3>3 DEF SubmitEnds
    <3>4. CASE GracePasses  BY <3>4 DEF GracePasses, RunTypeOK
    <3>5. CASE LimitPasses  BY <3>5 DEF LimitPasses, RunTypeOK
    <3>6. CASE RetryComes  BY <3>6 DEF RetryComes, Late, RunTypeOK
    <3>7. QED  BY <1>3, <3>1, <3>2, <3>3, <3>4, <3>5, <3>6
  <2>4. \/ (ObjArmed' => ObjArmed) /\ (RowArmed' => RowArmed)
        \/ (ObjArmed \/ RowArmed) /\ ~(ObjArmed' /\ RowArmed')
    BY <2>2, <2>3 DEF ObjArmed, RowArmed, Late
  <2>5. Waiting' = Waiting /\ Going' = Going  BY <2>1 DEF Waiting, Going
  <2>6. row'.phase = "Pending" /\ row'.retry = "due" => \A q \in Replicas : ~proj'[q]
    BY <2>1, <2>2 DEF AccountOK
  <2>7. Spares  BY <2>1, <2>2, <2>3, <2>4, <2>5, <2>6 DEF Spares, Begun
  <2>8. QED  BY <2>7, SparesKeeps
<1>4. QED  BY <1>1, <1>2, <1>3 DEF SubmitEnds, TimePasses

\* The turns of a replica.
LEMMA AccountTurn ==
    ASSUME RunTypeOK, RunTypeOK', AccountOK, NEW p \in Replicas, NEW t \in Turns, Turn(p, t)
    PROVE  AccountOK'
<1>0. /\ sub' = sub /\ obj' = obj /\ rec' = rec /\ kills' = kills
      /\ Hands' = Hands /\ (ObjArmed' <=> ObjArmed)
      /\ exec[p][t] # "none"
  BY DEF Turn, Starts, Begins, FailsBeforeStart, Checkpoints, Ends, Resumes, Hands, ObjArmed
<1>1. sub # "row"
  <2>1. SUFFICES ASSUME sub = "row" PROVE FALSE  OBVIOUS
  <2>2. exec[p][t] = "queued"  BY <1>0, <2>1 DEF AccountOK, NoRow
  <2>3. <<p, t>> \in Waiting  BY <2>2 DEF Waiting
  <2>4. QED  BY <2>1, <2>3 DEF AccountOK
<1>2. exec[p][t] # "queued" => row.phase # "none"  BY <1>0 DEF AccountOK
<1>3. exec[p][t] \in {"running", "claimed", "resumed"} => Begun
  <2>1. exec[p][t] \in {"running", "claimed", "resumed"} => <<p, t>> \in Going  BY DEF Going
  <2>2. QED  BY <2>1 DEF AccountOK
<1>4. Numbers /\ Numbers' /\ Series' = Series
  BY AccountTerms, AccountTermsNext DEF Series
<1>5. /\ Counted /\ Counted'  BY CountedSets, CountedNext
<1>6. CASE Starts(p, t)
  <2>1. PICK s \in {"prep", "none"} : Now(p, t, s) /\ (s = "prep" => row.phase = "Pending")
    BY <1>6 DEF Starts
  <2>2. row' = row /\ proj' = proj /\ exec[p][t] = "queued"  BY <1>6 DEF Starts
  <2>3. \A q \in Replicas, u \in Turns :
           exec'[q][u] = IF q = p /\ u = t THEN s ELSE exec[q][u]
    BY <2>1, TurnMoves
  <2>4. Waiting' \subseteq Waiting /\ Going' \subseteq Going
    <3>1. <<p, t>> \in Waiting  BY <2>2 DEF Waiting
    <3>2. QED  BY <2>1, <3>1, TurnSets
  <2>5. row'.phase = "none" =>
           \A q \in Replicas, u \in Turns : exec'[q][u] \in {exec[q][u], "none"}
    BY <2>1, <2>2, <2>3
  <2>6. Spares  BY <1>0, <1>1, <2>2, <2>4, <2>5 DEF Spares, Begun, RowArmed, AccountOK
  <2>7. QED  BY <2>6, SparesKeeps
<1>7. CASE Begins(p, t)
  <2>1. /\ row'.phase = "Running" /\ row'.recovered = 0 /\ row'.retries = row.retries
        /\ row'.started = "young" /\ Now(p, t, "running") /\ exec[p][t] = "prep"
    BY <1>7 DEF Begins, Save, RunTypeOK
  <2>2. Weight <= Account  BY <1>2, <2>1 DEF AccountOK
  <2>3. /\ Cardinality(Waiting') + 1 <= Cardinality(Waiting)
        /\ Cardinality(Going') <= Cardinality(Going) + 1
    BY <2>1, TurnCounts
  <2>4. Picked' + Series <= Picked
    <3>1. Cardinality(Hands') + Cardinality(Waiting') + 1 <= Cardinality(Hands) + Cardinality(Waiting)
      BY <1>0, <1>5, <2>3 DEF Counted
    <3>2. QED  BY <3>1, PickedMoves
  <2>5. Parked' = 0 /\ Spare' = MaxRecovery /\ Series = 1 + MaxRecovery /\ MaxRecovery \in Nat
    BY <2>1, AgentAssumption DEF Parked, Spare, Begun, Series
  <2>6. Opened' <= Opened  BY <1>0, <2>1, OpenedKeeps DEF RowArmed
  <2>7. Account' = Account  BY <1>0, <1>4, <2>1 DEF Account
  <2>8. Weight' <= Account'
    <3>1. /\ kills \in Nat /\ Picked \in Nat /\ Picked' \in Nat /\ Parked \in Nat /\ Spare \in Nat
          /\ Cardinality(Going) \in Nat /\ Cardinality(Going') \in Nat
          /\ Opened \in Nat /\ Opened' \in Nat /\ Account \in Nat
      BY <1>4 DEF Numbers
    <3>2. Picked' + (1 + MaxRecovery) <= Picked  BY <2>4, <2>5
    <3>3. kills' = kills /\ Cardinality(Going') <= Cardinality(Going) + 1 /\ Parked' = 0
          /\ Spare' = MaxRecovery /\ MaxRecovery \in Nat
      BY <1>0, <2>3, <2>5
    <3>4. Weight \in Nat /\ Weight = kills + Picked + Cardinality(Going) + Parked + Spare + Opened
      BY <3>1 DEF Weight
    <3>5. Weight' = kills + Picked' + Cardinality(Going') + 0 + MaxRecovery + Opened'
      BY <3>3 DEF Weight
    <3>6. Picked' + Cardinality(Going') + MaxRecovery <= Picked + Cardinality(Going)
      <4>1. \A a, b, c, d, m \in Nat :
               a + (1 + m) <= c /\ b <= d + 1 => a + b + m <= c + d
        OBVIOUS
      <4>2. QED  BY <3>1, <3>2, <3>3, <4>1
    <3>7. Weight' <= Weight  BY <2>6, <3>1, <3>3, <3>4, <3>5, <3>6
    <3>8. QED  BY <2>2, <2>7, <3>1, <3>3, <3>4, <3>5, <3>7
  <2>9. QED  BY <1>0, <1>1, <2>1, <2>8 DEF AccountOK, Begun
<1>8. CASE FailsBeforeStart(p, t)
  <2>1. Save(p, Closed(row, "Failed")) /\ Now(p, t, "none")  BY <1>8 DEF FailsBeforeStart
  <2>2. \A q \in Replicas, u \in Turns : exec'[q][u] \in {exec[q][u], "none"}
    BY <2>1, TurnMoves
  <2>3. "Failed" \in Final  BY DEF Final
  <2>4. Spares  BY <1>0, <2>1, <2>2, <2>3, ClosingSpares
  <2>5. QED  BY <2>4, SparesKeeps
<1>9. CASE Checkpoints(p, t)
  <2>1. /\ row.phase = "Running" /\ row'.phase = "Running" /\ row'.started = row.started
        /\ row'.retries = row.retries /\ row'.recovered = row.recovered /\ exec' = exec
    BY <1>9 DEF Checkpoints, Save, RunTypeOK
  <2>2. Waiting' \subseteq Waiting /\ Going' \subseteq Going  BY <2>1 DEF Waiting, Going
  <2>3. Spares  BY <1>0, <1>1, <2>1, <2>2 DEF Spares, Begun, RowArmed
  <2>4. QED  BY <2>3, SparesKeeps
<1>10. CASE Ends(p, t)
  <2>1. /\ Now(p, t, "none") /\ exec[p][t] \in {"running", "resumed"}
        /\ row.phase # "none" /\ Begun /\ Weight <= Account
    BY <1>2, <1>3, <1>10 DEF Ends, AccountOK
  <2>2. PICK r \in Ended \cup {Closed(row, "Aborted")} : Save(p, r)  BY <1>10 DEF Ends
  <2>3. CASE \E f \in Final : r = Closed(row, f)
    <3>1. \A q \in Replicas, u \in Turns : exec'[q][u] \in {exec[q][u], "none"}
      BY <2>1, TurnMoves
    <3>2. Spares  BY <1>0, <2>2, <2>3, <3>1, ClosingSpares
    <3>3. QED  BY <3>2, SparesKeeps
  <2>4. /\ Cardinality(Waiting') <= Cardinality(Waiting)
        /\ Cardinality(Going') + 1 <= Cardinality(Going)
    BY <2>1, TurnCounts
  <2>5. Picked' <= Picked
    <3>1. Cardinality(Hands') + Cardinality(Waiting') <= Cardinality(Hands) + Cardinality(Waiting)
      BY <1>0, <1>5, <2>4 DEF Counted
    <3>2. QED  BY <3>1, PickedMoves
  <2>6. CASE r = [row EXCEPT !.phase = "Approval", !.ckpt = TRUE]
    <3>1. /\ row'.phase = "Approval" /\ row'.retries = row.retries
          /\ row'.recovered = row.recovered /\ row'.started = row.started
      BY <2>2, <2>6 DEF Save, RunTypeOK
    <3>2. Begun' /\ Spare' = Spare  BY <2>1, <3>1 DEF Begun, Spare
    <3>3. Parked' = 1 /\ Account' = Account  BY <1>0, <1>4, <3>1 DEF Parked, Account
    <3>4. Opened' <= Opened  BY <1>0, <3>1, OpenedKeeps DEF RowArmed
    <3>5. Weight' <= Account'
      BY <1>0, <1>4, <2>1, <2>4, <2>5, <3>2, <3>3, <3>4 DEF Numbers, Weight
    <3>6. QED  BY <1>0, <1>1, <3>1, <3>2, <3>5 DEF AccountOK
  <2>7. CASE r = HandedBack(row)
    <3>1. /\ row'.phase = "Pending" /\ row'.retry = "later"
          /\ row'.retries = row.retries + 1 /\ row'.recovered = row.recovered
      BY <2>2, <2>7 DEF Save, HandedBack, RunTypeOK
    <3>2. Begun' /\ Spare' = Spare
      <4>1. row'.retries # 0  BY <1>4, <3>1 DEF Numbers
      <4>2. QED  BY <2>1, <3>1, <4>1 DEF Begun, Spare
    <3>3. Parked' = 0 /\ Opened' <= Opened + MaxClaims * Series
      <4>1. Parked' = 0  BY <3>1 DEF Parked
      <4>2. Opened' <= Opened + MaxClaims * Series  BY <1>0, <1>4 DEF Opened, Numbers
      <4>3. QED  BY <4>1, <4>2
    <3>4. Account' = Account + MaxClaims * Series
      <4> DEFINE m == row.retries * MaxClaims
                 c == obj.attempt
      <4>1. /\ row.retries \in Nat /\ MaxClaims \in Nat /\ Series \in Nat /\ m \in Nat /\ c \in Nat
        BY <1>4, AgentAssumption DEF Numbers
      <4>2. row'.retries * MaxClaims = m + MaxClaims
        BY <3>1, <4>1, SeriesProduct
      <4>3. Account' = (m + MaxClaims + c) * Series  BY <1>0, <1>4, <4>2 DEF Account
      <4>4. Account = (m + c) * Series  BY DEF Account
      <4> HIDE DEF m, c
      <4>5. m + MaxClaims + c = (m + c) + MaxClaims /\ m + c \in Nat  BY <4>1
      <4>6. ((m + c) + MaxClaims) * Series = (m + c) * Series + MaxClaims * Series
        BY <4>1, <4>5, SeriesProduct
      <4>7. QED  BY <4>3, <4>4, <4>5, <4>6
    <3>5. Weight' <= Account'
      <4> DEFINE lot == MaxClaims * Series
      <4>1. lot \in Nat  BY <1>4 DEF Numbers
      <4>2. Opened' <= Opened + lot /\ Account' = Account + lot  BY <3>3, <3>4
      <4> HIDE DEF lot
      <4>3. QED
        BY <1>0, <1>4, <2>1, <2>4, <2>5, <3>2, <3>3, <4>1, <4>2 DEF Numbers, Weight
    <3>6. QED  BY <1>0, <1>1, <3>1, <3>2, <3>5 DEF AccountOK
  <2>8. QED  BY <2>2, <2>3, <2>6, <2>7 DEF Ended, Final
<1>11. CASE Resumes(p, t)
  <2>1. PICK s \in {"none", "resumed"} : Now(p, t, s)  BY <1>11 DEF Resumes
  <2>2. exec[p][t] = "claimed"  BY <1>11 DEF Resumes
  <2>3. CASE row' = row /\ proj' = proj
    <3>1. Waiting' \subseteq Waiting /\ Going' \subseteq Going
      <4>1. <<p, t>> \in Going  BY <2>2 DEF Going
      <4>2. QED  BY <2>1, <4>1, TurnSets
    <3>2. row'.phase # "none"  BY <1>2, <2>2, <2>3
    <3>3. Spares  BY <1>0, <1>1, <2>3, <3>1, <3>2 DEF Spares, Begun, RowArmed, AccountOK
    <3>4. QED  BY <3>3, SparesKeeps
  <2>4. CASE Now(p, t, "none") /\ Save(p, Closed(row, "Failed"))
    <3>1. \A q \in Replicas, u \in Turns : exec'[q][u] \in {exec[q][u], "none"}
      BY <2>4, TurnMoves
    <3>2. "Failed" \in Final  BY DEF Final
    <3>3. Spares  BY <1>0, <2>4, <3>1, <3>2, ClosingSpares
    <3>4. QED  BY <3>3, SparesKeeps
  <2>5. QED  BY <1>11, <2>3, <2>4 DEF Resumes
<1>12. QED  BY <1>6, <1>7, <1>8, <1>9, <1>10, <1>11 DEF Turn

\* The sum of what is counted, from the sums of its parts.
LEMMA WeightMoves ==
    ASSUME RunTypeOK, RunTypeOK',
           Opened' <= Opened, Account' = Account, Weight <= Account,
           kills' + Picked' + Cardinality(Going') + Parked' + Spare'
              <= kills + Picked + Cardinality(Going) + Parked + Spare
    PROVE  Weight' <= Account'
<1>1. /\ kills \in Nat /\ Picked \in Nat /\ Cardinality(Going) \in Nat
      /\ Parked \in Nat /\ Spare \in Nat /\ Opened \in Nat /\ Account \in Nat
  BY AccountTerms DEF Numbers
<1>2. /\ kills' \in Nat /\ Picked' \in Nat /\ Cardinality(Going') \in Nat
      /\ Parked' \in Nat /\ Spare' \in Nat /\ Opened' \in Nat
  BY AccountTermsNext DEF Numbers
<1>3. /\ kills + Picked + Cardinality(Going) + Parked + Spare \in Nat
      /\ kills' + Picked' + Cardinality(Going') + Parked' + Spare' \in Nat
  BY <1>1, <1>2
<1>4. \A a, b, e, f \in Nat : a <= b /\ e <= f => a + e <= b + f
  OBVIOUS
<1>5. Weight' <= Weight  BY <1>1, <1>2, <1>3, <1>4 DEF Weight
<1>6. Weight \in Nat /\ Weight' \in Nat  BY <1>1, <1>2 DEF Weight
<1>7. QED  BY <1>1, <1>5, <1>6

\* A claim.
LEMMA AccountClaim ==
    ASSUME RunTypeOK, RunTypeOK', AccountOK, NEW p \in Replicas, Claim(p)
    PROVE  AccountOK'
<1>1. /\ obj.phase \in {"new", "Pending"} /\ obj.attempt < MaxClaims
      /\ obj.retry \in {"no", "due"}
      /\ obj'.phase = "Pending" /\ obj'.attempt = Pickups(obj) /\ obj'.retry = "no"
  BY DEF Claim, Claimable, RunTypeOK
<1>2. /\ row' = row /\ sub' = sub /\ exec' = exec /\ proj' = proj /\ kills' = kills
      /\ Worker(p, "claimed")
  BY DEF Claim
<1>3. sub # "row"  BY <1>1 DEF AccountOK
<1>4. Waiting' = Waiting /\ Going' = Going  BY <1>2 DEF Waiting, Going
<1>5. Numbers /\ Numbers' /\ Series' = Series  BY AccountTerms, AccountTermsNext DEF Series
<1>6. Picked' <= Picked + Series
  <2>1. Cardinality(Hands') <= Cardinality(Hands) + 1  BY <1>2, HandCounts
  <2>2. Cardinality(Hands') + Cardinality(Waiting') <= Cardinality(Hands) + Cardinality(Waiting) + 1
    BY <1>4, <2>1, CountedSets, CountedNext DEF Counted
  <2>3. QED  BY <2>2, PickedMoves
<1>7. Parked' = Parked /\ Spare' = Spare /\ (Begun' <=> Begun)  BY <1>2 DEF Parked, Spare, Begun
<1>8. ~ObjArmed' /\ (RowArmed' <=> RowArmed) /\ (ObjArmed <=> obj.retry # "no" /\ obj.owner # NoOne)
  BY <1>1, <1>2 DEF ObjArmed, RowArmed
<1> DEFINE lot == MaxClaims * Series
           m == row.retries * MaxClaims
<1>9. /\ lot \in Nat /\ m \in Nat /\ Series \in Nat /\ obj.attempt \in Nat /\ MaxClaims \in Nat
      /\ kills \in Nat /\ Picked \in Nat /\ Picked' \in Nat /\ Cardinality(Going) \in Nat
      /\ Parked \in Nat /\ Spare \in Nat /\ Opened \in Nat /\ Opened' \in Nat
      /\ Account \in Nat /\ Account' \in Nat
  BY <1>5, AgentAssumption DEF Numbers
<1>10. Account = (m + obj.attempt) * Series /\ Account' = (m + Pickups(obj)) * Series
  BY <1>1, <1>2, <1>5 DEF Account
<1>11. Opened' + (IF ObjArmed THEN lot ELSE 0) = Opened
  <2>1. Opened' = IF RowArmed THEN lot ELSE 0  BY <1>5, <1>8, <1>9 DEF Opened
  <2>2. Opened = (IF ObjArmed THEN lot ELSE 0) + (IF RowArmed THEN lot ELSE 0)  BY DEF Opened
  <2> HIDE DEF lot
  <2>3. QED  BY <1>9, <2>1, <2>2
<1>12. Account + Series <= Account' + (IF ObjArmed THEN lot ELSE 0)
  <2>1. CASE ~ObjArmed
    <3>1. Pickups(obj) = obj.attempt + 1  BY <1>8, <2>1 DEF Pickups
    <3> HIDE DEF lot, m
    <3>2. m + obj.attempt \in Nat /\ m + (obj.attempt + 1) = (m + obj.attempt) + 1  BY <1>9
    <3>3. ((m + obj.attempt) + 1) * Series = (m + obj.attempt) * Series + Series
      BY <1>9, <3>2, SeriesProduct
    <3>4. Account' = Account + Series  BY <1>10, <3>1, <3>2, <3>3
    <3>5. QED  BY <1>9, <2>1, <3>4
  <2>2. CASE ObjArmed
    <3>1. Pickups(obj) = 1  BY <1>8, <2>2 DEF Pickups
    <3>2. obj.attempt <= MaxClaims  BY <1>1, <1>9
    <3>3. obj.attempt * Series <= lot  BY <1>9, <3>2, SeriesProduct
    <3>4. obj.attempt * Series \in Nat
      <4>1. \A a, b \in Nat : a * b \in Nat  OBVIOUS
      <4>2. QED  BY <1>9, <4>1
    <3> HIDE DEF lot, m
    <3>5. m * Series \in Nat
      <4>1. \A a, b \in Nat : a * b \in Nat  OBVIOUS
      <4>2. QED  BY <1>9, <4>1
    <3>6. /\ (m + 1) * Series = m * Series + Series
          /\ (m + obj.attempt) * Series = m * Series + obj.attempt * Series
      BY <1>9, SeriesProduct
    <3> DEFINE x == m * Series
               y == obj.attempt * Series
    <3>7. Account = x + y /\ Account' = x + Series /\ x \in Nat /\ y \in Nat /\ y <= lot
      BY <1>10, <3>1, <3>3, <3>4, <3>5, <3>6
    <3> HIDE DEF x, y
    <3>8. QED  BY <1>9, <2>2, <3>7
  <2>3. QED  BY <2>1, <2>2
<1>13. row'.phase # "none" => Weight' <= Account'
  <2>1. SUFFICES ASSUME row'.phase # "none" PROVE Weight' <= Account'  OBVIOUS
  <2>2. Weight <= Account  BY <1>2, <2>1 DEF AccountOK
  <2> DEFINE rest == kills + Cardinality(Going) + Parked + Spare
             back == IF ObjArmed THEN lot ELSE 0
  <2>3. rest \in Nat /\ back \in Nat  BY <1>9
  <2>4. Weight = rest + Picked + Opened  BY <1>9 DEF Weight
  <2>5. Weight' = rest + Picked' + Opened'  BY <1>2, <1>4, <1>7, <1>9 DEF Weight
  <2>6. Opened' + back = Opened /\ Account + Series <= Account' + back  BY <1>11, <1>12
  <2> HIDE DEF rest, back
  <2>7. \A r, s, a, b, c, d, e, f, g \in Nat :
           r + a + c <= e /\ b <= a + s /\ d + g = c /\ e + s <= f + g => r + b + d <= f
    OBVIOUS
  <2>8. QED  BY <1>6, <1>9, <2>2, <2>3, <2>4, <2>5, <2>6, <2>7
<1>14. QED  BY <1>2, <1>3, <1>4, <1>7, <1>13 DEF AccountOK

\* The other steps of the reconciler.
LEMMA AccountReconciler ==
    ASSUME RunTypeOK, RunTypeOK', AccountOK, NEW p \in Replicas,
           Begin(p) \/ Finish(p) \/ RemoteStopFails(p) \/ Clear(p)
    PROVE  AccountOK'
<1>0. \A s : Worker(p, s) => \A q \in Replicas : rec'[q] = IF q = p THEN s ELSE rec[q]
  BY WorkerMoves
<1>1. CASE Claim(p)  BY <1>1, AccountClaim
<1>2. CASE Recover(p)
  <2>1. /\ obj' = obj /\ sub' = sub /\ rec' = rec /\ kills' = kills /\ row.phase \notin Settled
    BY <1>2 DEF Recover
  <2>2. \A q \in Replicas : rec'[q] = "claimed" => rec[q] = "claimed"  BY <2>1
  <2>3. CASE exec' = exec /\ \E f \in Final : Save(p, Closed(row, f))
    <3>1. \A q \in Replicas, u \in Turns : exec'[q][u] \in {exec[q][u], "none"}  BY <2>3
    <3>2. Spares  BY <2>1, <2>2, <2>3, <3>1, ClosingSpares
    <3>3. QED  BY <3>2, SparesKeeps
  <2>4. CASE /\ Recoverable /\ row.phase = "Running"
             /\ Save(p, [row EXCEPT !.recovered = @ + 1])
             /\ exec' = exec \/ Now(p, FreeTurn(p), "claimed")
    <3>1. /\ row'.phase = "Running" /\ row'.recovered = row.recovered + 1
          /\ row'.retries = row.retries /\ row'.started = row.started
          /\ row.recovered \in Nat /\ row.recovered < MaxRecovery /\ MaxRecovery \in Nat
      <4>1. row.recovered \in Nat  BY DEF RunTypeOK
      <4>2. QED  BY <2>4, <4>1, AgentAssumption DEF Save, Recoverable, RunTypeOK
    <3>2. Begun /\ Begun' /\ Weight <= Account /\ sub # "row"
      BY <2>4, <3>1 DEF AccountOK, Begun, NoRow
    <3>3. /\ Cardinality(Waiting') <= Cardinality(Waiting)
          /\ Cardinality(Going') <= Cardinality(Going) + 1
      <4>1. CASE exec' = exec
        <5>1. Waiting' = Waiting /\ Going' = Going  BY <4>1 DEF Waiting, Going
        <5>2. QED  BY <5>1, CountedSets DEF Counted
      <4>2. CASE Now(p, FreeTurn(p), "claimed")
        BY <4>2, TurnCounts
      <4>3. QED  BY <2>4, <4>1, <4>2
    <3>4. Picked' <= Picked
      <4>1. Hands' = Hands  BY <2>1 DEF Hands
      <4>2. Cardinality(Hands') + Cardinality(Waiting') <= Cardinality(Hands) + Cardinality(Waiting)
        BY <3>3, <4>1, CountedSets, CountedNext DEF Counted
      <4>3. QED  BY <4>2, PickedMoves
    <3>5. Parked' = Parked /\ Spare' + 1 = Spare
      BY <2>4, <3>1, <3>2 DEF Parked, Spare
    <3>6. Opened' <= Opened  BY <2>1, <2>4, <3>1, OpenedKeeps DEF ObjArmed, RowArmed
    <3>7. Account' = Account
      <4>1. Series' = Series  BY DEF Series
      <4>2. QED  BY <2>1, <3>1, <4>1 DEF Account
    <3>8. kills' + Picked' + Cardinality(Going') + Parked' + Spare'
             <= kills + Picked + Cardinality(Going) + Parked + Spare
      <4>1. /\ kills \in Nat /\ Picked \in Nat /\ Picked' \in Nat /\ Parked \in Nat
            /\ Cardinality(Going) \in Nat /\ Cardinality(Going') \in Nat
            /\ Spare \in Nat /\ Spare' \in Nat
        BY AccountTerms, AccountTermsNext DEF Numbers
      <4>2. \A k, a, b, c, d, m, e, f \in Nat :
               a <= c /\ b <= d + 1 /\ e + 1 = f => k + a + b + m + e <= k + c + d + m + f
        OBVIOUS
      <4>3. QED  BY <2>1, <3>3, <3>4, <3>5, <4>1, <4>2
    <3>9. Weight' <= Account'  BY <3>2, <3>6, <3>7, <3>8, WeightMoves
    <3>10. QED  BY <2>1, <3>1, <3>2, <3>9 DEF AccountOK
  <2>5. QED  BY <1>2, <2>3, <2>4 DEF Recover, Final
<1>3. CASE Abandon(p) \/ Overdue(p)
  <2>1. /\ Worker(p, "stopping") /\ row.phase \notin {"none"} /\ row' = [row EXCEPT !.cancel = TRUE]
        /\ obj' = obj /\ sub' = sub /\ exec' = exec /\ proj' = proj /\ kills' = kills
    BY <1>3 DEF Abandon, Overdue, Stop
  <2>2. /\ row'.phase = row.phase /\ row'.retries = row.retries /\ row'.recovered = row.recovered
        /\ row'.started = row.started /\ row'.retry = row.retry
    BY <2>1 DEF RunTypeOK
  <2>3. sub # "row"  BY <2>1 DEF AccountOK, NoRow
  <2>4. \A q \in Replicas : rec'[q] = "claimed" => rec[q] = "claimed"  BY <1>0, <2>1
  <2>5. Waiting' = Waiting /\ Going' = Going  BY <2>1 DEF Waiting, Going
  <2>6. Spares
    BY <2>1, <2>2, <2>3, <2>4, <2>5 DEF Spares, Begun, ObjArmed, RowArmed, AccountOK
  <2>7. QED  BY <2>6, SparesKeeps
<1>4. CASE Stamp(p) \/ Clear(p)
  <2>1. /\ row' = row /\ sub' = sub /\ exec' = exec /\ proj' = proj /\ kills' = kills /\ rec' = rec
        /\ obj'.phase = obj.phase /\ obj'.attempt = obj.attempt /\ obj'.retry = obj.retry
        /\ obj'.owner = obj.owner
    BY <1>4 DEF Stamp, Clear, RunTypeOK
  <2>2. Waiting' = Waiting /\ Going' = Going  BY <2>1 DEF Waiting, Going
  <2>3. Spares  BY <2>1, <2>2 DEF Spares, Begun, ObjArmed, RowArmed, AccountOK
  <2>4. QED  BY <2>3, SparesKeeps
<1>5. CASE Dispatch(p)
  <2>1. /\ rec[p] = "claimed" /\ obj' = obj /\ sub' = sub /\ kills' = kills
    BY <1>5 DEF Dispatch
  <2>2. sub # "row"
    <3>1. p \in Hands  BY <2>1 DEF Hands
    <3>2. QED  BY <3>1 DEF AccountOK
  <2>3. PICK s \in {"refused", "idle"} : Worker(p, s)  BY <1>5 DEF Dispatch
  <2>4. \A q \in Replicas : rec'[q] = "claimed" => rec[q] = "claimed"  BY <1>0, <2>3
  <2>5. CASE row' = row /\ exec' = exec /\ proj' = proj
    <3>1. Waiting' = Waiting /\ Going' = Going  BY <2>5 DEF Waiting, Going
    <3>2. Spares
      BY <2>1, <2>2, <2>4, <2>5, <3>1 DEF Spares, Begun, ObjArmed, RowArmed, AccountOK
    <3>3. QED  BY <3>2, SparesKeeps
  <2>6. CASE Save(p, Closed(row, "Aborted")) /\ exec' = exec
    <3>1. \A q \in Replicas, u \in Turns : exec'[q][u] \in {exec[q][u], "none"}  BY <2>6
    <3>2. "Aborted" \in Final  BY DEF Final
    <3>3. Spares  BY <2>1, <2>4, <2>6, <3>1, <3>2, ClosingSpares
    <3>4. QED  BY <3>3, SparesKeeps
  <2>7. CASE /\ Now(p, FreeTurn(p), "queued") /\ row.phase # "none"
             /\ row' = row /\ proj' = proj
    <3>1. Weight <= Account  BY <2>7 DEF AccountOK
    <3>2. /\ Cardinality(Waiting') <= Cardinality(Waiting) + 1
          /\ Cardinality(Going') <= Cardinality(Going)
      BY <2>7, TurnCounts
    <3>3. Cardinality(Hands') + 1 <= Cardinality(Hands)  BY <2>1, <2>3, HandCounts
    <3>4. Picked' <= Picked
      <4>1. Cardinality(Hands') + Cardinality(Waiting') <= Cardinality(Hands) + Cardinality(Waiting)
        BY <3>2, <3>3, CountedSets, CountedNext DEF Counted
      <4>2. QED  BY <4>1, PickedMoves
    <3>5. Parked' = Parked /\ Spare' = Spare /\ (Begun' <=> Begun)
      BY <2>7 DEF Parked, Spare, Begun
    <3>6. Opened' <= Opened  BY <2>1, <2>7, OpenedKeeps DEF ObjArmed, RowArmed
    <3>7. Account' = Account
      <4>1. Series' = Series  BY DEF Series
      <4>2. QED  BY <2>1, <2>7, <4>1 DEF Account
    <3>8. kills' + Picked' + Cardinality(Going') + Parked' + Spare'
             <= kills + Picked + Cardinality(Going) + Parked + Spare
      <4>1. /\ kills \in Nat /\ Picked \in Nat /\ Picked' \in Nat /\ Parked \in Nat
            /\ Cardinality(Going) \in Nat /\ Cardinality(Going') \in Nat /\ Spare \in Nat
        BY AccountTerms, AccountTermsNext DEF Numbers
      <4>2. QED  BY <2>1, <3>2, <3>4, <3>5, <4>1
    <3>9. Weight' <= Account'  BY <3>1, <3>6, <3>7, <3>8, WeightMoves
    <3>10. Going' \subseteq Going  BY <2>7, TurnSets
    <3>11. QED  BY <2>1, <2>2, <2>7, <3>5, <3>9, <3>10 DEF AccountOK
  <2>8. QED  BY <1>5, <2>5, <2>6, <2>7 DEF Dispatch
<1>6. CASE HandBack(p)
  <2>1. /\ row' = row /\ sub' = sub /\ exec' = exec /\ proj' = proj /\ kills' = kills
        /\ Worker(p, "idle")
    BY <1>6 DEF HandBack
  <2>2. \/ obj' = obj
        \/ /\ obj.phase = "Pending" /\ obj'.phase = "Pending" /\ obj'.attempt = obj.attempt
           /\ obj'.owner = NoOne /\ obj'.retry = "later"
    BY <1>6 DEF HandBack, RunTypeOK
  <2>3. \A q \in Replicas : rec'[q] = "claimed" => rec[q] = "claimed"  BY <1>0, <2>1
  <2>4. Waiting' = Waiting /\ Going' = Going  BY <2>1 DEF Waiting, Going
  <2>5. \/ (ObjArmed' => ObjArmed) /\ (RowArmed' => RowArmed)
        \/ (ObjArmed \/ RowArmed) /\ ~(ObjArmed' /\ RowArmed')
    BY <2>1, <2>2 DEF ObjArmed, RowArmed
  <2>6. Spares  BY <2>1, <2>2, <2>3, <2>4, <2>5 DEF Spares, Begun, AccountOK
  <2>7. QED  BY <2>6, SparesKeeps
<1>7. CASE StopEnds(p)
  <2>1. \A q \in Replicas : rec'[q] = "claimed" => rec[q] = "claimed"
    BY <1>0, <1>7 DEF StopEnds
  <2>2. Spares  BY <1>7, <2>1, InterruptSpares DEF StopEnds
  <2>3. QED  BY <2>2, SparesKeeps
<1>8. CASE RemoteStopFails(p)
  <2>1. /\ obj' = obj /\ row' = row /\ sub' = sub /\ exec' = exec /\ proj' = proj /\ kills' = kills
    BY <1>8 DEF RemoteStopFails
  <2>2. rec' = rec \/ Worker(p, "idle")  BY <1>8 DEF RemoteStopFails
  <2>3. \A q \in Replicas : rec'[q] = "claimed" => rec[q] = "claimed"  BY <1>0, <2>2
  <2>4. Waiting' = Waiting /\ Going' = Going  BY <2>1 DEF Waiting, Going
  <2>5. Spares  BY <2>1, <2>3, <2>4 DEF Spares, Begun, ObjArmed, RowArmed, AccountOK
  <2>6. QED  BY <2>5, SparesKeeps
<1>9. QED  BY <1>1, <1>2, <1>3, <1>4, <1>5, <1>6, <1>7, <1>8 DEF Begin, Finish

\* What users do, elections and deaths.
LEMMA AccountReplica ==
    ASSUME RunTypeOK, RunTypeOK', AccountOK, NEW p \in Replicas, ~LateWakes,
           \/ Project(p) \/ Approve(p) \/ Cancel(p) \/ CancelEnds(p) \/ Wake(p)
           \/ Elect(p) \/ Loses(p) \/ Quits(p) \/ Dies(p)
    PROVE  AccountOK'
<1>0. \A s : Worker(p, s) => \A q \in Replicas : rec'[q] = IF q = p THEN s ELSE rec[q]
  BY WorkerMoves
<1>1. CASE Project(p)
  <2>1. /\ row' = row /\ sub' = sub /\ exec' = exec /\ rec' = rec /\ kills' = kills
        /\ proj[p] /\ obj' = Projected(obj, row)
        /\ \A q \in Replicas : proj'[q] => proj[q]
    BY <1>1 DEF Project, RunTypeOK
  <2>2. \/ obj' = obj
        \/ /\ row.phase # "none" /\ obj'.attempt = obj.attempt /\ obj'.owner = obj.owner
           /\ obj'.retry = IF row.phase = "Pending" THEN row.retry ELSE "no"
    BY <2>1 DEF Projected, RunTypeOK
  <2>3. ~(row.phase = "Pending" /\ row.retry = "due")  BY <2>1 DEF AccountOK
  <2>4. row.retry \in {"no", "later", "due"} /\ NoOne \notin Replicas
    BY AgentAssumption DEF RunTypeOK, Marks
  <2>5. \/ (ObjArmed' => ObjArmed) /\ (RowArmed' => RowArmed)
        \/ (ObjArmed \/ RowArmed) /\ ~(ObjArmed' /\ RowArmed')
    BY <2>1, <2>2, <2>3, <2>4 DEF ObjArmed, RowArmed
  <2>6. Waiting' = Waiting /\ Going' = Going  BY <2>1 DEF Waiting, Going
  <2>7. sub = "row" => obj' = obj  BY <2>2 DEF AccountOK, NoRow
  <2>8. obj'.attempt = obj.attempt  BY <2>2
  <2>9. Spares
    BY <2>1, <2>3, <2>5, <2>6, <2>7, <2>8 DEF Spares, Begun, AccountOK
  <2>10. QED  BY <2>9, SparesKeeps
<1>2. CASE Approve(p)
  <2>1. /\ row.phase = "Approval" /\ row'.phase = "Running" /\ row'.retries = row.retries
        /\ row'.recovered = row.recovered /\ row'.started # "no"
        /\ obj' = obj /\ sub' = sub /\ rec' = rec /\ kills' = kills
        /\ Now(p, FreeTurn(p), "claimed")
    BY <1>2 DEF Approve, Save, RunTypeOK
  <2>2. Begun /\ Begun' /\ Weight <= Account /\ sub # "row"
    BY <2>1 DEF AccountOK, Begun, NoRow
  <2>3. /\ Cardinality(Waiting') <= Cardinality(Waiting)
        /\ Cardinality(Going') <= Cardinality(Going) + 1
    BY <2>1, TurnCounts
  <2>4. Picked' <= Picked
    <3>1. Hands' = Hands  BY <2>1 DEF Hands
    <3>2. Cardinality(Hands') + Cardinality(Waiting') <= Cardinality(Hands) + Cardinality(Waiting)
      BY <2>3, <3>1, CountedSets, CountedNext DEF Counted
    <3>3. QED  BY <3>2, PickedMoves
  <2>5. Parked' = 0 /\ Parked = 1 /\ Spare' = Spare
    BY <2>1, <2>2 DEF Parked, Spare
  <2>6. Opened' <= Opened  BY <2>1, OpenedKeeps DEF ObjArmed, RowArmed
  <2>7. Account' = Account
    <3>1. Series' = Series  BY DEF Series
    <3>2. QED  BY <2>1, <3>1 DEF Account
  <2>8. kills' + Picked' + Cardinality(Going') + Parked' + Spare'
           <= kills + Picked + Cardinality(Going) + Parked + Spare
    <3>1. /\ kills \in Nat /\ Picked \in Nat /\ Picked' \in Nat
          /\ Cardinality(Going) \in Nat /\ Cardinality(Going') \in Nat /\ Spare \in Nat
      BY AccountTerms, AccountTermsNext DEF Numbers
    <3>2. \A k, a, b, c, d, e \in Nat :
             a <= c /\ b <= d + 1 => k + a + b + 0 + e <= k + c + d + 1 + e
      OBVIOUS
    <3>3. QED  BY <2>1, <2>3, <2>4, <2>5, <3>1, <3>2
  <2>9. Weight' <= Account'  BY <2>2, <2>6, <2>7, <2>8, WeightMoves
  <2>10. QED  BY <2>1, <2>2, <2>9 DEF AccountOK
<1>3. CASE Cancel(p)
  <2>1. /\ row.phase # "none" /\ row' = [row EXCEPT !.cancel = TRUE] /\ rec' = rec
        /\ obj' = obj /\ sub' = sub /\ exec' = exec /\ proj' = proj /\ kills' = kills
    BY <1>3 DEF Cancel
  <2>2. /\ row'.phase = row.phase /\ row'.retries = row.retries /\ row'.recovered = row.recovered
        /\ row'.started = row.started /\ row'.retry = row.retry
    BY <2>1 DEF RunTypeOK
  <2>3. sub # "row"  BY <2>1 DEF AccountOK, NoRow
  <2>4. Waiting' = Waiting /\ Going' = Going  BY <2>1 DEF Waiting, Going
  <2>5. Spares
    BY <2>1, <2>2, <2>3, <2>4 DEF Spares, Begun, ObjArmed, RowArmed, AccountOK
  <2>6. QED  BY <2>5, SparesKeeps
<1>4. CASE CancelEnds(p)
  <2>1. \A q \in Replicas : rec'[q] = "claimed" => rec[q] = "claimed"  BY <1>4 DEF CancelEnds
  <2>2. Spares  BY <1>4, <2>1, InterruptSpares DEF CancelEnds
  <2>3. QED  BY <2>2, SparesKeeps
<1>5. CASE Wake(p)
  <2> DEFINE woken == [row EXCEPT !.retry = "due"]
  <2>1. /\ row.phase = "Pending" /\ row.retry = "later" /\ row' = woken
        /\ obj' = Projected(obj, woken) /\ sub' = sub /\ exec' = exec /\ rec' = rec
        /\ kills' = kills
    BY <1>5 DEF Wake
  <2>2. /\ row'.phase = row.phase /\ row'.retries = row.retries /\ row'.recovered = row.recovered
        /\ row'.started = row.started /\ row'.retry = "due"
    BY <2>1 DEF RunTypeOK
  <2>3. \A q \in Replicas : ~proj'[q]  BY <1>5 DEF Wake, RunTypeOK
  <2>4. \/ obj' = obj
        \/ obj'.attempt = obj.attempt /\ obj'.owner = obj.owner
    <3> HIDE DEF woken
    <3>1. QED  BY <2>1 DEF Projected, RunTypeOK
  <2>5. ~RowArmed' /\ (RowArmed \/ ObjArmed \/ ~ObjArmed')
    BY <2>1, <2>2, <2>4 DEF ObjArmed, RowArmed
  <2>6. \/ (ObjArmed' => ObjArmed) /\ (RowArmed' => RowArmed)
        \/ (ObjArmed \/ RowArmed) /\ ~(ObjArmed' /\ RowArmed')
    BY <2>5
  <2>7. Waiting' = Waiting /\ Going' = Going  BY <2>1 DEF Waiting, Going
  <2>8. sub # "row"  BY <2>1 DEF AccountOK, NoRow
  <2>9. obj'.attempt = obj.attempt  BY <2>4
  <2>10. Spares
    BY <2>1, <2>2, <2>3, <2>6, <2>7, <2>8, <2>9 DEF Spares, Begun
  <2>11. QED  BY <2>10, SparesKeeps
<1>6. CASE Elect(p) \/ Loses(p) \/ Quits(p)
  <2>1. /\ obj' = obj /\ row' = row /\ sub' = sub /\ exec' = exec /\ proj' = proj /\ kills' = kills
        /\ rec' = rec \/ Worker(p, "idle")
    BY <1>6 DEF Elect, Loses, Quits
  <2>2. \A q \in Replicas : rec'[q] = "claimed" => rec[q] = "claimed"  BY <1>0, <2>1
  <2>3. Waiting' = Waiting /\ Going' = Going  BY <2>1 DEF Waiting, Going
  <2>4. Spares  BY <2>1, <2>2, <2>3 DEF Spares, Begun, ObjArmed, RowArmed, AccountOK
  <2>5. QED  BY <2>4, SparesKeeps
<1>7. CASE Dies(p)
  <2>1. /\ row' = row /\ sub' = sub /\ Worker(p, "idle")
        /\ obj'.phase = obj.phase /\ obj'.attempt = obj.attempt /\ obj'.retry = obj.retry
        /\ obj'.owner = NoOne <=> obj.owner = NoOne
    BY <1>7, AgentAssumption DEF Dies, RunTypeOK
  <2>2. \A q \in Replicas, u \in Turns :
           exec'[q][u] = IF q = p THEN "none" ELSE exec[q][u]
    BY <1>7 DEF Dies, RunTypeOK
  <2>3. \A q \in Replicas : (rec'[q] = "claimed" => rec[q] = "claimed") /\ (proj'[q] => proj[q])
    BY <1>0, <1>7, <2>1 DEF Dies, RunTypeOK
  <2>4. Waiting' \subseteq Waiting /\ Going' \subseteq Going  BY <2>2, FewerTurns
  <2>5. (ObjArmed' <=> ObjArmed) /\ (RowArmed' <=> RowArmed)  BY <2>1 DEF ObjArmed, RowArmed
  <2>6. CASE ~Registered(p)
    <3>1. kills' = kills  BY <1>7, <2>6 DEF Dies, RunTypeOK
    <3>2. \A q \in Replicas, u \in Turns : exec'[q][u] \in {exec[q][u], "none"}  BY <2>2
    <3>3. Spares
      BY <2>1, <2>3, <2>4, <2>5, <3>1, <3>2 DEF Spares, Begun, AccountOK
    <3>4. QED  BY <3>3, SparesKeeps
  <2>7. CASE Registered(p)
    <3>1. PICK t \in Turns : exec[p][t] \in {"prep", "running", "resumed"}
      BY <2>7 DEF Registered
    <3>2. row.phase # "none" /\ sub # "row" /\ Weight <= Account
      BY <3>1 DEF AccountOK, NoRow
    <3>3. kills' = kills + 1  BY <1>7, <2>7 DEF Dies
    <3>4. IsFiniteSet(Waiting) /\ IsFiniteSet(Going)  BY CountedSets DEF Counted
    <3>5. /\ Cardinality(Hands') <= Cardinality(Hands)
          /\ Cardinality(Waiting') <= Cardinality(Waiting)
          /\ Cardinality(Going') <= Cardinality(Going)
      <4>1. Cardinality(Hands') <= Cardinality(Hands)  BY <2>1, HandCounts
      <4>2. QED  BY <2>4, <3>4, <4>1, Smaller
    <3>6. Cardinality(Waiting') + 1 <= Cardinality(Waiting)
          \/ Cardinality(Going') + 1 <= Cardinality(Going)
      <4>1. <<p, t>> \in Waiting \/ <<p, t>> \in Going  BY <3>1 DEF Waiting, Going
      <4>2. <<p, t>> \notin Waiting' /\ <<p, t>> \notin Going'  BY <2>2 DEF Waiting, Going
      <4>3. CASE <<p, t>> \in Waiting
        <5>1. Waiting' \subseteq Waiting \ {<<p, t>>}  BY <2>4, <4>2
        <5>2. QED  BY <3>4, <4>3, <5>1, OneLess
      <4>4. CASE <<p, t>> \in Going
        <5>1. Going' \subseteq Going \ {<<p, t>>}  BY <2>4, <4>2
        <5>2. QED  BY <3>4, <4>4, <5>1, OneLess
      <4>5. QED  BY <4>1, <4>3, <4>4
    <3>7. /\ Picked' <= Picked
          /\ Cardinality(Waiting') + 1 <= Cardinality(Waiting) => Picked' + 1 <= Picked
      <4>1. Cardinality(Hands') + Cardinality(Waiting') <= Cardinality(Hands) + Cardinality(Waiting)
        BY <3>5, CountedSets, CountedNext DEF Counted
      <4>2. Picked' <= Picked  BY <4>1, PickedMoves
      <4>3. ASSUME Cardinality(Waiting') + 1 <= Cardinality(Waiting)
            PROVE  Picked' + 1 <= Picked
        <5>1. Cardinality(Hands') + Cardinality(Waiting') + 1
                 <= Cardinality(Hands) + Cardinality(Waiting)
          BY <3>5, <4>3, CountedSets, CountedNext DEF Counted
        <5>2. Picked' + Series <= Picked  BY <5>1, PickedMoves
        <5>3. Series \in Nat /\ Series >= 1 /\ Picked \in Nat /\ Picked' \in Nat
          BY AccountTerms, AccountTermsNext DEF Numbers
        <5>4. \A a, s, b \in Nat : s >= 1 /\ a + s <= b => a + 1 <= b  OBVIOUS
        <5>5. QED  BY <5>2, <5>3, <5>4
      <4>4. QED  BY <4>2, <4>3
    <3>8. Parked' = Parked /\ Spare' = Spare /\ (Begun' <=> Begun)
      BY <2>1 DEF Parked, Spare, Begun
    <3>9. Opened' <= Opened  BY <2>5, OpenedKeeps
    <3>10. Account' = Account
      <4>1. Series' = Series  BY DEF Series
      <4>2. QED  BY <2>1, <4>1 DEF Account
    <3>11. kills' + Picked' + Cardinality(Going') + Parked' + Spare'
              <= kills + Picked + Cardinality(Going) + Parked + Spare
      <4>1. /\ kills \in Nat /\ Picked \in Nat /\ Picked' \in Nat /\ Parked \in Nat
            /\ Cardinality(Going) \in Nat /\ Cardinality(Going') \in Nat /\ Spare \in Nat
        BY AccountTerms, AccountTermsNext DEF Numbers
      <4>2. \A k, a, b, c, d, m, e \in Nat :
               (a + 1 <= c /\ b <= d) \/ (a <= c /\ b + 1 <= d)
                  => k + 1 + a + b + m + e <= k + c + d + m + e
        OBVIOUS
      <4>3. QED  BY <3>3, <3>5, <3>6, <3>7, <3>8, <4>1, <4>2
    <3>12. Weight' <= Account'  BY <3>2, <3>9, <3>10, <3>11, WeightMoves
    <3>13. QED  BY <2>1, <2>3, <2>4, <3>2, <3>8, <3>12 DEF AccountOK
  <2>8. QED  BY <2>6, <2>7
<1>8. QED  BY <1>1, <1>2, <1>3, <1>4, <1>5, <1>6, <1>7

LEMMA AccountInit == Init => AccountOK
<1> SUFFICES ASSUME Init PROVE AccountOK  OBVIOUS
<1>1. /\ row = NoRow /\ kills = 0 /\ obj.phase = "none" /\ obj.attempt = 0 /\ obj.retry = "no"
  BY DEF Init
<1>2. /\ \A q \in Replicas : rec[q] = "idle"
      /\ \A q \in Replicas, u \in Turns : exec[q][u] = "none"
  BY DEF Init
<1>3. \A x \in Replicas \X Turns : exec[x[1]][x[2]] = "none"  BY <1>2
<1>4. Hands = {} /\ Waiting = {} /\ Going = {}  BY <1>2, <1>3 DEF Hands, Waiting, Going
<1>5. kills <= MaxAttempts * MaxClaims * (1 + MaxRecovery)
  <2>1. \A a, b \in Nat : a * b \in Nat  OBVIOUS
  <2>2. MaxAttempts \in Nat /\ MaxClaims \in Nat /\ 1 + MaxRecovery \in Nat  BY AgentAssumption
  <2>3. MaxAttempts * MaxClaims \in Nat  BY <2>1, <2>2
  <2> DEFINE n == MaxAttempts * MaxClaims
             s == 1 + MaxRecovery
  <2>4. n \in Nat /\ s \in Nat  BY <2>2, <2>3
  <2> HIDE DEF n, s
  <2>5. n * s \in Nat  BY <2>1, <2>4
  <2>6. 0 <= n * s  BY <2>5
  <2>7. QED  BY <1>1, <2>6 DEF n, s
<1>6. QED  BY <1>1, <1>2, <1>4, <1>5 DEF AccountOK, NoRow

LEMMA AccountStep ==
    ASSUME RunTypeOK, RunTypeOK', AccountOK, ~LateWakes, [Next]_vars
    PROVE  AccountOK'
<1>1. CASE UNCHANGED vars
  <2>1. /\ obj' = obj /\ row' = row /\ sub' = sub /\ exec' = exec /\ proj' = proj /\ kills' = kills
        /\ rec' = rec
    BY <1>1 DEF vars
  <2>2. Waiting' = Waiting /\ Going' = Going  BY <2>1 DEF Waiting, Going
  <2>3. Spares  BY <2>1, <2>2 DEF Spares, Begun, ObjArmed, RowArmed, AccountOK
  <2>4. QED  BY <2>3, SparesKeeps
<1>2. CASE SubmitRow \/ SubmitObject \/ SubmitStatus \/ SubmitEnds \/ TimePasses
  BY <1>2, AccountSubmission
<1>3. ASSUME NEW p \in Replicas,
             Begin(p) \/ Finish(p) \/ RemoteStopFails(p) \/ Clear(p)
      PROVE  AccountOK'
  BY <1>3, AccountReconciler
<1>4. ASSUME NEW p \in Replicas,
             \/ Project(p) \/ Approve(p) \/ Cancel(p) \/ CancelEnds(p) \/ Wake(p)
             \/ Elect(p) \/ Loses(p) \/ Quits(p) \/ Dies(p)
      PROVE  AccountOK'
  BY <1>4, AccountReplica
<1>5. ASSUME NEW p \in Replicas, NEW t \in Turns, Turn(p, t) PROVE AccountOK'
  BY <1>5, AccountTurn
<1>6. QED  BY <1>1, <1>2, <1>3, <1>4, <1>5 DEF Next

\* Unless a wake-up is projected after the claim it led to, a run that kills
\* whatever executes it is given up: a claim takes one process and the
\* recoveries its start allows, and while no turn was overtaken the recoveries
\* of all the claims of an attempt are those of one (claimAndDispatch,
\* recoverRun, retryRun).
THEOREM RunKillsAreBounded == ~LateWakes => (Spec => []KillsAreBounded)
<1> SUFFICES ASSUME ~LateWakes PROVE Spec => []KillsAreBounded  OBVIOUS
<1>1. Init => StartInv  BY StartInit
<1>2. Init => KillInv
  <2> SUFFICES ASSUME Init PROVE KillOK  BY DEF KillInv
  <2>1. ~InHand /\ ~Armed  BY DEF Init, InHand, Armed, NoRow
  <2>2. KillsWithin
    <3>1. \A m, n \in Nat : 0 <= m * n  OBVIOUS
    <3>2. MaxAttempts \in Nat /\ MaxClaims + MaxRecovery \in Nat  BY AgentAssumption
    <3>3. 0 <= MaxAttempts * (MaxClaims + MaxRecovery)  BY <3>1, <3>2
    <3>4. QED  BY <3>3 DEF Init, KillsWithin
  <2>3. QED  BY <2>1, <2>2 DEF Init, NoRow, KillOK
<1>3. RunTypeOK /\ StartInv /\ [Next]_vars => StartInv'  BY StartStep
<1>4. RunTypeOK /\ RunTypeOK' /\ StartInv /\ StartInv' /\ KillInv /\ [Next]_vars => KillInv'
  BY KillStep
<1>5. RunTypeOK /\ RunTypeOK' /\ AccountOK /\ [Next]_vars => AccountOK'  BY AccountStep
<1>6. RunTypeOK /\ AccountOK => kills <= MaxAttempts * MaxClaims * (1 + MaxRecovery)
  BY AccountBound DEF AccountOK
<1>7. KillInv => (~overtaken => kills <= MaxAttempts * (MaxClaims + MaxRecovery))
  BY DEF KillInv, KillOK, KillsWithin
<1>8. RunTypeOK /\ AccountOK /\ KillInv => KillsAreBounded  BY <1>6, <1>7 DEF KillsAreBounded
<1>9. QED
  BY <1>1, <1>2, <1>3, <1>4, <1>5, <1>8, AccountInit, RunTypeCorrect, PTL DEF Spec
=============================================================================
