----------------------- MODULE RunnerAttempts_proofs -----------------------
(***************************************************************************)
(* Proofs about the attempt engine, for any set of attempts, requests,      *)
(* permission requests, faults and crashes.                                 *)
(***************************************************************************)
EXTENDS RunnerAttempts, TLAPS

-----------------------------------------------------------------------------
(* Types                                                                    *)

EndPhases == {"completed", "failed", "cancelled", "needs_input"}

\* The records the engine builds are records.
LEMMA RecordTypes ==
    /\ Absent \in Record
    /\ Fence \in Record
    /\ \A a \in Attempts : Accepted(a) \in Record
    /\ \A r \in Record : Recovered(r) \in Record
    /\ \A r \in Record, phase \in EndPhases, note \in SUBSET {"error"} : \A lost :
            Finished(r, phase, note, "append" \notin lost) \in Record
<1>1. Absent \in Record
  BY ConstantsAssumption DEF Absent, Record, Phases, Terminal
<1>2. Fence \in Record
  BY <1>1 DEF Fence, Absent, Record, Phases, Terminal, Flags
<1>3. \A a \in Attempts : Accepted(a) \in Record
  BY <1>1 DEF Accepted, Absent, Record, Phases, Terminal, Flags, Claim
<1>4. \A r \in Record : Recovered(r) \in Record
  BY DEF Recovered, Record, Phases, Terminal
<1>5. \A r \in Record, phase \in EndPhases, note \in SUBSET {"error"} : \A lost :
            Finished(r, phase, note, "append" \notin lost) \in Record
  <2> SUFFICES ASSUME NEW r \in Record, NEW phase \in EndPhases,
                      NEW note \in SUBSET {"error"}, NEW lost
               PROVE  Finished(r, phase, note, "append" \notin lost) \in Record
    OBVIOUS
  <2>1. CASE "append" \in lost
    BY <2>1 DEF Finished, Record, Phases, Terminal, EndPhases, Flags
  <2>2. CASE "append" \notin lost
    BY <2>2 DEF Finished, Record, Phases, Terminal, EndPhases, Flags
  <2> QED BY <2>1, <2>2
<1> QED BY <1>1, <1>2, <1>3, <1>4, <1>5

\* The records a handler derives from a record (a patch of the receipt) are records.
LEMMA PatchTypes ==
    ASSUME NEW r \in Record
    PROVE  /\ Starting(r) \in Record
           /\ Cancelling(r) \in Record
           /\ \A a \in Attempts, ph \in {"starting", "accepted"} : Resumed(a, r, ph) \in Record
           /\ Answered(r) \in Record
           /\ \A kind \in {"progress", "needs_input", "cancelled", "other"}, s \in SUBSET {"session"} :
                AfterEvent(r, kind, s) \in Record
           /\ \A s \in SUBSET {"session"} : EventFailed(r, s) \in Record /\ WithSession(r, s) \in Record
           /\ \A p \in Perms : ParkedOn(r, p) \in Record
           /\ Abandoned(r) \in Record
           /\ Committed(r) \in Record
           /\ Aged(r) \in Record
           /\ \A h \in {"owed", "settled"} : Hooked(r, h) \in Record
<1> USE DEF Record, Phases, Terminal, Flags
<1>1. Starting(r) \in Record /\ Cancelling(r) \in Record
  BY DEF Starting, Cancelling
<1>2. \A a \in Attempts, ph \in {"starting", "accepted"} : Resumed(a, r, ph) \in Record
  BY DEF Resumed, Claim
<1>3. Answered(r) \in Record /\ Abandoned(r) \in Record /\ Committed(r) \in Record
  BY DEF Answered, Abandoned, Committed
<1>4. \A kind \in {"progress", "needs_input", "cancelled", "other"}, s \in SUBSET {"session"} :
        AfterEvent(r, kind, s) \in Record
  BY DEF AfterEvent, PhaseAfter
<1>5. \A s \in SUBSET {"session"} : EventFailed(r, s) \in Record
  BY DEF EventFailed
<1>6. \A s \in SUBSET {"session"} : WithSession(r, s) \in Record
  BY DEF WithSession
<1>7. \A p \in Perms : ParkedOn(r, p) \in Record
  BY DEF ParkedOn
<1>8. Aged(r) \in Record /\ \A h \in {"owed", "settled"} : Hooked(r, h) \in Record
  BY DEF Aged, Hooked
<1> QED BY <1>1, <1>2, <1>3, <1>4, <1>5, <1>6, <1>7, <1>8

\* The initial state is well typed.
LEMMA InitType == Init => TypeOK
  BY RecordTypes, ConstantsAssumption DEF Init, TypeOK, AskStates

\* A purge leaves a well-typed state.
LEMMA PurgeType ==
    ASSUME NEW m \in [Attempts -> Record], NEW o \in SUBSET Operations, NEW S
    PROVE  /\ Without(m, S) \in [Attempts -> Record]
           /\ OpsWithout(o, S) \in SUBSET Operations
  BY RecordTypes DEF Without, OpsWithout

\* The operation keys.
LEMMA OpTypes ==
    ASSUME NEW a \in Attempts
    PROVE  /\ StartOp(a) \in Operations
           /\ \A id \in RequestIDs : CancelOp(a, id) \in Operations /\ ResumeOp(a, id) \in Operations
  BY DEF StartOp, CancelOp, ResumeOp, Operations

\* A save leaves a well-typed disk.
LEMMA SaveType ==
    ASSUME TypeOK, NEW m \in [Attempts -> Record], NEW o \in SUBSET Operations,
           NEW ok, SaveImage(ok, m, o)
    PROVE  dAtt' \in [Attempts -> Record] /\ dOps' \in SUBSET Operations
  BY DEF SaveImage, TypeOK, disk

\* finishLocked leaves well-typed state.
LEMMA FinishType ==
    ASSUME TypeOK, NEW a \in Attempts, NEW r \in Record, NEW phase \in EndPhases,
           NEW note \in SUBSET {"error"}, ops' \in SUBSET Operations,
           NEW image, image.att \in [Attempts -> Record], image.ops \in SUBSET Operations,
           Finish(a, r, phase, note, image)
    PROVE  /\ att' \in [Attempts -> Record]
           /\ dAtt' \in [Attempts -> Record]
           /\ dOps' \in SUBSET Operations
           /\ hooks' \in SUBSET Attempts
           /\ creds' \in SUBSET Attempts
<1>1. \A lost : Finished(r, phase, note, "append" \notin lost) \in Record
  BY RecordTypes
<1> QED BY <1>1 DEF TypeOK, Finish

\* Runner.Start of a new attempt keeps the types, wherever one of its writes fails.
LEMMA StartAcceptType ==
    ASSUME TypeOK, NEW a \in Attempts, StartAccept(a) PROVE TypeOK'
<1>1. PICK S \in PurgeSets(att), end \in Ends({"append", "save", "resave"}) : StartWith(a, S, end)
  BY DEF StartAccept
<1>2. /\ Without(att, S) \in [Attempts -> Record]
      /\ OpsWithout(ops, S) \in SUBSET Operations
      /\ OpsWithout(spent, S) \in SUBSET Operations
      /\ OpsWithout(acked, S) \in SUBSET Operations
      /\ StartOp(a) \in Operations
  BY PurgeType, OpTypes DEF TypeOK
<1>3. \A p \in {"starting", "accepted"} : [Accepted(a) EXCEPT !.phase = p] \in Record
  BY RecordTypes DEF Record, Phases
<1>4. /\ att' \in [Attempts -> Record]
      /\ ops' \in SUBSET Operations
      /\ creds' \in SUBSET Attempts
      /\ shutdown' \in SUBSET Attempts
  BY <1>1, <1>2, <1>3 DEF StartWith, TypeOK
<1>5. dAtt' \in [Attempts -> Record] /\ dOps' \in SUBSET Operations
  BY <1>1, <1>4, SaveType DEF StartWith, TypeOK, Save, disk
<1>6. /\ exec' \in [Attempts -> {"none", "run", "export"}]
      /\ ctxDone' \in SUBSET Attempts
      /\ gate' \in [Attempts -> {"none", "idle"} \cup Perms]
      /\ clock' \in [Attempts -> {"off", "ticking", "paused", "ranout"}]
      /\ spent' \in SUBSET Operations
      /\ acked' \in SUBSET Operations
  BY <1>1, <1>2 DEF StartWith, TypeOK, Launch, running
<1> QED BY <1>4, <1>5, <1>6 DEF TypeOK, StartAccept

\* Every request handler (Start, Cancel, Resume and the permission verdict) keeps the types.
LEMMA RequestType ==
    ASSUME TypeOK, NEW a \in Attempts, Requests(a) PROVE TypeOK'
<1>1. CASE StartAccept(a)
  BY <1>1, StartAcceptType
<1>2. CASE StartRelaunch(a)
  <2>1. att' \in [Attempts -> Record] /\ ops' \in SUBSET Operations
    BY <1>2, PatchTypes DEF TypeOK, StartRelaunch
  <2>2. dAtt' \in [Attempts -> Record] /\ dOps' \in SUBSET Operations
    BY <1>2, <2>1, SaveType DEF TypeOK, StartRelaunch, Save, disk
  <2>3. acked' \in SUBSET Operations /\ spent' \in SUBSET Operations
    BY <1>2, OpTypes DEF TypeOK, StartRelaunch, Ack, history
  <2>4. Launch(a) \/ UNCHANGED running
    BY <1>2 DEF StartRelaunch
  <2> QED BY <1>2, <2>1, <2>2, <2>3, <2>4 DEF TypeOK, StartRelaunch, Launch, running
<1>3. ASSUME NEW id \in RequestIDs, CancelUnseen(a, id) PROVE TypeOK'
  <2>1. /\ [att EXCEPT ![a] = Fence] \in [Attempts -> Record]
        /\ ops \cup {CancelOp(a, id)} \in SUBSET Operations
    BY RecordTypes, OpTypes DEF TypeOK
  <2>2. dAtt' \in [Attempts -> Record] /\ dOps' \in SUBSET Operations
    BY <1>3, <2>1, SaveType DEF CancelUnseen
  <2> QED BY <1>3, <2>1, <2>2, OpTypes DEF TypeOK, CancelUnseen, Ack, memory, running
<1>4. ASSUME NEW id \in RequestIDs, CancelFinished(a, id) PROVE TypeOK'
  <2>1. ops' \in SUBSET Operations /\ att' \in [Attempts -> Record]
    BY <1>4, OpTypes DEF TypeOK, CancelFinished
  <2>2. dAtt' \in [Attempts -> Record] /\ dOps' \in SUBSET Operations
    BY <1>4, <2>1, SaveType DEF CancelFinished, Save
  <2> QED BY <1>4, <2>1, <2>2, OpTypes DEF TypeOK, CancelFinished, running
<1>5. ASSUME NEW id \in RequestIDs, Cancel(a, id) PROVE TypeOK'
  <2> DEFINE r == Cancelling(att[a])
             m == [att EXCEPT ![a] = r]
  <2>1. r \in Record /\ m \in [Attempts -> Record] /\ ops' \in SUBSET Operations
    BY <1>5, OpTypes, PatchTypes DEF TypeOK, Cancel
  <2>2. CASE Finish(a, r, "cancelled", {}, [att |-> m, ops |-> ops'])
    <3> HIDE DEF r, m
    <3>1. /\ att' \in [Attempts -> Record] /\ dAtt' \in [Attempts -> Record]
          /\ dOps' \in SUBSET Operations /\ hooks' \in SUBSET Attempts
          /\ creds' \in SUBSET Attempts
      BY <2>1, <2>2, FinishType DEF EndPhases
    <3> QED BY <1>5, <2>1, <3>1, OpTypes DEF TypeOK, Cancel, CancelRunning
  <2>3. CASE ~Finish(a, r, "cancelled", {}, [att |-> m, ops |-> ops'])
    <3>1. att' = m /\ creds' = creds /\ hooks' = hooks
      BY <1>5, <2>3 DEF Cancel
    <3>2. dAtt' \in [Attempts -> Record] /\ dOps' \in SUBSET Operations
      BY <1>5, <2>1, <2>3, <3>1, SaveType DEF Cancel, Save, TypeOK, disk
    <3> QED BY <1>5, <2>1, <3>1, <3>2, OpTypes DEF TypeOK, Cancel, CancelRunning
  <2> QED BY <2>2, <2>3
<1>6. ASSUME NEW id \in RequestIDs, Resume(a, id) PROVE TypeOK'
  <2>1. att' \in [Attempts -> Record] /\ ops' \in SUBSET Operations
    <3>1. \E ph \in {"starting", "accepted"} : att' = [att EXCEPT ![a] = Resumed(a, att[a], ph)]
      BY <1>6 DEF Resume
    <3>2. \A ph \in {"starting", "accepted"} : Resumed(a, att[a], ph) \in Record
      BY PatchTypes DEF TypeOK
    <3>3. ops' \in SUBSET Operations
      BY <1>6, OpTypes DEF TypeOK, Resume
    <3> QED BY <3>1, <3>2, <3>3 DEF TypeOK
  <2>2. dAtt' \in [Attempts -> Record] /\ dOps' \in SUBSET Operations
    BY <1>6, <2>1, SaveType DEF TypeOK, Resume, Save, disk
  <2> QED BY <1>6, <2>1, <2>2, OpTypes DEF TypeOK, Resume, Launch, running
<1>7. ASSUME NEW id \in RequestIDs, NEW p \in Perms, ResumePermission(a, p, id) PROVE TypeOK'
  <2>1. att' \in [Attempts -> Record] /\ ops' \in SUBSET Operations
    BY <1>7, OpTypes, PatchTypes DEF TypeOK, ResumePermission
  <2>2. dAtt' \in [Attempts -> Record] /\ dOps' \in SUBSET Operations
    BY <1>7, <2>1, SaveType DEF TypeOK, ResumePermission, Save, disk
  <2>3. asker' \in [Attempts -> [Perms -> AskStates]]
    BY <1>7 DEF TypeOK, ResumePermission, AskStates
  <2>4. clock' \in [Attempts -> {"off", "ticking", "paused", "ranout"}]
    BY <1>7 DEF TypeOK, ResumePermission, Unpaused
  <2> QED BY <1>7, <2>1, <2>2, <2>3, <2>4, OpTypes DEF TypeOK, ResumePermission
<1> QED BY <1>1, <1>2, <1>3, <1>4, <1>5, <1>6, <1>7 DEF Requests

\* Runner.execute ends an attempt in one of the four phases finishLocked takes.
LEMMA OutcomeType ==
    ASSUME NEW a \in Attempts, NEW result \in Results
    PROVE  Outcome(a, result) \in EndPhases
  BY DEF Outcome, Results, EndPhases

\* The return of the adapter keeps the types, with and without a Git export.
LEMMA ExecEndType ==
    ASSUME TypeOK, NEW a \in Attempts, NEW result \in Results, NEW s \in SUBSET {"session"},
           ExecEnd(a, result, s)
    PROVE  TypeOK'
<1> DEFINE r == WithSession(att[a], s)
           note == IF result \in {"error", "foreign"} THEN {"error"} ELSE {}
<1>1. r \in Record /\ note \in SUBSET {"error"}
  BY PatchTypes DEF TypeOK
<1>2. Outcome(a, result) \in EndPhases
  BY OutcomeType
<1>3. /\ gate' \in [Attempts -> {"none", "idle"} \cup Perms]
      /\ clock' \in [Attempts -> {"off", "ticking", "paused", "ranout"}]
      /\ exec' \in [Attempts -> {"none", "run", "export"}]
      /\ ctxDone' \in SUBSET Attempts
      /\ shutdown' \in SUBSET Attempts
      /\ ops' \in SUBSET Operations
  BY DEF TypeOK, ExecEnd
<1>4. CASE Finish(a, r, Outcome(a, result), note, OnDisk)
  <2> HIDE DEF r, note
  <2>1. OnDisk.att \in [Attempts -> Record] /\ OnDisk.ops \in SUBSET Operations
    BY DEF OnDisk, TypeOK
  <2>2. /\ att' \in [Attempts -> Record] /\ dAtt' \in [Attempts -> Record]
        /\ dOps' \in SUBSET Operations /\ hooks' \in SUBSET Attempts
        /\ creds' \in SUBSET Attempts
    BY <1>1, <1>2, <1>3, <1>4, <2>1, FinishType
  <2> QED BY <1>3, <2>2 DEF TypeOK, ExecEnd, history
<1>5. CASE ~Finish(a, r, Outcome(a, result), note, OnDisk)
  <2>1. att' = [att EXCEPT ![a] = r] /\ UNCHANGED <<dAtt, dOps, creds, hooks>>
    BY <1>5 DEF ExecEnd, disk
  <2> QED BY <1>1, <1>3, <2>1 DEF TypeOK, ExecEnd, history
<1> QED BY <1>4, <1>5

\* Both ends of a Git export keep the types.
LEMMA ExportType ==
    ASSUME TypeOK, NEW a \in Attempts, ExportEnd(a) \/ ExportCommit(a)
    PROVE  TypeOK'
<1>1. att[a] \in Record /\ Committed(att[a]) \in Record
  BY PatchTypes DEF TypeOK
<1>2. /\ exec' \in [Attempts -> {"none", "run", "export"}]
      /\ ctxDone' \in SUBSET Attempts
      /\ shutdown' \in SUBSET Attempts
      /\ ops' \in SUBSET Operations
      /\ UNCHANGED <<proc, gate, clock, asker, acked, spent>>
  BY DEF TypeOK, ExportEnd, ExportCommit, history
<1>3. ASSUME NEW phase \in EndPhases, NEW note \in SUBSET {"error"}, NEW image,
             image.att \in [Attempts -> Record], image.ops \in SUBSET Operations,
             Finish(a, att[a], phase, note, image)
      PROVE  TypeOK'
  <2>1. /\ att' \in [Attempts -> Record] /\ dAtt' \in [Attempts -> Record]
        /\ dOps' \in SUBSET Operations /\ hooks' \in SUBSET Attempts
        /\ creds' \in SUBSET Attempts
    BY <1>1, <1>2, <1>3, FinishType
  <2> QED BY <1>2, <2>1 DEF TypeOK
<1>4. OnDisk.att \in [Attempts -> Record] /\ OnDisk.ops \in SUBSET Operations
  BY DEF OnDisk, TypeOK
<1>5. CASE ExportEnd(a)
  BY <1>3, <1>4, <1>5 DEF ExportEnd, EndPhases
<1>6. CASE ExportCommit(a)
  <2> DEFINE done == [att |-> [att EXCEPT ![a] = Committed(att[a])], ops |-> ops]
  <2>1. done.att \in [Attempts -> Record] /\ done.ops \in SUBSET Operations
    BY <1>1 DEF TypeOK
  <2>2. ASSUME NEW image \in {OnDisk, done}, Finish(a, att[a], "failed", {"error"}, image)
        PROVE  TypeOK'
    <3> HIDE DEF done
    <3> QED BY <1>3, <1>4, <2>1, <2>2 DEF EndPhases
  <2>3. CASE att' = [att EXCEPT ![a] = Committed(att[a])] /\ Save(TRUE) /\ creds' = creds
                /\ hooks' \in {hooks, hooks \cup {a}}
    <3>1. att' \in [Attempts -> Record]
      BY <1>1, <2>3 DEF TypeOK
    <3>2. dAtt' \in [Attempts -> Record] /\ dOps' \in SUBSET Operations
      BY <1>2, <2>3, <3>1, SaveType DEF Save
    <3> QED BY <1>2, <2>3, <3>1, <3>2 DEF TypeOK
  <2> QED BY <1>6, <2>2, <2>3 DEF ExportCommit
<1> QED BY <1>5, <1>6

\* handleHarnessEvent keeps the types, also when it fails the attempt.
LEMMA EventType ==
    ASSUME TypeOK, NEW a \in Attempts, NEW s \in SUBSET {"session"},
           \/ \E kind \in {"progress", "needs_input", "cancelled", "other"} : HarnessEvent(a, kind, s)
           \/ HarnessEventFails(a, s)
    PROVE  TypeOK'
<1>1. att' \in [Attempts -> Record] /\ ops' \in SUBSET Operations
  <2>1. att[a] \in Record
    BY DEF TypeOK
  <2>2. CASE HarnessEventFails(a, s)
    <3>1. EventFailed(att[a], s) \in Record
      BY <2>1, PatchTypes
    <3> QED BY <2>2, <3>1 DEF TypeOK, HarnessEventFails
  <2>3. ASSUME NEW kind \in {"progress", "needs_input", "cancelled", "other"}, HarnessEvent(a, kind, s)
        PROVE  att' \in [Attempts -> Record] /\ ops' \in SUBSET Operations
    <3>1. AfterEvent(att[a], kind, s) \in Record
      BY <2>1, PatchTypes
    <3> QED BY <2>3, <3>1 DEF TypeOK, HarnessEvent
  <2> QED BY <2>2, <2>3
<1>2. dAtt' \in [Attempts -> Record] /\ dOps' \in SUBSET Operations
  BY <1>1, SaveType DEF HarnessEvent, HarnessEventFails, Save
<1> QED BY <1>1, <1>2 DEF TypeOK, HarnessEvent, HarnessEventFails, running, history

\* The steps of a blocked permission call keep the types.
LEMMA PermissionsType ==
    ASSUME TypeOK, NEW a \in Attempts, NEW p \in Perms, Permissions(a, p)
    PROVE  TypeOK'
<1>1. CASE ParkOnPermission(a, p)
  <2>1. att' \in [Attempts -> Record] /\ ops' \in SUBSET Operations
    BY <1>1, PatchTypes DEF TypeOK, ParkOnPermission
  <2>2. dAtt' \in [Attempts -> Record] /\ dOps' \in SUBSET Operations
    BY <1>1, <2>1, SaveType DEF TypeOK, ParkOnPermission, Save, disk
  <2>3. clock' \in [Attempts -> {"off", "ticking", "paused", "ranout"}]
    BY <1>1 DEF TypeOK, ParkOnPermission, Paused, Unpaused
  <2>4. asker' \in [Attempts -> [Perms -> AskStates]]
    BY <1>1 DEF TypeOK, ParkOnPermission, AskStates
  <2> QED BY <1>1, <2>1, <2>2, <2>3, <2>4 DEF TypeOK, ParkOnPermission, history
<1>2. CASE AbandonPermission(a, p)
  <2>1. att' \in [Attempts -> Record] /\ ops' \in SUBSET Operations
    BY <1>2, PatchTypes DEF TypeOK, AbandonPermission
  <2>2. dAtt' \in [Attempts -> Record] /\ dOps' \in SUBSET Operations
    BY <1>2, <2>1, SaveType DEF TypeOK, AbandonPermission, Save, disk
  <2>3. clock' \in [Attempts -> {"off", "ticking", "paused", "ranout"}]
    BY <1>2 DEF TypeOK, AbandonPermission, Unpaused
  <2>4. asker' \in [Attempts -> [Perms -> AskStates]]
    BY <1>2 DEF TypeOK, AbandonPermission, AskStates
  <2> QED BY <1>2, <2>1, <2>2, <2>3, <2>4 DEF TypeOK, AbandonPermission, history
<1>3. CASE AskPermission(a, p) \/ ParkRefused(a, p) \/ TakeVerdict(a, p) \/ CallEnds(a, p)
  <2>1. asker' \in [Attempts -> [Perms -> AskStates]]
    BY <1>3 DEF TypeOK, AskPermission, ParkRefused, TakeVerdict, CallEnds, AskStates
  <2> QED BY <1>3, <2>1
       DEF TypeOK, AskPermission, ParkRefused, TakeVerdict, CallEnds, memory, disk, running, history
<1> QED BY <1>1, <1>2, <1>3 DEF Permissions

\* The end of a cleanup hook and the passing of the retention window keep the types.
LEMMA MaintenanceType ==
    ASSUME TypeOK, NEW a \in Attempts, Maintenance(a) PROVE TypeOK'
<1>1. ASSUME NEW result \in {"owed", "settled"}, HookEnds(a, result) PROVE TypeOK'
  <2>1. att' \in [Attempts -> Record] /\ ops' \in SUBSET Operations
    BY <1>1, PatchTypes DEF TypeOK, HookEnds
  <2>2. dAtt' \in [Attempts -> Record] /\ dOps' \in SUBSET Operations
    BY <1>1, <2>1, SaveType DEF HookEnds, Save
  <2> QED BY <1>1, <2>1, <2>2 DEF TypeOK, HookEnds, running, history
<1>2. CASE Age(a)
  <2>1. att' \in [Attempts -> Record] /\ dAtt' \in [Attempts -> Record]
    BY <1>2, PatchTypes DEF TypeOK, Age
  <2> QED BY <1>2, <2>1 DEF TypeOK, Age, running, history
<1> QED BY <1>1, <1>2 DEF Maintenance

\* The retention sweep, Close, a crash and New keep the types.
LEMMA ProcessType ==
    ASSUME TypeOK, Process PROVE TypeOK'
<1>1. CASE Sweep
  <2>1. PICK S \in PurgeSets(att) \ {{}} :
          /\ att' = Without(att, S)
          /\ ops' = OpsWithout(ops, S)
          /\ creds' = creds \ S
          /\ shutdown' = shutdown \ S
          /\ acked' = OpsWithout(acked, S)
          /\ spent' = OpsWithout(spent, S)
    BY <1>1 DEF Sweep
  <2>2. /\ att' \in [Attempts -> Record] /\ ops' \in SUBSET Operations
        /\ acked' \in SUBSET Operations /\ spent' \in SUBSET Operations
    BY <2>1, PurgeType DEF TypeOK
  <2>3. dAtt' \in [Attempts -> Record] /\ dOps' \in SUBSET Operations
    BY <1>1, <2>2, SaveType DEF Sweep, Save
  <2> QED BY <1>1, <2>1, <2>2, <2>3 DEF TypeOK, Sweep, running
<1>2. CASE Close
  BY <1>2 DEF TypeOK, Close, memory, disk, history
<1>3. CASE Dies
  <2>1. asker' \in [Attempts -> [Perms -> AskStates]]
    BY <1>3 DEF TypeOK, Dies, AskStates
  <2> QED BY <1>3, <2>1, RecordTypes DEF TypeOK, Dies, disk, history
<1>4. CASE Restart
  <2> DEFINE m == [a \in Attempts |-> Recovered(dAtt[a])]
  <2>1. m \in [Attempts -> Record]
    BY RecordTypes DEF TypeOK
  <2>2. PICK S \in PurgeSets(m) :
          /\ att' = Without(m, S)
          /\ ops' = OpsWithout(dOps, S)
          /\ acked' = OpsWithout(acked, S)
          /\ spent' = OpsWithout(spent, S)
    BY <1>4 DEF Restart
  <2>3. /\ att' \in [Attempts -> Record] /\ ops' \in SUBSET Operations
        /\ acked' \in SUBSET Operations /\ spent' \in SUBSET Operations
    <3> HIDE DEF m
    <3> QED BY <2>1, <2>2, PurgeType DEF TypeOK
  <2>4. dAtt' \in [Attempts -> Record] /\ dOps' \in SUBSET Operations
    BY <1>4, <2>3, SaveType DEF Restart, Save
  <2>5. hooks' \in SUBSET Attempts
    BY <1>4 DEF Restart
  <2> QED BY <1>4, <2>3, <2>4, <2>5 DEF TypeOK, Restart, running
<1> QED BY <1>1, <1>2, <1>3, <1>4 DEF Process, CloseDone, Crash

\* Every reachable state of the engine is well typed.
THEOREM TypeCorrect == Spec => []TypeOK
<1>1. TypeOK /\ [Next]_vars => TypeOK'
  <2> SUFFICES ASSUME TypeOK, [Next]_vars PROVE TypeOK'
    OBVIOUS
  <2>1. ASSUME NEW a \in Attempts, Execution(a) PROVE TypeOK'
    <3>1. CASE ClockExpires(a)
      BY <3>1 DEF TypeOK, ClockExpires, memory, disk, history
    <3> QED BY <2>1, <3>1, EventType, ExecEndType, ExportType DEF Execution
  <2>2. ASSUME NEW op \in Operations, Replay(op) PROVE TypeOK'
    BY <2>2 DEF TypeOK, Replay, Ack, memory, disk, running
  <2>3. CASE UNCHANGED vars
    BY <2>3 DEF TypeOK, vars, memory, disk, running, history
  <2> QED BY <2>1, <2>2, <2>3, RequestType, PermissionsType, MaintenanceType, ProcessType DEF Next
<1> QED BY InitType, <1>1, PTL DEF Spec

=============================================================================
