----------------------- MODULE RunnerAttempts_safety -----------------------
(***************************************************************************)
(* The safety of the attempt engine, for any number of attempts, requests   *)
(* and permission calls.                                                    *)
(*                                                                          *)
(* Whatever write fails and wherever the process dies: at most one harness  *)
(* child runs and whatever runs is on disk (EngineInv), and what an attempt *)
(* holds (permission, credential, reservation, hook, marks) is owed to it   *)
(* (HoldInv).                                                               *)
(*                                                                          *)
(* While no write fails: memory and disk agree (Settled), so a request is   *)
(* answered once, by what is on disk.  While moreover the process is not    *)
(* killed: a cancelled attempt ends cancelled (Doomed).                     *)
(***************************************************************************)
EXTENDS RunnerAttempts_proofs, FiniteSetTheorems

-----------------------------------------------------------------------------
(* Phases                                                                   *)

\* The phase of every record a handler derives from record r.
LEMMA PatchPhases ==
    ASSUME NEW r \in Record
    PROVE  /\ Starting(r).phase = "starting"
           /\ Cancelling(r).phase = "cancelling"
           /\ \A a, ph : Resumed(a, r, ph).phase = ph
           /\ Answered(r).phase = "running"
           /\ \A kind, s : AfterEvent(r, kind, s).phase = PhaseAfter(kind, r.phase)
           /\ \A s : EventFailed(r, s).phase = "cancelling"
           /\ \A s : WithSession(r, s).phase = r.phase
           /\ \A p : ParkedOn(r, p).phase = "needs_input"
           /\ Abandoned(r).phase = r.phase
           /\ Committed(r).phase = "completed"
           /\ Aged(r).phase = r.phase
           /\ \A h : Hooked(r, h).phase = r.phase
  BY DEF Record, Starting, Cancelling, Resumed, Answered, AfterEvent, EventFailed, WithSession,
         ParkedOn, Abandoned, Committed, Aged, Hooked

\* finishLocked never leaves an attempt accepted, nor any other phase but an end.
LEMMA FinishedPhase ==
    ASSUME NEW r \in Record, NEW phase \in EndPhases, NEW note, NEW logged
    PROVE  Finished(r, phase, note, logged).phase \in EndPhases
  BY DEF Finished, Record, EndPhases

-----------------------------------------------------------------------------
(* Images                                                                   *)

\* The image <<m, o>> of attempts and operations is one the executions e may
\* run on: it holds them live, and every live attempt's start operation.
Covers(m, o, e) ==
    \A b \in Attempts :
        /\ Live(m[b]) => StartOp(b) \in o
        /\ e[b] = "run" => Live(m[b])

\* EngineInv, read as a statement about the two images.
LEMMA InvAsImages ==
    ASSUME DownIsEmpty, RunningIsLive, OneOccupant,
           Covers(att, ops, exec), Covers(dAtt, dOps, exec)
    PROVE  EngineInv
  BY DEF EngineInv, Covers, LiveIsStarted, LaunchIsDurable, Live

\* And back.
LEMMA ImagesOfInv ==
    ASSUME EngineInv
    PROVE  Covers(att, ops, exec) /\ Covers(dAtt, dOps, exec)
  BY DEF EngineInv, Covers, LiveIsStarted, LaunchIsDurable, RunningIsLive, Live, LivePhases, Terminal

\* A save that launches nothing leaves a disk that covers the executions, saved
\* or not; so does a save that succeeds.
LEMMA SaveCovers ==
    ASSUME EngineInv, NEW ok, NEW m, NEW o, SaveImage(ok, m, o), Covers(m, o, exec'),
           ok \/ \A b \in Attempts : exec'[b] = "run" => exec[b] = "run"
    PROVE  Covers(dAtt', dOps', exec')
<1>1. Covers(dAtt, dOps, exec)
  BY ImagesOfInv
<1>2. CASE dAtt' = m /\ dOps' = o
  BY <1>2
<1>3. CASE ~ok /\ dAtt' = dAtt /\ dOps' = dOps
  BY <1>1, <1>3 DEF Covers
<1> QED BY <1>2, <1>3 DEF SaveImage, disk

\* A step that touches only attempt a: what it has to guarantee about a.
LEMMA LocalStep ==
    ASSUME TypeOK, TypeOK', EngineInv, NEW a \in Attempts,
           proc' = proc, proc # "down" \/ exec'[a] = "none",
           \A b \in Attempts \ {a} :
                att'[b] = att[b] /\ exec'[b] = exec[b] /\ gate'[b] = gate[b],
           exec'[a] = "run" => att'[a].phase \in LivePhases /\ gate'[a] # "none",
           exec'[a] = "export" => Live(att'[a]),
           exec'[a] # "run" => gate'[a] = "none",
           exec'[a] = "run" \/ att'[a].phase = "accepted" =>
                Occupies(a) \/ \A b \in Attempts \ {a} : ~Occupies(b),
           ops \subseteq ops',
           Live(att'[a]) => StartOp(a) \in ops',
           Covers(att', ops', exec') => Covers(dAtt', dOps', exec')
    PROVE  EngineInv'
<1>1. DownIsEmpty'
  BY DEF EngineInv, DownIsEmpty
<1>2. RunningIsLive'
  BY DEF EngineInv, RunningIsLive, Present, IsTerminal, Live
<1>3. OneOccupant'
  BY DEF EngineInv, OneOccupant, Occupies
<1>4. Covers(att, ops, exec)
  BY ImagesOfInv
<1>5. Covers(att', ops', exec')
  BY <1>4 DEF Covers, Live, LivePhases, Terminal
<1>6. Covers(dAtt', dOps', exec')
  BY <1>5
<1> QED
  BY <1>1, <1>2, <1>3, <1>5, <1>6
     DEF EngineInv, Covers, LiveIsStarted, LaunchIsDurable, Live

-----------------------------------------------------------------------------
(* Requests                                                                 *)

\* With capacity free no child runs and no attempt waits to be launched: this
\* is what activeCountLocked has to count.
LEMMA FreeIsEmpty ==
    ASSUME TypeOK, EngineInv, CapacityFree
    PROVE  \A b \in Attempts : ~Occupies(b)
  BY DEF TypeOK, EngineInv, RunningIsLive, CapacityFree, Active, Occupies, Present, IsTerminal,
         LivePhases, Terminal

\* Retention takes no executing attempt.
LEMMA PurgedIsIdle ==
    ASSUME NEW m, NEW S \in PurgeSets(m), NEW b \in S
    PROVE  b \in Attempts /\ exec[b] = "none" /\ gate[b] = "none"
  BY DEF PurgeSets, Purgeable

\* Dropping attempts keeps the start operations of the others.
LEMMA PurgeKeeps ==
    ASSUME NEW m \in [Attempts -> Record], NEW o, NEW S, NEW b \in Attempts
    PROVE  /\ Without(m, S)[b] = IF b \in S THEN Absent ELSE m[b]
           /\ b \notin S /\ StartOp(b) \in o => StartOp(b) \in OpsWithout(o, S)
  BY DEF Without, OpsWithout, StartOp

\* Start of a new attempt, with the purge it begins with, keeps the engine's
\* invariant at whichever write it fails.
LEMMA StartAcceptEngine ==
    ASSUME TypeOK, TypeOK', EngineInv, NEW a \in Attempts, StartAccept(a)
    PROVE  EngineInv'
<1>1. PICK S \in PurgeSets(att), end \in Ends({"append", "save", "resave"}) : StartWith(a, S, end)
  BY DEF StartAccept
<1>2. /\ proc' = proc /\ proc = "up"
      /\ exec[a] = "none" /\ gate[a] = "none"
      /\ \A b \in Attempts : ~Occupies(b)
      /\ \A b \in S : exec[b] = "none" /\ gate[b] = "none"
  <2>1. proc' = proc /\ proc = "up" /\ ~Present(a) /\ CapacityFree
    BY DEF StartAccept
  <2>2. exec[a] = "none" /\ gate[a] = "none"
    BY <2>1 DEF EngineInv, RunningIsLive, LivePhases, Present, TypeOK
  <2>3. \A b \in Attempts : ~Occupies(b)
    BY <2>1, FreeIsEmpty
  <2>4. \A b \in S : exec[b] = "none" /\ gate[b] = "none"
    BY PurgedIsIdle
  <2> QED BY <2>1, <2>2, <2>3, <2>4
<1>3. \A b \in Attempts : Without(att, S)[b] = IF b \in S THEN Absent ELSE att[b]
  BY DEF Without
<1>4. Covers(Without(att, S), OpsWithout(ops, S), exec)
  BY <1>2, <1>3, PurgeKeeps, ImagesOfInv DEF Covers, Live, Absent, TypeOK
<1>5. CASE end = "append"
  <2>1. /\ att' = Without(att, S) /\ ops' = OpsWithout(ops, S)
        /\ UNCHANGED <<exec, gate, dAtt, dOps>>
    BY <1>1, <1>5 DEF StartWith, disk, running
  <2>2. DownIsEmpty' /\ OneOccupant'
    BY <1>2, <1>3, <2>1 DEF DownIsEmpty, OneOccupant, Occupies, Absent
  <2>3. RunningIsLive'
    BY <1>2, <1>3, <2>1 DEF EngineInv, RunningIsLive, Present, IsTerminal
  <2>4. Covers(att', ops', exec') /\ Covers(dAtt', dOps', exec')
    BY <1>4, <2>1, ImagesOfInv
  <2> QED BY <2>2, <2>3, <2>4
          DEF EngineInv, Covers, LiveIsStarted, LaunchIsDurable, Live
<1>6. CASE end # "append"
  <2>1. /\ \A b \in Attempts \ {a} : att'[b] = Without(att, S)[b]
        /\ att'[a].phase = IF end = "ok" THEN "starting" ELSE "accepted"
        /\ ops' = OpsWithout(ops, S) \cup {StartOp(a)}
        /\ SaveImage(end # "save", att', ops')
    <3>1. Without(att, S) \in [Attempts -> Record]
      BY PurgeType DEF TypeOK
    <3>2. Accepted(a) \in Record
      BY RecordTypes
    <3> QED BY <1>1, <1>6, <3>1, <3>2 DEF StartWith, Save, Record
  <2>2. /\ \A b \in Attempts \ {a} : exec'[b] = exec[b] /\ gate'[b] = gate[b]
        /\ exec'[a] = (IF end = "ok" THEN "run" ELSE "none")
        /\ gate'[a] = (IF end = "ok" THEN "idle" ELSE "none")
    BY <1>1, <1>2 DEF StartWith, Launch, running, TypeOK
  <2>3. DownIsEmpty'
    BY <1>2 DEF DownIsEmpty
  <2>4. OneOccupant'
    BY <1>2, <1>3, <2>1, <2>2 DEF OneOccupant, Occupies, Absent
  <2>5. RunningIsLive'
    BY <1>2, <1>3, <2>1, <2>2 DEF EngineInv, RunningIsLive, Present, IsTerminal, LivePhases, Terminal
  <2>6. Covers(att', ops', exec')
    BY <1>4, <2>1, <2>2 DEF Covers, Live, Terminal
  <2>7. Covers(dAtt', dOps', exec')
    <3>1. end # "save" \/ \A b \in Attempts : exec'[b] = "run" => exec[b] = "run"
      BY <2>2
    <3> QED BY <2>1, <2>6, <3>1, SaveCovers
  <2> QED BY <2>3, <2>4, <2>5, <2>6, <2>7
          DEF EngineInv, Covers, LiveIsStarted, LaunchIsDurable, Live
<1> QED BY <1>5, <1>6

\* A step that leaves attempts, operations and executions alone, and the disk
\* as it is or equal to the memory.
LEMMA IdleStep ==
    ASSUME TypeOK, TypeOK', EngineInv,
           proc' = proc, att' = att, ops \subseteq ops', exec' = exec,
           \A b \in Attempts : gate'[b] = "none" <=> gate[b] = "none",
           Covers(att', ops', exec') => Covers(dAtt', dOps', exec')
    PROVE  EngineInv'
<1>1. DownIsEmpty' /\ OneOccupant'
  BY DEF EngineInv, DownIsEmpty, OneOccupant, Occupies
<1>2. RunningIsLive'
  BY DEF EngineInv, RunningIsLive, Present, IsTerminal
<1>3. Covers(att', ops', exec')
  BY ImagesOfInv DEF Covers
<1> QED
  BY <1>1, <1>2, <1>3 DEF EngineInv, Covers, LiveIsStarted, LaunchIsDurable, Live

\* A retried start launches only the occupant, and only what it has saved.
LEMMA StartRelaunchEngine ==
    ASSUME TypeOK, TypeOK', EngineInv, NEW a \in Attempts, StartRelaunch(a)
    PROVE  EngineInv'
<1>1. CASE att' = att /\ UNCHANGED running
  <2>1. \/ dAtt' = dAtt /\ dOps' = dOps
        \/ dAtt' = att' /\ dOps' = ops'
    BY DEF StartRelaunch, Save, SaveImage, disk
  <2>2. Covers(att', ops', exec') => Covers(dAtt', dOps', exec')
    BY <1>1, <2>1, ImagesOfInv DEF running
  <2> QED BY <1>1, <2>2, IdleStep DEF StartRelaunch, running
<1>2. CASE ~(att' = att /\ UNCHANGED running)
  <2>1. /\ att' = [att EXCEPT ![a] = Starting(att[a])]
        /\ Launch(a)
        /\ dAtt' = att' /\ dOps' = ops'
    BY <1>2 DEF StartRelaunch, Save, SaveImage, disk
  <2>2. proc' = proc /\ proc = "up" /\ ops' = ops /\ Occupies(a) /\ StartOp(a) \in ops
    BY DEF StartRelaunch, Occupies
  <2>3. att'[a].phase = "starting" /\ exec'[a] = "run" /\ gate'[a] = "idle"
    BY <2>1, PatchPhases DEF Launch, TypeOK
  <2>4. \A b \in Attempts \ {a} : att'[b] = att[b] /\ exec'[b] = exec[b] /\ gate'[b] = gate[b]
    BY <2>1 DEF Launch, TypeOK
  <2> QED BY <2>1, <2>2, <2>3, <2>4, LocalStep DEF LivePhases
<1> QED BY <1>1, <1>2

\* A cancel of an unseen attempt fences an attempt that does not execute.
LEMMA CancelUnseenEngine ==
    ASSUME TypeOK, TypeOK', EngineInv, NEW a \in Attempts, NEW id \in RequestIDs,
           CancelUnseen(a, id)
    PROVE  EngineInv'
<1> DEFINE fenced == [att EXCEPT ![a] = Fence]
           noted == ops \cup {CancelOp(a, id)}
<1>1. /\ proc' = proc /\ proc = "up" /\ UNCHANGED <<exec, gate>>
      /\ exec[a] = "none" /\ gate[a] = "none"
  BY DEF CancelUnseen, running, EngineInv, RunningIsLive, LivePhases, Present, TypeOK
<1>2. Covers(fenced, noted, exec')
  BY <1>1, ImagesOfInv DEF Covers, Live, Fence, Absent, Terminal, TypeOK
<1>3. PICK end \in Ends({"save"}) :
        /\ SaveImage(end = "ok", fenced, noted)
        /\ \/ att' = fenced /\ ops' = noted
           \/ att' = att /\ ops' = ops
  BY DEF CancelUnseen, memory
<1>4. Covers(dAtt', dOps', exec')
  <2> HIDE DEF fenced, noted
  <2> QED BY <1>1, <1>2, <1>3, SaveCovers
<1>5. CASE att' = att /\ ops' = ops
  BY <1>1, <1>4, <1>5, IdleStep
<1>6. CASE att' = fenced /\ ops' = noted
  <2>1. att'[a].phase = "cancelled"
    BY <1>6 DEF Fence, Absent, TypeOK
  <2>2. \A b \in Attempts \ {a} : att'[b] = att[b]
    BY <1>6 DEF TypeOK
  <2> QED BY <1>1, <1>4, <1>6, <2>1, <2>2, LocalStep DEF Live, Terminal
<1> QED BY <1>3, <1>5, <1>6

\* A cancel of a finished attempt only records its operation.
LEMMA CancelFinishedEngine ==
    ASSUME TypeOK, TypeOK', EngineInv, NEW a \in Attempts, NEW id \in RequestIDs,
           CancelFinished(a, id)
    PROVE  EngineInv'
<1>1. PICK end \in Ends({"save"}) : SaveImage(end = "ok", att', ops')
  BY DEF CancelFinished, Save
<1>2. Covers(att', ops', exec') => Covers(dAtt', dOps', exec')
  BY <1>1, SaveCovers DEF CancelFinished, running
<1> QED BY <1>2, IdleStep DEF CancelFinished, running

\* What finishLocked leaves: an end phase in memory, and on disk the memory or
\* the image it met there.
LEMMA FinishEffect ==
    ASSUME TypeOK, NEW a \in Attempts, NEW r \in Record, NEW phase \in EndPhases, NEW note,
           NEW image, Finish(a, r, phase, note, image)
    PROVE  /\ att'[a].phase \in EndPhases
           /\ \A b \in Attempts \ {a} : att'[b] = att[b]
           /\ \/ dAtt' = att' /\ dOps' = ops'
              \/ dAtt' = image.att /\ dOps' = image.ops
<1>1. PICK lost \in SUBSET ({"append", "save", "resave"} \cap Faults) :
        /\ att' = [att EXCEPT ![a] = Finished(r, phase, note, "append" \notin lost)]
        /\ \/ dAtt' = att' /\ dOps' = ops'
           \/ dAtt' = image.att /\ dOps' = image.ops
  BY DEF Finish
<1>2. \A logged : Finished(r, phase, note, logged).phase \in EndPhases
  BY FinishedPhase
<1>3. att'[a] = Finished(r, phase, note, "append" \notin lost)
  BY <1>1 DEF TypeOK
<1>4. att'[a].phase \in EndPhases
  BY <1>2, <1>3
<1> QED BY <1>1, <1>4 DEF TypeOK

\* A cancel of a live attempt, executing or not, keeps the invariant.
LEMMA CancelEngine ==
    ASSUME TypeOK, TypeOK', EngineInv, NEW a \in Attempts, NEW id \in RequestIDs, Cancel(a, id)
    PROVE  EngineInv'
<1> DEFINE r == Cancelling(att[a])
           m == [att EXCEPT ![a] = r]
           image == [att |-> m, ops |-> ops']
<1>1. /\ proc' = proc /\ proc = "up" /\ UNCHANGED <<exec, gate>>
      /\ ops \subseteq ops' /\ Live(att[a]) /\ StartOp(a) \in ops
  BY DEF Cancel, Live, Present, IsTerminal, EngineInv, LiveIsStarted
<1>2. r \in Record /\ r.phase = "cancelling" /\ m[a] = r /\ \A b \in Attempts \ {a} : m[b] = att[b]
  BY PatchTypes, PatchPhases DEF TypeOK
<1>3. Covers(m, ops', exec')
  BY <1>1, <1>2, ImagesOfInv DEF Covers, Live, Terminal
<1>4. PICK end \in Ends({"append", "save"}) :
        IF end = "ok" /\ exec[a] = "none"
        THEN Finish(a, r, "cancelled", {}, image)
        ELSE /\ att' = m
             /\ IF end = "append" THEN UNCHANGED disk ELSE Save(end = "ok")
  BY DEF Cancel
<1>5. CASE end = "ok" /\ exec[a] = "none"
  <2>1. /\ att'[a].phase \in EndPhases
        /\ \A b \in Attempts \ {a} : att'[b] = att[b]
        /\ \/ dAtt' = att' /\ dOps' = ops'
           \/ dAtt' = m /\ dOps' = ops'
    <3>1. Finish(a, r, "cancelled", {}, image) /\ image.att = m /\ image.ops = ops'
      BY <1>4, <1>5
    <3> HIDE DEF r, m, image
    <3> QED BY <1>2, <3>1, FinishEffect DEF EndPhases
  <2>2. gate[a] = "none"
    BY <1>5 DEF EngineInv, RunningIsLive
  <2> HIDE DEF r, m, image
  <2> QED BY <1>1, <1>3, <1>5, <2>1, <2>2, LocalStep DEF EndPhases
<1>6. CASE ~(end = "ok" /\ exec[a] = "none")
  <2>1. att' = m
    BY <1>4, <1>6
  <2>2. CASE end = "append"
    <3>1. dAtt' = dAtt /\ dOps' = dOps
      BY <1>4, <1>6, <2>2 DEF disk
    <3>2. Covers(dAtt', dOps', exec')
      BY <1>1, <3>1, ImagesOfInv
    <3> HIDE DEF r, m, image
    <3> QED BY <1>1, <1>2, <2>1, <3>2, LocalStep DEF EngineInv, RunningIsLive, LivePhases, Live, Occupies, Terminal
  <2>3. CASE end # "append"
    <3>1. SaveImage(end = "ok", m, ops')
      BY <1>4, <1>6, <2>1, <2>3 DEF Save
    <3>2. Covers(dAtt', dOps', exec')
      <4> HIDE DEF r, m, image
      <4> QED BY <1>1, <1>3, <3>1, SaveCovers
    <3> HIDE DEF r, m, image
    <3> QED BY <1>1, <1>2, <2>1, <3>2, LocalStep DEF EngineInv, RunningIsLive, LivePhases, Live, Occupies, Terminal
  <2> QED BY <2>2, <2>3
<1> QED BY <1>5, <1>6

\* A resume occupies the free place, launched or not, and launches only what it
\* has saved.
LEMMA ResumeEngine ==
    ASSUME TypeOK, TypeOK', EngineInv, NEW a \in Attempts, NEW id \in RequestIDs, Resume(a, id)
    PROVE  EngineInv'
<1>1. /\ proc' = proc /\ proc = "up" /\ ops \subseteq ops'
      /\ att[a].phase = "needs_input" /\ CapacityFree
  BY DEF Resume
<1>2. StartOp(a) \in ops'
  BY <1>1 DEF EngineInv, LiveIsStarted, Live, Terminal
<1>3. exec[a] # "run" /\ gate[a] = "none" /\ \A b \in Attempts : ~Occupies(b)
  BY <1>1, FreeIsEmpty DEF EngineInv, RunningIsLive, Occupies
<1>4. PICK end \in Ends({"append", "save", "resave"}) :
        LET launches == end = "ok" /\ exec[a] = "none" IN
        /\ att' = [att EXCEPT ![a] = Resumed(a, @, IF launches THEN "starting" ELSE "accepted")]
        /\ IF end = "append" THEN UNCHANGED disk ELSE Save(end # "save")
        /\ IF launches THEN Launch(a) ELSE UNCHANGED running
  BY DEF Resume, Ends, running
<1>5. \A b \in Attempts \ {a} : att'[b] = att[b] /\ exec'[b] = exec[b] /\ gate'[b] = gate[b]
  BY <1>4 DEF Launch, running, TypeOK
<1>6. /\ att'[a].phase = IF end = "ok" /\ exec[a] = "none" THEN "starting" ELSE "accepted"
      /\ exec'[a] = IF end = "ok" /\ exec[a] = "none" THEN "run" ELSE exec[a]
      /\ gate'[a] = IF end = "ok" /\ exec[a] = "none" THEN "idle" ELSE "none"
  <2>1. \A ph : Resumed(a, att[a], ph).phase = ph
    BY PatchPhases DEF TypeOK
  <2> QED BY <1>3, <1>4, <2>1 DEF Launch, running, TypeOK
<1>7. Covers(att', ops', exec') => Covers(dAtt', dOps', exec')
  <2>1. CASE end = "append"
    BY <1>4, <2>1, ImagesOfInv DEF disk, running
  <2>2. CASE end # "append"
    <3>1. SaveImage(end # "save", att', ops')
      BY <1>4, <2>2 DEF Save
    <3>2. end # "save" \/ \A b \in Attempts : exec'[b] = "run" => exec[b] = "run"
      BY <1>5, <1>6
    <3> QED BY <3>1, <3>2, SaveCovers
  <2> QED BY <2>1, <2>2
<1> QED BY <1>1, <1>2, <1>3, <1>5, <1>6, <1>7, LocalStep DEF LivePhases, Live, Terminal

\* A verdict goes to a turn that still runs.
LEMMA ResumePermissionEngine ==
    ASSUME TypeOK, TypeOK', EngineInv, NEW a \in Attempts, NEW p \in Perms, NEW id \in RequestIDs,
           ResumePermission(a, p, id)
    PROVE  EngineInv'
<1>1. /\ proc' = proc /\ proc = "up" /\ ops \subseteq ops' /\ exec' = exec
      /\ att[a].phase = "needs_input" /\ gate[a] = p /\ gate' = [gate EXCEPT ![a] = "idle"]
      /\ att' = [att EXCEPT ![a] = Answered(att[a])]
  BY DEF ResumePermission
<1>2. exec[a] = "run" /\ StartOp(a) \in ops
  BY <1>1, ConstantsAssumption DEF EngineInv, RunningIsLive, LiveIsStarted, Live, Terminal
<1>3. /\ att'[a].phase = "running" /\ gate'[a] = "idle"
      /\ \A b \in Attempts \ {a} : att'[b] = att[b] /\ gate'[b] = gate[b]
  BY <1>1, PatchPhases DEF TypeOK
<1>4. Covers(att', ops, exec')
  BY <1>1, <1>2, <1>3, ImagesOfInv DEF Covers, Live, Terminal
<1>5. \/ dAtt' = dAtt /\ dOps' = dOps
      \/ dAtt' = att' /\ dOps' \in {ops, ops'}
  BY DEF ResumePermission, Save, SaveImage, disk
<1>6. Covers(att', ops', exec') => Covers(dAtt', dOps', exec')
  BY <1>1, <1>4, <1>5, ImagesOfInv
<1> QED BY <1>1, <1>2, <1>3, <1>6, LocalStep DEF LivePhases, Occupies

\* Every request keeps the engine's invariant.
LEMMA RequestEngine ==
    ASSUME TypeOK, TypeOK', EngineInv, NEW a \in Attempts, Requests(a) PROVE EngineInv'
  BY StartAcceptEngine, StartRelaunchEngine, CancelUnseenEngine, CancelFinishedEngine, CancelEngine,
     ResumeEngine, ResumePermissionEngine DEF Requests

-----------------------------------------------------------------------------
(* Executions                                                               *)

\* A harness event leaves a live phase, also the one that fails its attempt.
LEMMA EventEngine ==
    ASSUME TypeOK, TypeOK', EngineInv, NEW a \in Attempts, NEW s \in SUBSET {"session"},
           \/ \E kind \in {"progress", "needs_input", "cancelled", "other"} : HarnessEvent(a, kind, s)
           \/ HarnessEventFails(a, s)
    PROVE  EngineInv'
<1>1. /\ proc' = proc /\ ops' = ops /\ exec' = exec /\ gate' = gate /\ exec[a] = "run"
      /\ \A b \in Attempts \ {a} : att'[b] = att[b]
  BY DEF HarnessEvent, HarnessEventFails, running, TypeOK
<1>2. att[a].phase \in LivePhases /\ gate[a] # "none" /\ proc # "down" /\ StartOp(a) \in ops
  BY <1>1 DEF EngineInv, RunningIsLive, DownIsEmpty, LiveIsStarted, Live, LivePhases, Terminal
<1>3. att'[a].phase \in LivePhases
  <2>1. CASE HarnessEventFails(a, s)
    <3>1. att'[a] = EventFailed(att[a], s)
      BY <2>1 DEF HarnessEventFails, TypeOK
    <3>2. EventFailed(att[a], s).phase = "cancelling"
      BY PatchPhases DEF TypeOK
    <3> QED BY <3>1, <3>2 DEF LivePhases
  <2>2. ASSUME NEW kind \in {"progress", "needs_input", "cancelled", "other"}, HarnessEvent(a, kind, s)
        PROVE  att'[a].phase \in LivePhases
    <3>1. att'[a] = AfterEvent(att[a], kind, s)
      BY <2>2 DEF HarnessEvent, TypeOK
    <3>2. AfterEvent(att[a], kind, s).phase = PhaseAfter(kind, att[a].phase)
      BY PatchPhases DEF TypeOK
    <3> QED BY <1>2, <3>1, <3>2 DEF LivePhases, PhaseAfter
  <2> QED BY <2>1, <2>2
<1>4. \/ dAtt' = dAtt /\ dOps' = dOps
      \/ dAtt' = att' /\ dOps' = ops'
  BY DEF HarnessEvent, HarnessEventFails, Save, SaveImage, disk
<1>5. Covers(att', ops', exec') => Covers(dAtt', dOps', exec')
  BY <1>1, <1>4, ImagesOfInv
<1> QED BY <1>1, <1>2, <1>3, <1>5, LocalStep DEF Occupies, LivePhases

\* An image that covered the executions still covers the ones that are left.
LEMMA FewerExecutions ==
    ASSUME NEW m, NEW o, Covers(m, o, exec),
           \A b \in Attempts : exec'[b] = "run" => exec[b] = "run"
    PROVE  Covers(m, o, exec')
  BY DEF Covers

\* The end of the adapter's run ends the execution, or leaves an export of a
\* live attempt.
LEMMA ExecEndEngine ==
    ASSUME TypeOK, TypeOK', EngineInv, NEW a \in Attempts, NEW result \in Results,
           NEW s \in SUBSET {"session"}, ExecEnd(a, result, s)
    PROVE  EngineInv'
<1> DEFINE r == WithSession(att[a], s)
<1>1. /\ proc' = proc /\ ops' = ops /\ exec[a] = "run" /\ gate'[a] = "none"
      /\ exec'[a] \in {"none", "export"}
      /\ \A b \in Attempts \ {a} : exec'[b] = exec[b] /\ gate'[b] = gate[b]
  BY DEF ExecEnd, TypeOK
<1>2. att[a].phase \in LivePhases /\ proc # "down" /\ StartOp(a) \in ops
  BY <1>1 DEF EngineInv, RunningIsLive, DownIsEmpty, LiveIsStarted, Live, LivePhases, Terminal
<1>3. r \in Record /\ r.phase = att[a].phase
  <2>1. att[a] \in Record
    BY DEF TypeOK
  <2>2. r \in Record
    BY <2>1, PatchTypes
  <2>3. r.phase = att[a].phase
    BY <2>1, PatchPhases
  <2> QED BY <2>2, <2>3
<1>4. Covers(dAtt, dOps, exec')
  BY <1>1, ImagesOfInv, FewerExecutions
<1>5. CASE exec'[a] = "export"
  <2>1. att' = [att EXCEPT ![a] = r] /\ dAtt' = dAtt /\ dOps' = dOps
    BY <1>5 DEF ExecEnd, disk, TypeOK
  <2>2. att'[a] = r /\ \A b \in Attempts \ {a} : att'[b] = att[b]
    BY <2>1 DEF TypeOK
  <2> HIDE DEF r
  <2> QED BY <1>1, <1>2, <1>3, <1>4, <1>5, <2>1, <2>2, LocalStep DEF Live, LivePhases, Terminal
<1>6. CASE exec'[a] = "none"
  <2>1. PICK note : Finish(a, r, Outcome(a, result), note, OnDisk)
    BY <1>6 DEF ExecEnd, TypeOK
  <2>2. /\ att'[a].phase \in EndPhases
        /\ \A b \in Attempts \ {a} : att'[b] = att[b]
        /\ \/ dAtt' = att' /\ dOps' = ops'
           \/ dAtt' = dAtt /\ dOps' = dOps
    <3>1. OnDisk.att = dAtt /\ OnDisk.ops = dOps
      BY DEF OnDisk
    <3> HIDE DEF r
    <3> QED BY <1>3, <2>1, <3>1, OutcomeType, FinishEffect
  <2> HIDE DEF r
  <2> QED BY <1>1, <1>2, <1>4, <1>6, <2>2, LocalStep DEF EndPhases
<1> QED BY <1>1, <1>5, <1>6

\* Both ends of an export end the execution.
LEMMA ExportEngine ==
    ASSUME TypeOK, TypeOK', EngineInv, NEW a \in Attempts, ExportEnd(a) \/ ExportCommit(a)
    PROVE  EngineInv'
<1> DEFINE done == [att |-> [att EXCEPT ![a] = Committed(att[a])], ops |-> ops]
<1>1. /\ proc' = proc /\ ops' = ops /\ exec[a] = "export" /\ exec'[a] = "none" /\ gate' = gate
      /\ \A b \in Attempts \ {a} : exec'[b] = exec[b]
  BY DEF ExportEnd, ExportCommit, TypeOK
<1>2. Live(att[a]) /\ gate[a] = "none" /\ StartOp(a) \in ops /\ att[a] \in Record
  BY <1>1 DEF EngineInv, RunningIsLive, LiveIsStarted, Live, Present, IsTerminal, TypeOK
<1>3. Covers(OnDisk.att, OnDisk.ops, exec')
  <2>1. Covers(dAtt, dOps, exec')
    BY <1>1, ImagesOfInv, FewerExecutions
  <2> QED BY <2>1 DEF OnDisk
<1>4. Covers(done.att, done.ops, exec')
  <2>1. done.att[a].phase = "completed" /\ \A b \in Attempts \ {a} : done.att[b] = att[b]
    BY <1>2, PatchPhases DEF TypeOK
  <2> QED BY <1>1, <2>1, ImagesOfInv DEF Covers, Live, Terminal
<1>5. ASSUME NEW phase \in EndPhases, NEW note, NEW image \in {OnDisk, done},
             Finish(a, att[a], phase, note, image)
      PROVE  EngineInv'
  <2>1. Covers(image.att, image.ops, exec')
    BY <1>3, <1>4
  <2> HIDE DEF done
  <2>2. /\ att'[a].phase \in EndPhases
        /\ \A b \in Attempts \ {a} : att'[b] = att[b]
        /\ \/ dAtt' = att' /\ dOps' = ops'
           \/ dAtt' = image.att /\ dOps' = image.ops
    BY <1>2, <1>5, FinishEffect
  <2> QED BY <1>1, <1>2, <2>1, <2>2, LocalStep DEF EndPhases
<1>6. CASE att' = done.att /\ dAtt' = att' /\ dOps' = ops'
  <2>1. att'[a].phase = "completed" /\ \A b \in Attempts \ {a} : att'[b] = att[b]
    BY <1>2, <1>6, PatchPhases DEF TypeOK
  <2> HIDE DEF done
  <2> QED BY <1>1, <1>2, <1>6, <2>1, LocalStep
<1>7. CASE ExportEnd(a)
  <2> HIDE DEF done
  <2> QED BY <1>5, <1>7 DEF ExportEnd, EndPhases
<1>8. CASE ExportCommit(a)
  <2>1. \/ att' = done.att /\ Save(TRUE)
        \/ \E image \in {OnDisk, done} : Finish(a, att[a], "failed", {"error"}, image)
    BY <1>8 DEF ExportCommit
  <2>2. CASE att' = done.att /\ Save(TRUE)
    <3>1. dAtt' = att' /\ dOps' = ops'
      BY <2>2 DEF Save, SaveImage
    <3> QED BY <1>6, <2>2, <3>1
  <2> HIDE DEF done
  <2> QED BY <1>5, <2>1, <2>2 DEF EndPhases
<1> QED BY <1>7, <1>8

\* The steps of a permission call change no phase but that of a running turn.
LEMMA PermissionsEngine ==
    ASSUME TypeOK, TypeOK', EngineInv, NEW a \in Attempts, NEW p \in Perms, Permissions(a, p)
    PROVE  EngineInv'
<1>1. CASE ParkOnPermission(a, p)
  <2>1. /\ proc' = proc /\ ops' = ops /\ exec' = exec /\ gate[a] # "none"
        /\ att' = [att EXCEPT ![a] = ParkedOn(att[a], p)]
        /\ gate'[a] # "none"
        /\ \A b \in Attempts \ {a} : att'[b] = att[b] /\ gate'[b] = gate[b]
        /\ \/ dAtt' = dAtt /\ dOps' = dOps
           \/ dAtt' = att' /\ dOps' = ops'
    BY <1>1, ConstantsAssumption DEF ParkOnPermission, Save, SaveImage, disk, TypeOK
  <2>2. exec[a] = "run" /\ proc # "down" /\ StartOp(a) \in ops
    BY <2>1 DEF EngineInv, RunningIsLive, DownIsEmpty, LiveIsStarted, Live, LivePhases, Terminal
  <2>3. att'[a].phase = "needs_input"
    BY <2>1, PatchPhases DEF TypeOK
  <2>4. Covers(att', ops', exec') => Covers(dAtt', dOps', exec')
    BY <2>1, ImagesOfInv
  <2> QED BY <2>1, <2>2, <2>3, <2>4, LocalStep DEF LivePhases, Occupies
<1>2. CASE AbandonPermission(a, p)
  <2>1. /\ proc' = proc /\ ops' = ops /\ exec' = exec
        /\ gate'[a] = "none" <=> gate[a] = "none"
        /\ \/ att' = att
           \/ att' = [att EXCEPT ![a] = Abandoned(att[a])]
        /\ \A b \in Attempts \ {a} : att'[b] = att[b] /\ gate'[b] = gate[b]
        /\ \/ dAtt' = dAtt /\ dOps' = dOps
           \/ dAtt' = att' /\ dOps' = ops'
    BY <1>2 DEF AbandonPermission, Save, SaveImage, disk, TypeOK
  <2>2. att'[a].phase = att[a].phase
    BY <2>1, PatchPhases DEF TypeOK
  <2>3. Covers(att', ops', exec') => Covers(dAtt', dOps', exec')
    BY <2>1, ImagesOfInv
  <2> QED BY <2>1, <2>2, <2>3, LocalStep
      DEF EngineInv, RunningIsLive, DownIsEmpty, LiveIsStarted, Live, Present, IsTerminal, Occupies
<1>3. CASE AskPermission(a, p) \/ ParkRefused(a, p) \/ TakeVerdict(a, p) \/ CallEnds(a, p)
  <2>1. UNCHANGED <<proc, att, ops, dAtt, dOps, exec, gate>>
    BY <1>3 DEF AskPermission, ParkRefused, TakeVerdict, CallEnds, memory, disk, running
  <2> QED BY <2>1, ImagesOfInv, IdleStep
<1> QED BY <1>1, <1>2, <1>3 DEF Permissions

-----------------------------------------------------------------------------
(* Maintenance and the process                                              *)

\* The end of a hook and the passing of time change no phase.
LEMMA MaintenanceEngine ==
    ASSUME TypeOK, TypeOK', EngineInv, NEW a \in Attempts, Maintenance(a) PROVE EngineInv'
<1>1. ASSUME NEW result \in {"owed", "settled"}, HookEnds(a, result) PROVE EngineInv'
  <2>1. /\ proc' = proc /\ ops' = ops /\ exec' = exec /\ gate' = gate
        /\ att' = [att EXCEPT ![a] = Hooked(att[a], result)]
        /\ \A b \in Attempts \ {a} : att'[b] = att[b]
        /\ \/ dAtt' = dAtt /\ dOps' = dOps
           \/ dAtt' = att' /\ dOps' = ops'
    BY <1>1 DEF HookEnds, Save, SaveImage, disk, running, TypeOK
  <2>2. att'[a].phase = att[a].phase
    <3>1. Hooked(att[a], result).phase = att[a].phase
      BY PatchPhases DEF TypeOK
    <3> QED BY <2>1, <3>1 DEF TypeOK
  <2>3. Covers(att', ops', exec') => Covers(dAtt', dOps', exec')
    BY <2>1, ImagesOfInv
  <2> QED BY <2>1, <2>2, <2>3, LocalStep
      DEF EngineInv, RunningIsLive, DownIsEmpty, LiveIsStarted, Live, Present, IsTerminal, Occupies
<1>2. CASE Age(a)
  <2>1. /\ UNCHANGED <<proc, ops, dOps, exec, gate>>
        /\ att' = [att EXCEPT ![a] = Aged(att[a])]
        /\ dAtt' = [dAtt EXCEPT ![a] = Aged(dAtt[a])]
    BY <1>2 DEF Age, running
  <2>2. \A b \in Attempts : att'[b].phase = att[b].phase /\ dAtt'[b].phase = dAtt[b].phase
    BY <2>1, PatchPhases DEF TypeOK
  <2> QED BY <2>1, <2>2
      DEF EngineInv, DownIsEmpty, RunningIsLive, OneOccupant, Occupies, LiveIsStarted, LaunchIsDurable,
          Live, Present, IsTerminal
<1> QED BY <1>1, <1>2 DEF Maintenance

\* The sweep drops what does not execute.
LEMMA SweepEngine ==
    ASSUME TypeOK, TypeOK', EngineInv, Sweep PROVE EngineInv'
<1>1. PICK S \in PurgeSets(att) : att' = Without(att, S) /\ ops' = OpsWithout(ops, S)
  BY DEF Sweep
<1>2. /\ UNCHANGED <<proc, exec, gate>> /\ proc = "up"
      /\ \A b \in S : exec[b] = "none" /\ gate[b] = "none"
  BY DEF Sweep, running, PurgeSets, Purgeable
<1>3. \A b \in Attempts : att'[b] = IF b \in S THEN Absent ELSE att[b]
  BY <1>1 DEF Without
<1>4. Covers(att', ops', exec')
  <2>1. \A b \in Attempts \ S : StartOp(b) \in ops => StartOp(b) \in ops'
    BY <1>1 DEF OpsWithout, StartOp
  <2> QED BY <1>2, <1>3, <2>1, ImagesOfInv DEF Covers, Live, Absent
<1>5. Covers(dAtt', dOps', exec')
  <2>1. PICK end \in Ends({"save"}) : SaveImage(end = "ok", att', ops')
    BY DEF Sweep, Save
  <2> QED BY <1>2, <1>4, <2>1, SaveCovers
<1>6. DownIsEmpty' /\ OneOccupant'
  BY <1>2, <1>3 DEF EngineInv, DownIsEmpty, OneOccupant, Occupies, Absent
<1>7. RunningIsLive'
  BY <1>2, <1>3 DEF EngineInv, RunningIsLive, Present, IsTerminal
<1> QED BY <1>4, <1>5, <1>6, <1>7 DEF EngineInv, Covers, LiveIsStarted, LaunchIsDurable, Live

\* The end of the process leaves nothing running and the disk as it was.
LEMMA DiesEngine ==
    ASSUME TypeOK, EngineInv, Dies PROVE EngineInv'
<1>1. /\ \A a \in Attempts : exec'[a] = "none" /\ gate'[a] = "none" /\ att'[a] = Absent
      /\ dAtt' = dAtt /\ dOps' = dOps
  BY DEF Dies, disk
<1> QED BY <1>1
    DEF EngineInv, DownIsEmpty, RunningIsLive, OneOccupant, Occupies, LiveIsStarted, LaunchIsDurable,
        Live, Absent

\* New recovers every in-flight attempt to a parked one, so that no attempt of
\* the file waits to be launched.
LEMMA RestartEngine ==
    ASSUME TypeOK, TypeOK', EngineInv, Restart PROVE EngineInv'
<1> DEFINE m == [a \in Attempts |-> Recovered(dAtt[a])]
<1>1. PICK S \in PurgeSets(m) : att' = Without(m, S) /\ ops' = OpsWithout(dOps, S)
  BY DEF Restart
<1>2. /\ \A b \in Attempts : exec[b] = "none" /\ gate[b] = "none"
      /\ proc' = "up" /\ exec' = exec /\ gate' = gate
      /\ dAtt' = att' /\ dOps' = ops'
  BY DEF Restart, running, EngineInv, DownIsEmpty, RunningIsLive, Save, SaveImage
<1>3. \A b \in Attempts :
        /\ Recovered(dAtt[b]).phase # "accepted"
        /\ Live(Recovered(dAtt[b])) => Live(dAtt[b])
  BY DEF Recovered, Live, Terminal, TypeOK, Record, Phases
<1>4. \A b \in Attempts : att'[b] = IF b \in S THEN Absent ELSE Recovered(dAtt[b])
  BY <1>1 DEF Without
<1>5. \A b \in Attempts \ S : StartOp(b) \in dOps => StartOp(b) \in ops'
  BY <1>1 DEF OpsWithout, StartOp
<1>6. Covers(att', ops', exec')
  BY <1>2, <1>3, <1>4, <1>5, ImagesOfInv DEF Covers, Live, Absent
<1>7. DownIsEmpty' /\ OneOccupant' /\ RunningIsLive'
  BY <1>2, <1>3, <1>4 DEF DownIsEmpty, OneOccupant, Occupies, RunningIsLive, Absent
<1> QED BY <1>2, <1>6, <1>7 DEF EngineInv, Covers, LiveIsStarted, LaunchIsDurable, Live

\* Sweep, Close, its end, a crash and New keep the engine's invariant.
LEMMA ProcessEngine ==
    ASSUME TypeOK, TypeOK', EngineInv, Process PROVE EngineInv'
<1>1. CASE Close
  <2>1. proc' # "down" /\ UNCHANGED <<att, ops, dAtt, dOps, exec, gate>>
    BY <1>1 DEF Close, memory, disk
  <2> QED BY <2>1
      DEF EngineInv, DownIsEmpty, RunningIsLive, OneOccupant, Occupies, LiveIsStarted, LaunchIsDurable,
          Live, Present, IsTerminal
<1> QED BY <1>1, SweepEngine, DiesEngine, RestartEngine DEF Process, CloseDone, Crash

-----------------------------------------------------------------------------
(* Theorems                                                                 *)

\* EngineInv holds in every reachable state: it holds initially, and every
\* request, callback, export, sweep, crash and restart preserves it.
THEOREM EngineSafe == Spec => []EngineInv
<1>1. Init => EngineInv
  BY DEF Init, EngineInv, DownIsEmpty, RunningIsLive, OneOccupant, Occupies, LiveIsStarted,
         LaunchIsDurable, Live, Absent
<1>2. TypeOK /\ TypeOK' /\ EngineInv /\ [Next]_vars => EngineInv'
  <2> SUFFICES ASSUME TypeOK, TypeOK', EngineInv, [Next]_vars PROVE EngineInv'
    OBVIOUS
  <2>1. ASSUME NEW a \in Attempts, Execution(a) PROVE EngineInv'
    <3>1. CASE ClockExpires(a)
      <4>1. UNCHANGED <<proc, att, ops, dAtt, dOps, exec, gate>>
        BY <3>1 DEF ClockExpires, memory, disk
      <4> QED BY <4>1, ImagesOfInv, IdleStep
    <3> QED BY <2>1, <3>1, EventEngine, ExecEndEngine, ExportEngine DEF Execution
  <2>2. ASSUME NEW op \in Operations, Replay(op) PROVE EngineInv'
    <3>1. UNCHANGED <<proc, att, ops, dAtt, dOps, exec, gate>>
      BY <2>2 DEF Replay, memory, disk, running
    <3> QED BY <3>1, ImagesOfInv, IdleStep
  <2>3. CASE UNCHANGED vars
    <3>1. UNCHANGED <<proc, att, ops, dAtt, dOps, exec, gate>>
      BY <2>3 DEF vars, memory, disk, running
    <3> QED BY <3>1, ImagesOfInv, IdleStep
  <2> QED BY <2>1, <2>2, <2>3, RequestEngine, PermissionsEngine, MaintenanceEngine, ProcessEngine
      DEF Next
<1> QED BY <1>1, <1>2, TypeCorrect, PTL DEF Spec

\* MaximumCapacity: at most one harness child runs, whatever starts, retries,
\* resumes, parks, exports, sweeps, failing writes, crashes and restarts come.
THEOREM AtMostOneChild == Spec => []OneChild
<1>1. EngineInv => OneChild
  BY DEF EngineInv, OneOccupant, Occupies, OneChild
<1> QED BY <1>1, EngineSafe, PTL

\* Start and Resume launch only what is on disk.
THEOREM LaunchesAreDurable == Spec => []LaunchIsDurable
<1>1. EngineInv => LaunchIsDurable
  BY DEF EngineInv
<1> QED BY <1>1, EngineSafe, PTL

\* finishLocked never meets a terminal attempt, retention never an executing
\* one, and a permission gate is open exactly while the adapter runs.
THEOREM RunningStaysLive == Spec => []RunningIsLive
<1>1. EngineInv => RunningIsLive
  BY DEF EngineInv
<1> QED BY <1>1, EngineSafe, PTL

-----------------------------------------------------------------------------
(* The work clock                                                           *)

\* Every step keeps the clock's and the gate's states together: a launch, the
\* end of a turn and a crash set both, a park pauses what a verdict, an
\* abandonment or a failed park starts again.
LEMMA ClockStep ==
    ASSUME TypeOK, ClockStopsWhileParked, [Next]_vars PROVE ClockStopsWhileParked'
<1> USE ConstantsAssumption
<1>1. CASE UNCHANGED <<gate, clock>>
  BY <1>1 DEF ClockStopsWhileParked
<1>2. ASSUME NEW a \in Attempts, Launch(a) PROVE ClockStopsWhileParked'
  BY <1>2 DEF Launch, ClockStopsWhileParked, TypeOK
<1>3. ASSUME NEW a \in Attempts, NEW result \in Results, NEW s, ExecEnd(a, result, s)
      PROVE  ClockStopsWhileParked'
  BY <1>3 DEF ExecEnd, ClockStopsWhileParked, TypeOK
<1>4. ASSUME NEW a \in Attempts, ClockExpires(a) PROVE ClockStopsWhileParked'
  BY <1>4 DEF ClockExpires, ClockStopsWhileParked, TypeOK
<1>5. ASSUME NEW a \in Attempts, NEW p \in Perms, NEW id \in RequestIDs, ResumePermission(a, p, id)
      PROVE  ClockStopsWhileParked'
  BY <1>5 DEF ResumePermission, Unpaused, ClockStopsWhileParked, TypeOK
<1>6. ASSUME NEW a \in Attempts, NEW p \in Perms, ParkOnPermission(a, p)
      PROVE  ClockStopsWhileParked'
  BY <1>6 DEF ParkOnPermission, Paused, Unpaused, ClockStopsWhileParked, TypeOK
<1>7. ASSUME NEW a \in Attempts, NEW p \in Perms, AbandonPermission(a, p)
      PROVE  ClockStopsWhileParked'
  BY <1>7 DEF AbandonPermission, Unpaused, ClockStopsWhileParked, TypeOK
<1>8. CASE Dies
  BY <1>8 DEF Dies, ClockStopsWhileParked
<1>9. ASSUME NEW a \in Attempts, Requests(a) PROVE ClockStopsWhileParked'
  <2>1. ASSUME StartAccept(a) \/ StartRelaunch(a) \/ \E id \in RequestIDs : Resume(a, id)
        PROVE  Launch(a) \/ UNCHANGED <<gate, clock>>
    BY <2>1 DEF StartAccept, StartWith, StartRelaunch, Resume, running
  <2>2. ASSUME NEW id \in RequestIDs, CancelUnseen(a, id) \/ CancelFinished(a, id) \/ Cancel(a, id)
        PROVE  UNCHANGED <<gate, clock>>
    BY <2>2 DEF CancelUnseen, CancelFinished, Cancel, running
  <2> QED BY <1>1, <1>2, <1>5, <1>9, <2>1, <2>2 DEF Requests
<1>10. ASSUME NEW a \in Attempts, Execution(a) PROVE ClockStopsWhileParked'
  <2>1. ASSUME NEW s, \/ \E kind \in {"progress", "needs_input", "cancelled", "other"} :
                            HarnessEvent(a, kind, s)
                     \/ HarnessEventFails(a, s)
        PROVE  UNCHANGED <<gate, clock>>
    BY <2>1 DEF HarnessEvent, HarnessEventFails, running
  <2>2. ASSUME ExportEnd(a) \/ ExportCommit(a) PROVE UNCHANGED <<gate, clock>>
    BY <2>2 DEF ExportEnd, ExportCommit
  <2> QED BY <1>1, <1>3, <1>4, <1>10, <2>1, <2>2 DEF Execution
<1>11. ASSUME NEW a \in Attempts, NEW p \in Perms, Permissions(a, p) PROVE ClockStopsWhileParked'
  <2>1. ASSUME AskPermission(a, p) \/ ParkRefused(a, p) \/ TakeVerdict(a, p) \/ CallEnds(a, p)
        PROVE  UNCHANGED <<gate, clock>>
    BY <2>1 DEF AskPermission, ParkRefused, TakeVerdict, CallEnds, running
  <2> QED BY <1>1, <1>6, <1>7, <1>11, <2>1 DEF Permissions
<1>12. ASSUME NEW a \in Attempts, Maintenance(a) PROVE ClockStopsWhileParked'
  BY <1>1, <1>12 DEF Maintenance, HookEnds, Age, running
<1>13. CASE Process
  BY <1>1, <1>8, <1>13 DEF Process, Sweep, Close, CloseDone, Crash, Restart, running
<1>14. ASSUME NEW op \in Operations, Replay(op) PROVE ClockStopsWhileParked'
  BY <1>1, <1>14 DEF Replay, running
<1>15. CASE UNCHANGED vars
  BY <1>1, <1>15 DEF vars, running
<1> QED BY <1>9, <1>10, <1>11, <1>12, <1>13, <1>14, <1>15 DEF Next

\* The duration limit bounds work and not waiting, whatever the order in which
\* parks, verdicts, abandoned calls, failed writes and the clock itself come.
THEOREM ClockStandsWhileParked == Spec => []ClockStopsWhileParked
<1>1. Init => ClockStopsWhileParked
  BY ConstantsAssumption DEF Init, ClockStopsWhileParked
<1> QED BY <1>1, ClockStep, TypeCorrect, PTL DEF Spec

-----------------------------------------------------------------------------
(* What the engine holds, and what an image remembers                       *)

Holders(m) == {a \in Attempts : "holds" \in m[a].flags}

\* A cancelled attempt is over, or marked, or was resumed later.
Cancelled(r, a, o) ==
    \/ r.phase \in Terminal \cup {"absent"}
    \/ "cancelPending" \in r.flags
    \/ \E later \in RequestIDs : ResumeOp(a, later) \in o

Fits(m) == Cardinality(Holders(m)) <= ResourceCapacity
Rooted(m, o) == \A op \in o : m[op.attempt].phase # "absent"
Remembers(m, o) ==
    \A a \in Attempts, id \in RequestIDs : CancelOp(a, id) \in o => Cancelled(m[a], a, o)

\* An image of attempts and operations, in memory or on disk: the resource is not
\* overcommitted, no operation is orphaned and no recorded cancel is forgotten.
ImageOK(m, o) == Fits(m) /\ Rooted(m, o) /\ Remembers(m, o)

\* What is held in memory on behalf of attempt a.
Own(a) ==
    /\ a \in Users /\ Occupies(a) => "holds" \in att[a].flags
    /\ a \in creds \cup hooks \cup shutdown => Present(a)
    /\ exec[a] = "export" => a \in Exports
    /\ a \in creds /\ exec[a] = "none" =>
            att[a].phase \notin Terminal \cup {"needs_input"} \/ CommittedExport(a)
    /\ att[a].perm # NoPerm => exec[a] \in {"run", "export"} \/ CommittedExport(a)
    /\ gate[a] \in Perms => att[a].perm = gate[a]

Held ==
    /\ \A a \in Attempts : Own(a)
    /\ proc = "down" => creds = {} /\ hooks = {} /\ shutdown = {}

HoldInv == ImageOK(att, ops) /\ ImageOK(dAtt, dOps) /\ Held

\* Record f is r, as far as what it holds and remembers goes.
Alike(r, f) ==
    /\ "holds" \in f.flags <=> "holds" \in r.flags
    /\ "cancelPending" \in f.flags <=> "cancelPending" \in r.flags

\* What the patches do to the permission request and to the flags that matter.
LEMMA PatchFlags ==
    ASSUME NEW r \in Record
    PROVE  /\ Alike(r, Starting(r)) /\ Starting(r).perm = r.perm
           /\ "holds" \in Cancelling(r).flags <=> "holds" \in r.flags
           /\ "cancelPending" \in Cancelling(r).flags /\ Cancelling(r).perm = r.perm
           /\ Alike(r, Answered(r)) /\ Answered(r).perm = NoPerm
           /\ \A kind, s : s \in SUBSET {"session"} =>
                 Alike(r, AfterEvent(r, kind, s)) /\ AfterEvent(r, kind, s).perm = r.perm
           /\ \A s : s \in SUBSET {"session"} =>
                 /\ "holds" \in EventFailed(r, s).flags <=> "holds" \in r.flags
                 /\ "cancelPending" \in EventFailed(r, s).flags /\ EventFailed(r, s).perm = r.perm
                 /\ Alike(r, WithSession(r, s)) /\ WithSession(r, s).perm = r.perm
           /\ \A p : Alike(r, ParkedOn(r, p)) /\ ParkedOn(r, p).perm = p
           /\ Alike(r, Abandoned(r)) /\ Abandoned(r).perm = NoPerm
           /\ "holds" \notin Committed(r).flags
           /\ "cancelPending" \in Committed(r).flags <=> "cancelPending" \in r.flags
           /\ Committed(r).perm = r.perm
           /\ Alike(r, Aged(r)) /\ Aged(r).perm = r.perm
           /\ \A h : Alike(r, Hooked(r, h)) /\ Hooked(r, h).perm = r.perm
           /\ Alike(r, Recovered(r)) /\ Recovered(r).perm = NoPerm
<1> USE DEF Record, Alike
<1>1. /\ Alike(r, Starting(r)) /\ Starting(r).perm = r.perm
      /\ "holds" \in Cancelling(r).flags <=> "holds" \in r.flags
      /\ "cancelPending" \in Cancelling(r).flags /\ Cancelling(r).perm = r.perm
  BY DEF Starting, Cancelling
<1>2. Alike(r, Answered(r)) /\ Answered(r).perm = NoPerm
  BY DEF Answered
<1>3. \A kind, s : s \in SUBSET {"session"} =>
         Alike(r, AfterEvent(r, kind, s)) /\ AfterEvent(r, kind, s).perm = r.perm
  BY DEF AfterEvent
<1>4. \A s : s \in SUBSET {"session"} =>
         /\ "holds" \in EventFailed(r, s).flags <=> "holds" \in r.flags
         /\ "cancelPending" \in EventFailed(r, s).flags /\ EventFailed(r, s).perm = r.perm
  BY DEF EventFailed
<1>5. \A s : s \in SUBSET {"session"} =>
         Alike(r, WithSession(r, s)) /\ WithSession(r, s).perm = r.perm
  BY DEF WithSession
<1>6. \A p : Alike(r, ParkedOn(r, p)) /\ ParkedOn(r, p).perm = p
  BY DEF ParkedOn
<1>7. Alike(r, Abandoned(r)) /\ Abandoned(r).perm = NoPerm
  BY DEF Abandoned
<1>8. /\ "holds" \notin Committed(r).flags
      /\ "cancelPending" \in Committed(r).flags <=> "cancelPending" \in r.flags
      /\ Committed(r).perm = r.perm
  BY DEF Committed
<1>9. /\ Alike(r, Aged(r)) /\ Aged(r).perm = r.perm
      /\ \A h : Alike(r, Hooked(r, h)) /\ Hooked(r, h).perm = r.perm
  BY DEF Aged, Hooked
<1>10. Alike(r, Recovered(r)) /\ Recovered(r).perm = NoPerm
  BY DEF Recovered
<1> QED BY <1>1, <1>2, <1>3, <1>4, <1>5, <1>6, <1>7, <1>8, <1>9, <1>10

\* The records that Start, a cancel of an unseen attempt, Resume and finishLocked make.
LEMMA MadeFlags ==
    ASSUME NEW r \in Record, NEW a \in Attempts
    PROVE  /\ Absent.flags = {} /\ Absent.perm = NoPerm /\ Absent.phase = "absent"
           /\ Accepted(a).perm = NoPerm
           /\ "holds" \in Accepted(a).flags <=> a \in Users
           /\ Fence.perm = NoPerm /\ "holds" \notin Fence.flags /\ Fence.phase = "cancelled"
           /\ \A ph : /\ Resumed(a, r, ph).perm = r.perm
                      /\ "holds" \in Resumed(a, r, ph).flags <=> "holds" \in r.flags \/ a \in Users
<1>1. /\ Absent.flags = {} /\ Absent.perm = NoPerm /\ Absent.phase = "absent"
      /\ Fence.perm = NoPerm /\ "holds" \notin Fence.flags /\ Fence.phase = "cancelled"
  BY DEF Absent, Fence
<1>2. Accepted(a).perm = NoPerm /\ ("holds" \in Accepted(a).flags <=> a \in Users)
  BY DEF Accepted, Absent, Claim
<1>3. \A ph : /\ Resumed(a, r, ph).perm = r.perm
              /\ "holds" \in Resumed(a, r, ph).flags <=> "holds" \in r.flags \/ a \in Users
  BY DEF Resumed, Claim, Record
<1> QED BY <1>1, <1>2, <1>3

LEMMA FinishedFlags ==
    ASSUME NEW r \in Record, NEW phase, NEW note \in SUBSET {"error"}, NEW logged
    PROVE  LET f == Finished(r, phase, note, logged)
           IN  /\ f.perm = NoPerm /\ "holds" \notin f.flags
               /\ "cancelPending" \in f.flags <=> "cancelPending" \in r.flags
<1>1. \A x : x \in note => x = "error"
  OBVIOUS
<1> QED BY <1>1 DEF Finished, Record

-----------------------------------------------------------------------------
(* Images                                                                   *)

\* Fewer holders fit.
LEMMA FewerFit ==
    ASSUME NEW m, NEW n, Fits(m), Holders(n) \subseteq Holders(m) PROVE Fits(n)
<1>1. IsFiniteSet(Holders(m))
  BY ConstantsAssumption, FS_Subset DEF Holders
<1>2. /\ Cardinality(Holders(n)) <= Cardinality(Holders(m))
      /\ Cardinality(Holders(n)) \in Nat /\ Cardinality(Holders(m)) \in Nat
  BY <1>1, FS_Subset, FS_CardinalityType
<1> QED BY <1>2, ConstantsAssumption DEF Fits

\* What reserveResourcesLocked has checked fits.
LEMMA ReservedFits ==
    ASSUME NEW a \in Attempts, CanReserve(a), Fits(att), NEW n,
           Holders(n) \ {a} \subseteq Holders(att),
           "holds" \in n[a].flags => a \in Users \/ "holds" \in att[a].flags
    PROVE  Fits(n)
<1> DEFINE others == {b \in Attempts \ {a} : "holds" \in att[b].flags}
<1>1. CASE a \in Users
  <2>1. Cardinality(others) < ResourceCapacity
    BY <1>1 DEF CanReserve
  <2>2. IsFiniteSet(others) /\ a \notin others
    BY ConstantsAssumption, FS_Subset
  <2>3. Cardinality(others \cup {a}) = Cardinality(others) + 1 /\ Cardinality(others) \in Nat
    BY <2>2, FS_AddElement, FS_CardinalityType
  <2>4. Holders(n) \subseteq others \cup {a}
    BY DEF Holders
  <2>5. IsFiniteSet(others \cup {a})
    BY <2>2, FS_AddElement
  <2> HIDE DEF others
  <2>6. /\ Cardinality(Holders(n)) <= Cardinality(others \cup {a})
        /\ Cardinality(Holders(n)) \in Nat
    BY <2>4, <2>5, FS_Subset, FS_CardinalityType
  <2> QED BY <2>1, <2>3, <2>6, ConstantsAssumption DEF Fits
<1>2. CASE a \notin Users
  <2>1. Holders(n) \subseteq Holders(att)
    BY <1>2 DEF Holders
  <2> QED BY <2>1, FewerFit
<1> QED BY <1>1, <1>2

\* A step of attempt a keeps an image in order.
LEMMA LocalImage ==
    ASSUME NEW m, NEW o \in SUBSET Operations, NEW n, NEW o2 \in SUBSET Operations,
           NEW a \in Attempts, ImageOK(m, o), Fits(n),
           \A b \in Attempts \ {a} : n[b] = m[b],
           n[a].phase # "absent", o \subseteq o2,
           \A op \in o2 : op \in o \/ op.attempt = a,
           \A id \in RequestIDs : CancelOp(a, id) \in o2 => Cancelled(n[a], a, o2)
    PROVE  ImageOK(n, o2)
<1>1. \A op \in o2 : op.attempt \in Attempts
  BY DEF Operations
<1>2. Rooted(n, o2)
  BY <1>1 DEF ImageOK, Rooted
<1>3. Remembers(n, o2)
  <2>1. SUFFICES ASSUME NEW b \in Attempts, NEW id \in RequestIDs, CancelOp(b, id) \in o2, b # a
                 PROVE  Cancelled(n[b], b, o2)
    BY DEF Remembers
  <2>2. CancelOp(b, id) \in o
    BY <2>1 DEF CancelOp
  <2>3. Cancelled(m[b], b, o)
    BY <2>2 DEF ImageOK, Remembers
  <2> QED BY <2>1, <2>3 DEF Cancelled
<1> QED BY <1>2, <1>3 DEF ImageOK

\* The same for a step that takes nothing back from attempt a.
LEMMA LocalKeeps ==
    ASSUME NEW m, NEW o \in SUBSET Operations, NEW n, NEW o2 \in SUBSET Operations,
           NEW a \in Attempts, ImageOK(m, o),
           \A b \in Attempts \ {a} : n[b] = m[b],
           n[a].phase # "absent", m[a].phase # "absent", o \subseteq o2,
           \A op \in o2 : op \in o \/ (op.attempt = a /\ op.kind # "cancel"),
           "holds" \in n[a].flags => "holds" \in m[a].flags,
           "cancelPending" \in m[a].flags => "cancelPending" \in n[a].flags,
           m[a].phase \in Terminal => n[a].phase \in Terminal
    PROVE  ImageOK(n, o2)
<1>1. Fits(n)
  <2>1. Holders(n) \subseteq Holders(m)
    BY DEF Holders
  <2> QED BY <2>1, FewerFit DEF ImageOK
<1>2. ASSUME NEW id \in RequestIDs, CancelOp(a, id) \in o2 PROVE Cancelled(n[a], a, o2)
  <2>1. CancelOp(a, id) \in o
    BY <1>2 DEF CancelOp
  <2>2. Cancelled(m[a], a, o)
    BY <2>1 DEF ImageOK, Remembers
  <2> QED BY <2>2 DEF Cancelled
<1>3. \A op \in o2 : op \in o \/ op.attempt = a
  OBVIOUS
<1> QED BY <1>1, <1>2, <1>3, LocalImage

\* Dropping attempts with their operations keeps an image in order.
LEMMA PurgedImage ==
    ASSUME NEW m, NEW o \in SUBSET Operations, NEW S, ImageOK(m, o)
    PROVE  ImageOK(Without(m, S), OpsWithout(o, S))
<1> DEFINE n == Without(m, S)
           q == OpsWithout(o, S)
<1>1. \A b \in Attempts : n[b] = IF b \in S THEN Absent ELSE m[b]
  BY DEF Without
<1>2. \A op \in q : op \in o /\ op.attempt \notin S /\ op.attempt \in Attempts
  BY DEF OpsWithout, Operations
<1>3. Absent.flags = {} /\ Absent.phase = "absent"
  BY DEF Absent
<1>4. \A op \in o : op.attempt \notin S => op \in q
  BY DEF OpsWithout
<1> HIDE DEF n, q
<1>5. Fits(n)
  <2>1. Holders(n) \subseteq Holders(m)
    BY <1>1, <1>3 DEF Holders
  <2> QED BY <2>1, FewerFit DEF ImageOK
<1>6. Rooted(n, q)
  BY <1>1, <1>2 DEF ImageOK, Rooted
<1>7. Remembers(n, q)
  <2>1. SUFFICES ASSUME NEW b \in Attempts, NEW id \in RequestIDs, CancelOp(b, id) \in q
                 PROVE  Cancelled(n[b], b, q)
    BY DEF Remembers
  <2>2. CancelOp(b, id) \in o /\ b \notin S
    BY <1>2, <2>1 DEF CancelOp
  <2>3. Cancelled(m[b], b, o) /\ n[b] = m[b]
    BY <1>1, <2>2 DEF ImageOK, Remembers
  <2>4. \A later \in RequestIDs : ResumeOp(b, later) \in o => ResumeOp(b, later) \in q
    BY <1>4, <2>2 DEF ResumeOp
  <2> QED BY <2>3, <2>4 DEF Cancelled
<1>8. ImageOK(n, q)
  BY <1>5, <1>6, <1>7 DEF ImageOK
<1> QED BY <1>8 DEF n, q

-----------------------------------------------------------------------------
(* Steps of one attempt                                                     *)

\* What attempt b holds does not change with what b is.
LEMMA OwnSame ==
    ASSUME NEW b \in Attempts, Own(b), att'[b] = att[b], exec'[b] = exec[b], gate'[b] = gate[b],
           b \in creds' => b \in creds, b \in hooks' => b \in hooks, b \in shutdown' => b \in shutdown
    PROVE  Own(b)'
  BY DEF Own, Occupies, Present, CommittedExport

\* A step that touches only attempt a.
LEMMA HoldStep ==
    ASSUME HoldInv, NEW a \in Attempts, proc' = proc,
           \A b \in Attempts \ {a} :
                /\ att'[b] = att[b] /\ exec'[b] = exec[b] /\ gate'[b] = gate[b]
                /\ b \in creds' => b \in creds
                /\ b \in hooks' => b \in hooks
                /\ b \in shutdown' => b \in shutdown,
           proc = "down" => creds' = {} /\ hooks' = {} /\ shutdown' = {},
           Own(a)', ImageOK(att', ops'), ImageOK(dAtt', dOps')
    PROVE  HoldInv'
<1>1. \A b \in Attempts : Own(b)'
  BY OwnSame DEF HoldInv, Held
<1> QED BY <1>1 DEF HoldInv, Held

\* A step that touches nothing of this.
LEMMA SameHolds ==
    ASSUME HoldInv, UNCHANGED <<proc, att, ops, dAtt, dOps, exec, gate, creds, hooks, shutdown>>
    PROVE  HoldInv'
<1>1. \A b \in Attempts : Own(b)'
  BY OwnSame DEF HoldInv, Held
<1> QED BY <1>1 DEF HoldInv, Held

\* The disk after a handler: as it was, or the new memory.
DiskFollows == (dAtt' = dAtt /\ dOps' = dOps) \/ (dAtt' = att' /\ dOps' = ops')

LEMMA DiskKeeps ==
    ASSUME HoldInv, ImageOK(att', ops'), DiskFollows PROVE ImageOK(dAtt', dOps')
  BY DEF HoldInv, DiskFollows

LEMMA SaveFollows ==
    ASSUME NEW ok, UNCHANGED disk \/ Save(ok) PROVE DiskFollows
  BY DEF Save, SaveImage, disk, DiskFollows

\* finishLocked.
LEMMA FinishHolds ==
    ASSUME TypeOK, NEW a \in Attempts, NEW r \in Record, NEW phase \in EndPhases,
           NEW note \in SUBSET {"error"}, NEW image, Finish(a, r, phase, note, image)
    PROVE  /\ att'[a].phase \in EndPhases /\ att'[a].perm = NoPerm /\ "holds" \notin att'[a].flags
           /\ "cancelPending" \in att'[a].flags <=> "cancelPending" \in r.flags
           /\ phase = "cancelled" => att'[a].phase = "cancelled"
           /\ \A b \in Attempts \ {a} :
                att'[b] = att[b] /\ (b \in hooks' => b \in hooks) /\ (b \in creds' => b \in creds)
           /\ a \notin creds'
           /\ \/ dAtt' = att' /\ dOps' = ops'
              \/ dAtt' = image.att /\ dOps' = image.ops
<1>1. PICK lost \in SUBSET ({"append", "save", "resave"} \cap Faults) :
        /\ att' = [att EXCEPT ![a] = Finished(r, phase, note, "append" \notin lost)]
        /\ \/ dAtt' = att' /\ dOps' = ops'
           \/ dAtt' = image.att /\ dOps' = image.ops
        /\ hooks' = hooks \cup {a} \/ hooks' = hooks
        /\ creds' = creds \ {a}
  BY DEF Finish
<1> DEFINE f == Finished(r, phase, note, "append" \notin lost)
<1>2. att'[a] = f /\ \A b \in Attempts \ {a} : att'[b] = att[b]
  BY <1>1 DEF TypeOK
<1>3. f.phase \in EndPhases
  BY FinishedPhase
<1>4. /\ f.perm = NoPerm /\ "holds" \notin f.flags
      /\ "cancelPending" \in f.flags <=> "cancelPending" \in r.flags
  BY FinishedFlags
<1>5. phase = "cancelled" => f.phase = "cancelled"
  BY DEF Finished, Record
<1> HIDE DEF f
<1> QED BY <1>1, <1>2, <1>3, <1>4, <1>5

-----------------------------------------------------------------------------
(* Requests                                                                 *)

LEMMA StartAcceptHolds ==
    ASSUME TypeOK, TypeOK', EngineInv, HoldInv, NEW a \in Attempts, StartAccept(a)
    PROVE  HoldInv'
<1>1. PICK S \in PurgeSets(att), end \in Ends({"append", "save", "resave"}) : StartWith(a, S, end)
  BY DEF StartAccept
<1> DEFINE kept == Without(att, S)
           rest == OpsWithout(ops, S)
<1>2. /\ proc' = proc /\ proc = "up" /\ hooks' = hooks /\ shutdown' = shutdown \ S
      /\ ~Present(a) /\ CanReserve(a)
  BY <1>1 DEF StartAccept, StartWith
<1>3. /\ exec[a] = "none" /\ gate[a] = "none" /\ a \notin hooks
      /\ \A b \in S : exec[b] = "none" /\ gate[b] = "none" /\ b \notin hooks
  <2>1. exec[a] = "none" /\ gate[a] = "none"
    BY <1>2 DEF EngineInv, RunningIsLive, LivePhases, Present, TypeOK
  <2>2. a \notin hooks /\ a \notin creds /\ a \notin shutdown
    BY <1>2 DEF HoldInv, Held, Own
  <2>3. \A b \in S : exec[b] = "none" /\ gate[b] = "none" /\ b \notin hooks
    BY <1>1 DEF PurgeSets, Purgeable
  <2> QED BY <2>1, <2>2, <2>3
<1>4. /\ ImageOK(kept, rest) /\ kept \in [Attempts -> Record] /\ rest \in SUBSET Operations
      /\ \A b \in Attempts : kept[b] = IF b \in S THEN Absent ELSE att[b]
  <2>1. ImageOK(kept, rest)
    BY PurgedImage DEF HoldInv, TypeOK
  <2>2. kept \in [Attempts -> Record] /\ rest \in SUBSET Operations
    BY PurgeType DEF TypeOK
  <2>3. \A b \in Attempts : kept[b] = IF b \in S THEN Absent ELSE att[b]
    BY DEF Without
  <2> QED BY <2>1, <2>2, <2>3
<1>5. Absent.flags = {} /\ Absent.perm = NoPerm /\ Absent.phase = "absent"
  BY DEF Absent
<1>6. \A b \in Attempts : att[b].phase = "absent" => b \notin creds /\ b \notin hooks /\ b \notin shutdown
  BY DEF HoldInv, Held, Own, Present
<1>7. \A b \in S : b \in Attempts
  BY <1>1 DEF PurgeSets
<1>8. CASE end = "append"
  <2>1. /\ att' = kept /\ ops' = rest /\ creds' = creds \ S
        /\ UNCHANGED <<exec, gate, dAtt, dOps>>
    BY <1>1, <1>8 DEF StartWith, disk, running
  <2>2. ImageOK(att', ops') /\ ImageOK(dAtt', dOps')
    BY <1>4, <2>1 DEF HoldInv
  <2> HIDE DEF kept, rest
  <2>3. ASSUME NEW b \in Attempts PROVE Own(b)'
    <3>1. CASE b \in S
      <4>1. /\ att'[b] = Absent /\ exec'[b] = "none" /\ gate'[b] = "none"
            /\ b \notin creds' /\ b \notin hooks' /\ b \notin shutdown'
        BY <1>2, <1>3, <1>4, <2>1, <3>1
      <4> QED BY <1>5, <4>1, ConstantsAssumption DEF Own, Occupies
    <3>2. CASE b \notin S
      <4>1. Own(b)
        BY DEF HoldInv, Held
      <4> QED BY <1>2, <1>4, <2>1, <3>2, <4>1, OwnSame
    <3> QED BY <3>1, <3>2
  <2> QED BY <1>2, <2>2, <2>3 DEF HoldInv, Held
<1>9. CASE end # "append"
  <2> DEFINE f == [Accepted(a) EXCEPT !.phase = IF end = "ok" THEN "starting" ELSE "accepted"]
  <2>1. /\ att' = [kept EXCEPT ![a] = f] /\ ops' = rest \cup {StartOp(a)}
        /\ creds' = (creds \ S) \cup {a} /\ SaveImage(end # "save", att', ops')
        /\ exec' = [exec EXCEPT ![a] = IF end = "ok" THEN "run" ELSE "none"]
        /\ gate' = [gate EXCEPT ![a] = IF end = "ok" THEN "idle" ELSE "none"]
    BY <1>1, <1>3, <1>9 DEF StartWith, Save, Launch, running, TypeOK
  <2>2. /\ f.phase = IF end = "ok" THEN "starting" ELSE "accepted"
        /\ f.perm = NoPerm
        /\ "holds" \in f.flags <=> a \in Users
    <3>1. Accepted(a) \in Record
      BY RecordTypes
    <3>2. Accepted(a).perm = NoPerm /\ ("holds" \in Accepted(a).flags <=> a \in Users)
      BY DEF Accepted, Absent, Claim
    <3> QED BY <3>1, <3>2 DEF Record
  <2> HIDE DEF f, kept, rest
  <2>3. /\ att'[a] = f
        /\ \A b \in Attempts \ {a} : att'[b] = kept[b] /\ exec'[b] = exec[b] /\ gate'[b] = gate[b]
        /\ exec'[a] = (IF end = "ok" THEN "run" ELSE "none")
        /\ gate'[a] = (IF end = "ok" THEN "idle" ELSE "none")
    BY <1>4, <2>1 DEF TypeOK
  <2>4. ImageOK(att', ops')
    <3>1. Fits(att')
      <4>1. Fits(att)
        BY DEF HoldInv, ImageOK
      <4>2. Holders(att') \ {a} \subseteq Holders(att)
        BY <1>4, <1>5, <2>3 DEF Holders
      <4> QED BY <1>2, <2>2, <2>3, <4>1, <4>2, ReservedFits
    <3>2. \A op \in rest : op.attempt # a
      <4>1. kept[a].phase = "absent"
        BY <1>2, <1>4, <1>5 DEF Present
      <4> QED BY <1>4, <4>1 DEF ImageOK, Rooted
    <3>3. ASSUME NEW id \in RequestIDs, CancelOp(a, id) \in ops' PROVE FALSE
      <4>1. CancelOp(a, id) # StartOp(a) /\ CancelOp(a, id).attempt = a
        BY DEF CancelOp, StartOp
      <4> QED BY <2>1, <3>2, <3>3, <4>1
    <3>4. \A op \in ops' : op \in rest \/ op.attempt = a
      BY <2>1 DEF StartOp
    <3>5. ops' \in SUBSET Operations
      BY DEF TypeOK
    <3>6. att'[a].phase # "absent"
      BY <2>2, <2>3
    <3>7. rest \subseteq ops'
      BY <2>1
    <3> QED BY <1>4, <2>3, <3>1, <3>3, <3>4, <3>5, <3>6, <3>7, LocalImage
  <2>5. ImageOK(dAtt', dOps')
    <3>1. DiskFollows
      BY <2>1 DEF SaveImage, disk, DiskFollows
    <3> QED BY <2>4, <3>1, DiskKeeps
  <2>6. Own(a)'
    BY <1>2, <1>3, <2>1, <2>2, <2>3, ConstantsAssumption
       DEF Own, Occupies, Present, Terminal, CommittedExport
  <2>7. ASSUME NEW b \in Attempts, b # a PROVE Own(b)'
    <3>1. CASE b \in S
      <4>1. /\ att'[b] = Absent /\ exec'[b] = "none" /\ gate'[b] = "none"
            /\ b \notin creds' /\ b \notin hooks' /\ b \notin shutdown'
        BY <1>2, <1>3, <1>4, <2>1, <2>3, <2>7, <3>1
      <4> QED BY <1>5, <4>1, ConstantsAssumption DEF Own, Occupies
    <3>2. CASE b \notin S
      <4>1. Own(b)
        BY DEF HoldInv, Held
      <4>2. /\ att'[b] = att[b] /\ exec'[b] = exec[b] /\ gate'[b] = gate[b]
            /\ (b \in creds' => b \in creds) /\ (b \in hooks' => b \in hooks)
            /\ (b \in shutdown' => b \in shutdown)
        BY <1>2, <1>4, <2>1, <2>3, <2>7, <3>2
      <4> QED BY <4>1, <4>2, OwnSame
    <3> QED BY <3>1, <3>2
  <2>8. Held'
    BY <1>2, <2>6, <2>7 DEF Held
  <2> QED BY <2>4, <2>5, <2>8 DEF HoldInv
<1> QED BY <1>8, <1>9

\* A retried start.
LEMMA StartRelaunchHolds ==
    ASSUME TypeOK, TypeOK', EngineInv, HoldInv, NEW a \in Attempts, StartRelaunch(a)
    PROVE  HoldInv'
<1> DEFINE f == Starting(att[a])
<1>1. /\ proc' = proc /\ proc = "up" /\ att[a].phase = "accepted" /\ ops' = ops
      /\ creds' = creds \cup {a} /\ UNCHANGED <<shutdown, hooks>>
      /\ ops \in SUBSET Operations /\ att \in [Attempts -> Record]
  BY DEF StartRelaunch, TypeOK
<1>2. DiskFollows
  BY DEF StartRelaunch, Save, SaveImage, disk, DiskFollows
<1>3. Own(a) /\ ImageOK(att, ops)
  BY DEF HoldInv, Held
<1>4. CASE att' = att /\ exec' = exec /\ gate' = gate
  <2>1. ImageOK(att', ops')
    BY <1>1, <1>3, <1>4
  <2>2. Own(a)'
    BY <1>1, <1>3, <1>4 DEF Own, Occupies, Present, CommittedExport, Terminal
  <2>3. ImageOK(dAtt', dOps')
    BY <1>2, <2>1, DiskKeeps
  <2> QED BY <1>1, <1>4, <2>1, <2>2, <2>3, HoldStep
<1>5. CASE att' = [att EXCEPT ![a] = f] /\ Launch(a)
  <2>1. f.phase = "starting" /\ Alike(att[a], f) /\ f.perm = att[a].perm
    BY <1>1, PatchPhases, PatchFlags
  <2> HIDE DEF f
  <2>2. /\ att'[a] = f /\ exec'[a] = "run" /\ gate'[a] = "idle"
        /\ \A b \in Attempts \ {a} : att'[b] = att[b] /\ exec'[b] = exec[b] /\ gate'[b] = gate[b]
    BY <1>1, <1>5 DEF Launch, TypeOK
  <2>3. ImageOK(att', ops')
    BY <1>1, <1>3, <2>1, <2>2, LocalKeeps DEF Alike, Terminal
  <2>4. Own(a)'
    <3>1. a \in Users => "holds" \in att[a].flags
      BY <1>1, <1>3 DEF Own, Occupies
    <3> QED BY <1>3, <2>1, <2>2, <3>1, ConstantsAssumption
            DEF Own, Occupies, Present, Alike
  <2>5. ImageOK(dAtt', dOps')
    BY <1>2, <2>3, DiskKeeps
  <2> QED BY <1>1, <2>2, <2>3, <2>4, <2>5, HoldStep
<1> QED BY <1>4, <1>5 DEF StartRelaunch, running

\* Cancels of attempts that are absent or over.
LEMMA CancelUnseenHolds ==
    ASSUME TypeOK, TypeOK', EngineInv, HoldInv, NEW a \in Attempts, NEW id \in RequestIDs,
           CancelUnseen(a, id)
    PROVE  HoldInv'
<1> DEFINE fenced == [att EXCEPT ![a] = Fence]
           noted == ops \cup {CancelOp(a, id)}
<1>1. /\ proc' = proc /\ proc = "up" /\ UNCHANGED <<exec, gate, creds, shutdown, hooks>>
      /\ ~Present(a) /\ ops \in SUBSET Operations /\ att \in [Attempts -> Record]
  BY DEF CancelUnseen, running, TypeOK
<1>2. Own(a) /\ ImageOK(att, ops) /\ ImageOK(dAtt, dOps)
  BY DEF HoldInv, Held
<1>3. exec[a] = "none" /\ gate[a] = "none" /\ a \notin creds
  BY <1>1, <1>2 DEF EngineInv, RunningIsLive, LivePhases, Present, TypeOK, Own
<1>4. Fence.perm = NoPerm /\ "holds" \notin Fence.flags /\ Fence.phase = "cancelled"
  BY DEF Fence, Absent
<1>5. fenced[a] = Fence /\ \A b \in Attempts \ {a} : fenced[b] = att[b]
  BY <1>1
<1>6. /\ noted \in SUBSET Operations /\ ops \subseteq noted
      /\ \A op \in noted : op \in ops \/ op.attempt = a
  BY <1>1, OpTypes DEF CancelOp
<1>7. /\ \/ dAtt' = fenced /\ dOps' = noted
         \/ dAtt' = dAtt /\ dOps' = dOps
      /\ \/ att' = fenced /\ ops' = noted
         \/ att' = att /\ ops' = ops
  BY DEF CancelUnseen, SaveImage, memory, disk
<1> HIDE DEF fenced, noted
<1>8. ImageOK(fenced, noted)
  <2>1. Fits(fenced)
    <3>1. Holders(fenced) \subseteq Holders(att)
      BY <1>4, <1>5 DEF Holders
    <3> QED BY <1>2, <3>1, FewerFit DEF ImageOK
  <2>2. \A i \in RequestIDs : CancelOp(a, i) \in noted => Cancelled(fenced[a], a, noted)
    BY <1>4, <1>5 DEF Cancelled, Terminal
  <2>3. fenced[a].phase # "absent"
    BY <1>4, <1>5
  <2> QED BY <1>1, <1>2, <1>5, <1>6, <2>1, <2>2, <2>3, LocalImage
<1>9. ImageOK(att', ops') /\ ImageOK(dAtt', dOps')
  BY <1>2, <1>7, <1>8
<1>10. Own(a)'
  <2>1. CASE att' = att
    BY <1>1, <1>2, <2>1 DEF Own, Occupies, Present, CommittedExport
  <2>2. CASE att' = fenced
    BY <1>1, <1>3, <1>4, <1>5, <2>2, ConstantsAssumption DEF Own, Occupies, Present
  <2> QED BY <1>7, <2>1, <2>2
<1>11. \A b \in Attempts \ {a} : att'[b] = att[b]
  BY <1>5, <1>7
<1> QED BY <1>1, <1>9, <1>10, <1>11, HoldStep

LEMMA CancelFinishedHolds ==
    ASSUME TypeOK, TypeOK', EngineInv, HoldInv, NEW a \in Attempts, NEW id \in RequestIDs,
           CancelFinished(a, id)
    PROVE  HoldInv'
<1>1. /\ proc' = proc /\ proc = "up" /\ UNCHANGED <<att, exec, gate, creds, shutdown, hooks>>
      /\ IsTerminal(a) /\ ops \in SUBSET Operations /\ ops' = ops \cup {CancelOp(a, id)}
  BY DEF CancelFinished, running, TypeOK
<1>2. Own(a) /\ ImageOK(att, ops) /\ DiskFollows
  BY DEF HoldInv, Held, CancelFinished, Save, SaveImage, disk, DiskFollows
<1>3. /\ ops' \in SUBSET Operations /\ ops \subseteq ops'
      /\ \A op \in ops' : op \in ops \/ op.attempt = a
  BY <1>1, OpTypes DEF CancelOp
<1>4. ImageOK(att', ops')
  <2>1. \A i \in RequestIDs : CancelOp(a, i) \in ops' => Cancelled(att'[a], a, ops')
    BY <1>1 DEF Cancelled, IsTerminal
  <2>2. Fits(att') /\ att'[a].phase # "absent"
    BY <1>1, <1>2 DEF ImageOK, Fits, Holders, IsTerminal, Terminal
  <2> QED BY <1>1, <1>2, <1>3, <2>1, <2>2, LocalImage
<1>5. ImageOK(dAtt', dOps')
  BY <1>2, <1>4, DiskKeeps
<1>6. Own(a)'
  BY <1>1, <1>2 DEF Own, Occupies, Present, CommittedExport
<1> QED BY <1>1, <1>4, <1>5, <1>6, HoldStep

\* A cancel of a live attempt.
LEMMA CancelHolds ==
    ASSUME TypeOK, TypeOK', EngineInv, HoldInv, NEW a \in Attempts, NEW id \in RequestIDs,
           Cancel(a, id)
    PROVE  HoldInv'
<1> DEFINE r == Cancelling(att[a])
           m == [att EXCEPT ![a] = r]
           image == [att |-> m, ops |-> ops']
<1>1. /\ proc' = proc /\ proc = "up" /\ UNCHANGED <<exec, gate, shutdown>>
      /\ Present(a) /\ ~IsTerminal(a) /\ ops' = ops \cup {CancelOp(a, id)}
      /\ ops \in SUBSET Operations /\ att \in [Attempts -> Record]
  BY DEF Cancel, TypeOK
<1>2. Own(a) /\ ImageOK(att, ops)
  BY DEF HoldInv, Held
<1>3. /\ r \in Record /\ r.phase = "cancelling" /\ r.perm = att[a].perm
      /\ "holds" \in r.flags <=> "holds" \in att[a].flags
      /\ "cancelPending" \in r.flags
      /\ m[a] = r /\ \A b \in Attempts \ {a} : m[b] = att[b]
  BY <1>1, PatchTypes, PatchPhases, PatchFlags
<1>4. PICK end \in Ends({"append", "save"}) :
        IF end = "ok" /\ exec[a] = "none"
        THEN Finish(a, r, "cancelled", {}, image)
        ELSE /\ att' = m
             /\ IF end = "append" THEN UNCHANGED disk ELSE Save(end = "ok")
             /\ UNCHANGED <<creds, hooks>>
  BY DEF Cancel
<1>5. image.att = m /\ image.ops = ops'
  OBVIOUS
<1>6. /\ ops' \in SUBSET Operations /\ ops \subseteq ops'
      /\ \A op \in ops' : op \in ops \/ op.attempt = a
  BY <1>1, OpTypes DEF CancelOp
<1> HIDE DEF r, m, image
<1>7. ASSUME NEW n, \A b \in Attempts \ {a} : n[b] = att[b], n[a].phase # "absent",
             "holds" \in n[a].flags => "holds" \in att[a].flags, "cancelPending" \in n[a].flags
      PROVE  ImageOK(n, ops')
  <2>1. Fits(n)
    <3>1. Holders(n) \subseteq Holders(att)
      BY <1>7 DEF Holders
    <3> QED BY <1>2, <3>1, FewerFit DEF ImageOK
  <2>2. \A i \in RequestIDs : CancelOp(a, i) \in ops' => Cancelled(n[a], a, ops')
    BY <1>7 DEF Cancelled
  <2> QED BY <1>1, <1>2, <1>6, <1>7, <2>1, <2>2, LocalImage
<1>8. ImageOK(m, ops')
  BY <1>3, <1>7
<1>9. CASE end = "ok" /\ exec[a] = "none"
  <2>1. /\ att'[a].phase = "cancelled" /\ att'[a].perm = NoPerm /\ "holds" \notin att'[a].flags
        /\ "cancelPending" \in att'[a].flags
        /\ \A b \in Attempts \ {a} :
             att'[b] = att[b] /\ (b \in hooks' => b \in hooks) /\ (b \in creds' => b \in creds)
        /\ a \notin creds'
        /\ \/ dAtt' = att' /\ dOps' = ops'
           \/ dAtt' = m /\ dOps' = ops'
    <3>1. Finish(a, r, "cancelled", {}, image)
      BY <1>4, <1>9
    <3>2. "cancelled" \in EndPhases /\ {} \in SUBSET {"error"}
      BY DEF EndPhases
    <3> QED BY <1>3, <1>5, <3>1, <3>2, FinishHolds
  <2>2. ImageOK(att', ops')
    BY <1>7, <2>1
  <2>3. ImageOK(dAtt', dOps')
    BY <1>8, <2>1, <2>2
  <2>4. Own(a)'
    <3>1. gate[a] = "none"
      BY <1>9 DEF EngineInv, RunningIsLive
    <3> QED BY <1>1, <1>9, <2>1, <3>1, ConstantsAssumption
            DEF Own, Occupies, Present, Terminal
  <2> QED BY <1>1, <2>1, <2>2, <2>3, <2>4, HoldStep
<1>10. CASE ~(end = "ok" /\ exec[a] = "none")
  <2>1. att' = m /\ UNCHANGED <<creds, hooks>> /\ DiskFollows
    BY <1>4, <1>10, SaveFollows
  <2>2. ImageOK(att', ops') /\ ImageOK(dAtt', dOps')
    BY <1>8, <2>1, DiskKeeps
  <2>3. Own(a)'
    BY <1>1, <1>2, <1>3, <2>1 DEF Own, Occupies, Present, IsTerminal, Terminal, CommittedExport
  <2> QED BY <1>1, <1>3, <2>1, <2>2, <2>3, HoldStep
<1> QED BY <1>9, <1>10

\* A resume reserves again what the attempt needs.
LEMMA ResumeHolds ==
    ASSUME TypeOK, TypeOK', EngineInv, HoldInv, NEW a \in Attempts, NEW id \in RequestIDs,
           Resume(a, id)
    PROVE  HoldInv'
<1>1. /\ proc' = proc /\ proc = "up" /\ UNCHANGED <<hooks, shutdown>>
      /\ att[a].phase = "needs_input" /\ att[a].perm = NoPerm /\ CapacityFree /\ CanReserve(a)
      /\ ops' = ops \cup {ResumeOp(a, id)} /\ creds' = creds \cup {a}
      /\ ops \in SUBSET Operations /\ att \in [Attempts -> Record]
  BY DEF Resume, TypeOK
<1>2. Own(a) /\ ImageOK(att, ops)
  BY DEF HoldInv, Held
<1>3. exec[a] # "run" /\ gate[a] = "none"
  BY <1>1, FreeIsEmpty DEF EngineInv, RunningIsLive, Occupies
<1>4. PICK end \in Ends({"append", "save", "resave"}) :
        LET launches == end = "ok" /\ exec[a] = "none" IN
        /\ att' = [att EXCEPT ![a] = Resumed(a, @, IF launches THEN "starting" ELSE "accepted")]
        /\ IF end = "append" THEN UNCHANGED disk ELSE Save(end # "save")
        /\ IF launches THEN Launch(a) ELSE UNCHANGED running
  BY DEF Resume, Ends, running
<1> DEFINE ph == IF end = "ok" /\ exec[a] = "none" THEN "starting" ELSE "accepted"
           f == Resumed(a, att[a], ph)
<1>5. /\ f.phase = ph /\ f.perm = NoPerm
      /\ "holds" \in f.flags <=> "holds" \in att[a].flags \/ a \in Users
  <2>1. att[a] \in Record
    BY <1>1
  <2> QED BY <1>1, <2>1, PatchPhases, MadeFlags
<1>6. /\ att' = [att EXCEPT ![a] = f] /\ ph \in {"starting", "accepted"}
      /\ DiskFollows
      /\ exec'[a] = IF end = "ok" /\ exec[a] = "none" THEN "run" ELSE exec[a]
      /\ gate'[a] = IF end = "ok" /\ exec[a] = "none" THEN "idle" ELSE "none"
      /\ \A b \in Attempts \ {a} : exec'[b] = exec[b] /\ gate'[b] = gate[b]
  <2>1. DiskFollows
    BY <1>4, SaveFollows
  <2> QED BY <1>3, <1>4, <2>1 DEF Launch, running, TypeOK
<1> HIDE DEF f, ph
<1>7. att'[a] = f /\ \A b \in Attempts \ {a} : att'[b] = att[b]
  BY <1>1, <1>6
<1>8. ImageOK(att', ops')
  <2>1. Fits(att')
    <3>1. Fits(att) /\ Holders(att') \ {a} \subseteq Holders(att)
      BY <1>2, <1>7 DEF ImageOK, Holders
    <3>2. "holds" \in att'[a].flags => a \in Users \/ "holds" \in att[a].flags
      BY <1>5, <1>7
    <3> QED BY <1>1, <3>1, <3>2, ReservedFits
  <2>2. \A i \in RequestIDs : Cancelled(att'[a], a, ops')
    BY <1>1 DEF Cancelled
  <2>3. att'[a].phase # "absent"
    BY <1>5, <1>6, <1>7
  <2>4. /\ ops' \in SUBSET Operations /\ ops \subseteq ops'
        /\ \A op \in ops' : op \in ops \/ op.attempt = a
    BY <1>1, OpTypes DEF ResumeOp
  <2> QED BY <1>1, <1>2, <1>7, <2>1, <2>2, <2>3, <2>4, LocalImage
<1>9. ImageOK(dAtt', dOps')
  BY <1>6, <1>8, DiskKeeps
<1>10. Own(a)'
  BY <1>1, <1>2, <1>5, <1>6, <1>7, ConstantsAssumption
     DEF Own, Occupies, Present, Terminal, CommittedExport
<1> QED BY <1>1, <1>6, <1>7, <1>8, <1>9, <1>10, HoldStep

\* A verdict takes the request off the receipt and out of the gate.
LEMMA ResumePermissionHolds ==
    ASSUME TypeOK, TypeOK', EngineInv, HoldInv, NEW a \in Attempts, NEW p \in Perms,
           NEW id \in RequestIDs, ResumePermission(a, p, id)
    PROVE  HoldInv'
<1> DEFINE f == Answered(att[a])
<1>1. /\ proc' = proc /\ proc = "up" /\ UNCHANGED <<exec, creds, hooks, shutdown>>
      /\ att[a].phase = "needs_input" /\ gate[a] = p /\ gate' = [gate EXCEPT ![a] = "idle"]
      /\ att' = [att EXCEPT ![a] = f] /\ (ops' = ops \/ ops' = ops \cup {ResumeOp(a, id)})
      /\ ops \in SUBSET Operations /\ att \in [Attempts -> Record]
      /\ \/ DiskFollows
         \/ dAtt' = att' /\ dOps' = ops
  BY DEF ResumePermission, TypeOK, Save, SaveImage, disk, DiskFollows
<1>2. Own(a) /\ ImageOK(att, ops)
  BY DEF HoldInv, Held
<1>3. exec[a] = "run"
  BY <1>1, ConstantsAssumption DEF EngineInv, RunningIsLive
<1>4. f.phase = "running" /\ f.perm = NoPerm /\ Alike(att[a], f)
  BY <1>1, PatchPhases, PatchFlags
<1> HIDE DEF f
<1>5. /\ att'[a] = f /\ gate'[a] = "idle"
      /\ \A b \in Attempts \ {a} : att'[b] = att[b] /\ gate'[b] = gate[b]
  BY <1>1 DEF TypeOK
<1>6. /\ ops' \in SUBSET Operations /\ ops \subseteq ops'
      /\ \A op \in ops' : op \in ops \/ (op.attempt = a /\ op.kind # "cancel")
  BY <1>1, OpTypes DEF ResumeOp
<1>7. ImageOK(att', ops') /\ ImageOK(att', ops)
  <2>1. /\ att'[a].phase # "absent" /\ att[a].phase # "absent" /\ att[a].phase \notin Terminal
        /\ "holds" \in att'[a].flags => "holds" \in att[a].flags
        /\ "cancelPending" \in att[a].flags => "cancelPending" \in att'[a].flags
        /\ \A b \in Attempts \ {a} : att'[b] = att[b]
    BY <1>1, <1>4, <1>5 DEF Alike, Terminal
  <2>2. ops \in SUBSET Operations /\ (att[a].phase \in Terminal => att'[a].phase \in Terminal)
    BY <1>1, <2>1
  <2>3. ImageOK(att', ops')
    BY <1>2, <1>6, <2>1, <2>2, LocalKeeps
  <2>4. ImageOK(att', ops)
    BY <1>2, <2>1, <2>2, LocalKeeps
  <2> QED BY <2>3, <2>4
<1>8. ImageOK(dAtt', dOps')
  BY <1>1, <1>7, DiskKeeps
<1>9. Own(a)'
  BY <1>1, <1>2, <1>3, <1>4, <1>5, ConstantsAssumption DEF Own, Occupies, Present, Alike
<1> QED BY <1>1, <1>5, <1>7, <1>8, <1>9, HoldStep

LEMMA RequestHolds ==
    ASSUME TypeOK, TypeOK', EngineInv, HoldInv, NEW a \in Attempts, Requests(a) PROVE HoldInv'
  BY StartAcceptHolds, StartRelaunchHolds, CancelUnseenHolds, CancelFinishedHolds, CancelHolds,
     ResumeHolds, ResumePermissionHolds DEF Requests

-----------------------------------------------------------------------------
(* The execution                                                            *)

\* A step that changes the record of attempt a and leaves its execution alone.
LEMMA PatchHolds ==
    ASSUME TypeOK, HoldInv, NEW a \in Attempts, UNCHANGED <<proc, ops, exec, creds, shutdown>>,
           \A b \in Attempts \ {a} :
                att'[b] = att[b] /\ gate'[b] = gate[b] /\ (b \in hooks' => b \in hooks),
           proc = "down" => hooks' = {}, DiskFollows,
           Present(a), att'[a].phase # "absent", att[a].phase \in Terminal => att'[a].phase \in Terminal,
           "holds" \in att'[a].flags => "holds" \in att[a].flags,
           "cancelPending" \in att[a].flags => "cancelPending" \in att'[a].flags,
           Own(a)'
    PROVE  HoldInv'
<1>1. ops \in SUBSET Operations /\ ImageOK(att, ops) /\ att[a].phase # "absent"
  BY DEF TypeOK, HoldInv, Present
<1>2. ImageOK(att', ops)
  BY <1>1, LocalKeeps
<1>3. ImageOK(att', ops') /\ ImageOK(dAtt', dOps')
  BY <1>2, DiskKeeps
<1>4. proc = "down" => creds' = {} /\ hooks' = {} /\ shutdown' = {}
  BY DEF HoldInv, Held
<1> QED BY <1>3, <1>4, HoldStep

\* The end of an execution through finishLocked.
LEMMA EndHolds ==
    ASSUME TypeOK, HoldInv, NEW a \in Attempts, NEW r \in Record, NEW phase \in EndPhases,
           NEW note \in SUBSET {"error"}, NEW image, Finish(a, r, phase, note, image),
           ImageOK(image.att, image.ops), UNCHANGED <<proc, ops>>, proc # "down",
           Present(a), ~IsTerminal(a),
           "cancelPending" \in r.flags <=> "cancelPending" \in att[a].flags,
           exec'[a] = "none", gate'[a] = "none", shutdown' = shutdown \ {a},
           \A b \in Attempts \ {a} : exec'[b] = exec[b] /\ gate'[b] = gate[b]
    PROVE  HoldInv'
<1>1. /\ att'[a].phase \in EndPhases /\ att'[a].perm = NoPerm /\ "holds" \notin att'[a].flags
      /\ "cancelPending" \in att'[a].flags <=> "cancelPending" \in att[a].flags
      /\ \A b \in Attempts \ {a} :
           att'[b] = att[b] /\ (b \in hooks' => b \in hooks) /\ (b \in creds' => b \in creds)
      /\ a \notin creds'
      /\ \/ dAtt' = att' /\ dOps' = ops'
         \/ dAtt' = image.att /\ dOps' = image.ops
  BY FinishHolds
<1>2. /\ att'[a].phase # "absent" /\ att[a].phase # "absent" /\ att[a].phase \notin Terminal
      /\ att'[a].phase # "accepted" /\ ops \in SUBSET Operations
  BY <1>1 DEF EndPhases, Present, IsTerminal, TypeOK
<1>3. ImageOK(att, ops)
  BY DEF HoldInv
<1>4. ImageOK(att', ops)
  BY <1>1, <1>2, <1>3, LocalKeeps
<1>5. ImageOK(att', ops') /\ ImageOK(dAtt', dOps')
  BY <1>1, <1>4
<1>6. Own(a)'
  BY <1>1, <1>2, ConstantsAssumption DEF Own, Occupies, Present
<1> QED BY <1>1, <1>5, <1>6, HoldStep

\* A harness event, accepted or not, comes from a running execution.
LEMMA EventHolds ==
    ASSUME TypeOK, EngineInv, HoldInv, NEW a \in Attempts, NEW s \in SUBSET {"session"},
           \/ \E kind \in {"progress", "needs_input", "cancelled", "other"} : HarnessEvent(a, kind, s)
           \/ HarnessEventFails(a, s)
    PROVE  HoldInv'
<1>1. /\ exec[a] = "run" /\ UNCHANGED <<proc, ops, exec, gate, creds, hooks, shutdown>>
      /\ att[a] \in Record /\ att \in [Attempts -> Record] /\ ~IsTerminal(a)
  BY DEF HarnessEvent, HarnessEventFails, running, TypeOK
<1>2. Own(a) /\ (proc = "down" => hooks' = {})
  BY <1>1 DEF HoldInv, Held
<1>3. att[a].phase \in LivePhases
  BY <1>1 DEF EngineInv, RunningIsLive
<1>4. DiskFollows
  BY SaveFollows DEF HarnessEvent, HarnessEventFails
<1>5. ASSUME NEW f, att' = [att EXCEPT ![a] = f], f.phase # "absent", f.perm = att[a].perm,
             "holds" \in f.flags <=> "holds" \in att[a].flags,
             "cancelPending" \in att[a].flags => "cancelPending" \in f.flags
      PROVE  HoldInv'
  <2>1. Present(a) /\ att'[a] = f /\ \A b \in Attempts \ {a} : att'[b] = att[b]
    BY <1>1, <1>3, <1>5 DEF Present, LivePhases
  <2>2. Own(a)'
    BY <1>1, <1>2, <1>5, <2>1 DEF Own, Occupies, Present
  <2> QED BY <1>1, <1>2, <1>4, <1>5, <2>1, <2>2, PatchHolds DEF IsTerminal
<1>6. ASSUME NEW kind \in {"progress", "needs_input", "cancelled", "other"}, HarnessEvent(a, kind, s)
      PROVE  HoldInv'
  <2> DEFINE f == AfterEvent(att[a], kind, s)
  <2>1. att' = [att EXCEPT ![a] = f]
    BY <1>6 DEF HarnessEvent
  <2>2. f.phase = PhaseAfter(kind, att[a].phase)
    BY <1>1, PatchPhases
  <2>3. f.phase # "absent"
    BY <1>3, <2>2 DEF PhaseAfter, LivePhases
  <2>4. Alike(att[a], f) /\ f.perm = att[a].perm
    BY <1>1 DEF AfterEvent, Alike, Record
  <2> HIDE DEF f
  <2> QED BY <1>5, <2>1, <2>3, <2>4 DEF Alike
<1>7. CASE HarnessEventFails(a, s)
  <2> DEFINE f == EventFailed(att[a], s)
  <2>1. att' = [att EXCEPT ![a] = f]
    BY <1>7 DEF HarnessEventFails
  <2>2. f.phase = "cancelling"
    BY <1>1, PatchPhases
  <2>3. /\ "holds" \in f.flags <=> "holds" \in att[a].flags
        /\ "cancelPending" \in f.flags /\ f.perm = att[a].perm
    BY <1>1 DEF EventFailed, Record
  <2> HIDE DEF f
  <2> QED BY <1>5, <2>1, <2>2, <2>3
<1> QED BY <1>6, <1>7

\* The return of the adapter: the attempt ends, or its Git result is exported.
LEMMA ExecEndHolds ==
    ASSUME TypeOK, EngineInv, HoldInv, NEW a \in Attempts, NEW result \in Results,
           NEW s \in SUBSET {"session"}, ExecEnd(a, result, s)
    PROVE  HoldInv'
<1> DEFINE r == WithSession(att[a], s)
           outcome == Outcome(a, result)
           exports == outcome = "completed" /\ a \in Exports
           note == IF result \in {"error", "foreign"} THEN {"error"} ELSE {}
<1>1. /\ exec[a] = "run" /\ UNCHANGED <<proc, ops>>
      /\ gate'[a] = "none" /\ \A b \in Attempts \ {a} : gate'[b] = gate[b]
      /\ att[a] \in Record /\ att \in [Attempts -> Record] /\ exec \in [Attempts -> {"none", "run", "export"}]
  BY DEF ExecEnd, TypeOK
<1>2. /\ proc # "down" /\ att[a].phase \in LivePhases /\ Own(a)
  BY <1>1 DEF EngineInv, DownIsEmpty, RunningIsLive, HoldInv, Held
<1>3. Present(a) /\ ~IsTerminal(a) /\ att[a].phase # "accepted"
  BY <1>2 DEF Present, IsTerminal, LivePhases, Terminal
<1>4. /\ r \in Record /\ Alike(att[a], r) /\ r.perm = att[a].perm /\ r.phase = att[a].phase
  <2>1. r \in Record
    BY <1>1, PatchTypes
  <2> QED BY <1>1, <2>1 DEF WithSession, Alike, Record
<1>5. outcome \in EndPhases /\ note \in SUBSET {"error"}
  BY OutcomeType
<1>6. IF exports
      THEN /\ exec' = [exec EXCEPT ![a] = "export"]
           /\ att' = [att EXCEPT ![a] = r]
           /\ UNCHANGED <<disk, creds, hooks, ctxDone, shutdown>>
      ELSE /\ exec' = [exec EXCEPT ![a] = "none"]
           /\ shutdown' = shutdown \ {a}
           /\ Finish(a, r, outcome, note, OnDisk)
  BY DEF ExecEnd
<1> HIDE DEF r, outcome, note
<1>7. CASE exports
  <2>1. /\ exec'[a] = "export" /\ att'[a] = r
        /\ \A b \in Attempts \ {a} : exec'[b] = exec[b] /\ att'[b] = att[b]
        /\ UNCHANGED <<dAtt, dOps, creds, hooks, shutdown>>
    BY <1>1, <1>6, <1>7 DEF disk
  <2>2. ImageOK(att, ops) /\ ImageOK(dAtt, dOps) /\ ops \in SUBSET Operations
    BY DEF HoldInv, TypeOK
  <2>3. ImageOK(att', ops)
    <3>1. /\ att'[a].phase # "absent" /\ att[a].phase # "absent" /\ att[a].phase \notin Terminal
          /\ "holds" \in att'[a].flags => "holds" \in att[a].flags
          /\ "cancelPending" \in att[a].flags => "cancelPending" \in att'[a].flags
      BY <1>3, <1>4, <2>1 DEF Alike, Present, IsTerminal
    <3> QED BY <2>1, <2>2, <3>1, LocalKeeps
  <2>4. Own(a)'
    BY <1>1, <1>2, <1>3, <1>4, <1>7, <2>1, ConstantsAssumption DEF Own, Occupies, Present
  <2>5. ImageOK(att', ops') /\ ImageOK(dAtt', dOps')
    BY <1>1, <2>1, <2>2, <2>3
  <2> QED BY <1>1, <1>2, <2>1, <2>4, <2>5, HoldStep
<1>8. CASE ~exports
  <2>1. /\ exec'[a] = "none" /\ \A b \in Attempts \ {a} : exec'[b] = exec[b]
        /\ shutdown' = shutdown \ {a} /\ Finish(a, r, outcome, note, OnDisk)
    BY <1>1, <1>6, <1>8
  <2>2. ImageOK(OnDisk.att, OnDisk.ops)
    BY DEF HoldInv, OnDisk
  <2> QED BY <1>1, <1>2, <1>3, <1>4, <1>5, <2>1, <2>2, EndHolds DEF Alike
<1> QED BY <1>7, <1>8

\* The end of an export, with and without a result to commit.
LEMMA ExportHolds ==
    ASSUME TypeOK, EngineInv, HoldInv, NEW a \in Attempts, ExportEnd(a) \/ ExportCommit(a)
    PROVE  HoldInv'
<1> DEFINE done == Committed(att[a])
           m == [att EXCEPT ![a] = done]
<1>1. /\ exec[a] = "export" /\ UNCHANGED <<proc, ops, gate>> /\ shutdown' = shutdown \ {a}
      /\ exec'[a] = "none" /\ \A b \in Attempts \ {a} : exec'[b] = exec[b]
      /\ att[a] \in Record /\ att \in [Attempts -> Record] /\ ops \in SUBSET Operations
  BY DEF ExportEnd, ExportCommit, TypeOK
<1>2. /\ proc # "down" /\ Present(a) /\ ~IsTerminal(a) /\ Own(a) /\ gate'[a] = "none"
      /\ ImageOK(att, ops) /\ ImageOK(dAtt, dOps)
  BY <1>1 DEF EngineInv, DownIsEmpty, RunningIsLive, HoldInv, Held
<1>3. /\ done.phase = "completed" /\ "holds" \notin done.flags /\ done.perm = att[a].perm
      /\ "cancelPending" \in done.flags <=> "cancelPending" \in att[a].flags
      /\ m[a] = done /\ \A b \in Attempts \ {a} : m[b] = att[b]
  BY <1>1 DEF Committed, Record
<1>4. ImageOK(OnDisk.att, OnDisk.ops)
  BY <1>2 DEF OnDisk
<1> HIDE DEF done, m
<1>5. ImageOK(m, ops)
  <2>1. /\ m[a].phase # "absent" /\ att[a].phase # "absent" /\ att[a].phase \notin Terminal
        /\ "holds" \in m[a].flags => "holds" \in att[a].flags
        /\ "cancelPending" \in att[a].flags => "cancelPending" \in m[a].flags
        /\ \A b \in Attempts \ {a} : m[b] = att[b]
        /\ ops \in SUBSET Operations
    BY <1>1, <1>2, <1>3 DEF Present, IsTerminal
  <2> QED BY <1>2, <2>1, LocalKeeps
<1>6. ASSUME NEW phase \in EndPhases, NEW note \in SUBSET {"error"}, NEW image,
             Finish(a, att[a], phase, note, image), ImageOK(image.att, image.ops)
      PROVE  HoldInv'
  BY <1>1, <1>2, <1>6, EndHolds
<1>7. /\ {"cancelled", "needs_input", "failed"} \subseteq EndPhases
      /\ {} \in SUBSET {"error"} /\ {"error"} \in SUBSET {"error"}
  BY DEF EndPhases
<1>8. CASE ExportEnd(a)
  <2>1. \/ Finish(a, att[a], "cancelled", {}, OnDisk)
        \/ Finish(a, att[a], "needs_input", {}, OnDisk)
        \/ Finish(a, att[a], "failed", {"error"}, OnDisk)
    BY <1>8 DEF ExportEnd
  <2> QED BY <1>4, <1>6, <1>7, <2>1
<1>9. CASE ExportCommit(a)
  <2>1. \/ /\ att' = m /\ dAtt' = att' /\ dOps' = ops'
           /\ hooks' = hooks \cup {a} \/ hooks' = hooks
           /\ creds' = creds
        \/ \E image \in {OnDisk, [att |-> m, ops |-> ops]} : Finish(a, att[a], "failed", {"error"}, image)
    BY <1>9 DEF ExportCommit, done, m, Save, SaveImage
  <2>2. CASE /\ att' = m /\ dAtt' = att' /\ dOps' = ops'
             /\ hooks' = hooks \cup {a} \/ hooks' = hooks
             /\ creds' = creds
    <3>1. ImageOK(att', ops') /\ ImageOK(dAtt', dOps')
      BY <1>1, <1>5, <2>2
    <3>2. Own(a)'
      BY <1>1, <1>2, <1>3, <2>2, ConstantsAssumption DEF Own, Occupies, Present, CommittedExport
    <3> QED BY <1>1, <1>2, <1>3, <2>2, <3>1, <3>2, HoldStep
  <2>3. ASSUME NEW image \in {OnDisk, [att |-> m, ops |-> ops]},
               Finish(a, att[a], "failed", {"error"}, image)
        PROVE  HoldInv'
    <3>1. ImageOK(image.att, image.ops)
      BY <1>4, <1>5, <2>3
    <3> QED BY <1>6, <1>7, <2>3, <3>1
  <2> QED BY <2>1, <2>2, <2>3
<1> QED BY <1>8, <1>9

\* A permission request on the receipt belongs to an attempt that is there.
LEMMA AskedIsPresent ==
    ASSUME EngineInv, HoldInv, NEW a \in Attempts, att[a].perm # NoPerm PROVE Present(a)
<1>1. exec[a] \in {"run", "export"} \/ CommittedExport(a)
  BY DEF HoldInv, Held, Own
<1> QED BY <1>1 DEF EngineInv, RunningIsLive, CommittedExport, Present, LivePhases

\* Parks, verdicts and abandoned calls.
LEMMA PermissionsHolds ==
    ASSUME TypeOK, EngineInv, HoldInv, NEW a \in Attempts, NEW p \in Perms, Permissions(a, p)
    PROVE  HoldInv'
<1>1. att[a] \in Record /\ att \in [Attempts -> Record] /\ Own(a)
  BY DEF TypeOK, HoldInv, Held
<1>2. proc = "down" => hooks = {}
  BY DEF HoldInv, Held
<1>3. CASE ParkOnPermission(a, p)
  <2> DEFINE f == ParkedOn(att[a], p)
  <2>1. /\ UNCHANGED <<proc, ops, exec, creds, shutdown, hooks>> /\ Present(a) /\ ~IsTerminal(a)
        /\ gate[a] # "none" /\ att' = [att EXCEPT ![a] = f]
        /\ gate'[a] = p \/ gate'[a] = "idle"
        /\ \A b \in Attempts \ {a} : gate'[b] = gate[b]
        /\ DiskFollows
    <3>1. DiskFollows
      BY <1>3, SaveFollows DEF ParkOnPermission
    <3> QED BY <1>3, <3>1 DEF ParkOnPermission, TypeOK
  <2>2. f.phase = "needs_input" /\ f.perm = p /\ Alike(att[a], f)
    BY <1>1 DEF ParkedOn, Alike, Record
  <2> HIDE DEF f
  <2>3. att'[a] = f /\ exec[a] = "run" /\ \A b \in Attempts \ {a} : att'[b] = att[b]
    BY <1>1, <2>1 DEF EngineInv, RunningIsLive
  <2>4. Own(a)'
    BY <1>1, <2>1, <2>2, <2>3, ConstantsAssumption DEF Own, Occupies, Present, Alike
  <2>5. /\ att'[a].phase # "absent" /\ att[a].phase \notin Terminal
        /\ "holds" \in att'[a].flags <=> "holds" \in att[a].flags
        /\ "cancelPending" \in att[a].flags <=> "cancelPending" \in att'[a].flags
    BY <2>1, <2>2, <2>3 DEF Alike, IsTerminal
  <2> QED BY <1>2, <2>1, <2>3, <2>4, <2>5, PatchHolds
<1>4. CASE AbandonPermission(a, p)
  <2>1. /\ UNCHANGED <<proc, ops, exec, creds, shutdown, hooks>>
        /\ gate'[a] \in {"none", "idle"}
        /\ \A b \in Attempts \ {a} : gate'[b] = gate[b]
        /\ \/ att[a].perm = p /\ att' = [att EXCEPT ![a] = Abandoned(att[a])]
           \/ att' = att
        /\ DiskFollows
    <3>1. DiskFollows
      BY <1>4, SaveFollows DEF AbandonPermission, disk, DiskFollows
    <3> QED BY <1>4, <3>1 DEF AbandonPermission, TypeOK
  <2>2. CASE att' = att
    <3>1. Own(a)'
      BY <1>1, <2>1, <2>2, ConstantsAssumption DEF Own, Occupies, Present, CommittedExport
    <3>2. ImageOK(att', ops')
      BY <2>1, <2>2 DEF HoldInv
    <3>3. ImageOK(dAtt', dOps')
      BY <2>1, <3>2, DiskKeeps
    <3>4. proc = "down" => creds' = {} /\ hooks' = {} /\ shutdown' = {}
      BY <2>1 DEF HoldInv, Held
    <3> QED BY <2>1, <2>2, <3>1, <3>2, <3>3, <3>4, HoldStep
  <2>3. CASE att[a].perm = p /\ att' = [att EXCEPT ![a] = Abandoned(att[a])]
    <3> DEFINE f == Abandoned(att[a])
    <3>1. Present(a)
      BY <2>3, AskedIsPresent, ConstantsAssumption
    <3>2. f.phase = att[a].phase /\ f.perm = NoPerm /\ Alike(att[a], f)
      BY <1>1 DEF Abandoned, Alike, Record
    <3>3. att'[a] = f /\ \A b \in Attempts \ {a} : att'[b] = att[b]
      BY <1>1, <2>3
    <3> HIDE DEF f
    <3>4. Own(a)'
      BY <1>1, <2>1, <3>1, <3>2, <3>3, ConstantsAssumption
         DEF Own, Occupies, Present, Alike, CommittedExport
    <3>5. /\ att'[a].phase = att[a].phase /\ att'[a].phase # "absent"
          /\ "holds" \in att'[a].flags <=> "holds" \in att[a].flags
          /\ "cancelPending" \in att[a].flags <=> "cancelPending" \in att'[a].flags
      BY <3>1, <3>2, <3>3 DEF Alike, Present
    <3> QED BY <1>2, <2>1, <3>1, <3>3, <3>4, <3>5, PatchHolds
  <2> QED BY <2>1, <2>2, <2>3
<1>5. CASE AskPermission(a, p) \/ ParkRefused(a, p) \/ TakeVerdict(a, p) \/ CallEnds(a, p)
  <2>1. UNCHANGED <<proc, att, ops, dAtt, dOps, exec, gate, creds, hooks, shutdown>>
    BY <1>5 DEF AskPermission, ParkRefused, TakeVerdict, CallEnds, memory, disk, running
  <2> QED BY <2>1, SameHolds
<1> QED BY <1>3, <1>4, <1>5 DEF Permissions

-----------------------------------------------------------------------------
(* Maintenance and the process                                              *)

\* Records that hold and remember the same make the same image.
LEMMA AlikeImage ==
    ASSUME NEW m, NEW n, NEW o \in SUBSET Operations, ImageOK(m, o),
           \A b \in Attempts :
                /\ Alike(m[b], n[b])
                /\ n[b].phase = "absent" <=> m[b].phase = "absent"
                /\ m[b].phase \in Terminal => n[b].phase \in Terminal
    PROVE  ImageOK(n, o)
<1>1. Fits(n)
  <2>1. Holders(n) \subseteq Holders(m)
    BY DEF Holders, Alike
  <2> QED BY <2>1, FewerFit DEF ImageOK
<1>2. Rooted(n, o)
  BY DEF ImageOK, Rooted, Operations
<1>3. Remembers(n, o)
  <2>1. SUFFICES ASSUME NEW b \in Attempts, NEW id \in RequestIDs, CancelOp(b, id) \in o
                 PROVE  Cancelled(n[b], b, o)
    BY DEF Remembers
  <2>2. Cancelled(m[b], b, o)
    BY <2>1 DEF ImageOK, Remembers
  <2> QED BY <2>2 DEF Cancelled, Alike
<1> QED BY <1>1, <1>2, <1>3 DEF ImageOK

\* The end of a hook and the passing of time.
LEMMA MaintenanceHolds ==
    ASSUME TypeOK, EngineInv, HoldInv, NEW a \in Attempts, Maintenance(a) PROVE HoldInv'
<1>1. /\ att[a] \in Record /\ att \in [Attempts -> Record] /\ dAtt \in [Attempts -> Record]
      /\ Own(a) /\ ops \in SUBSET Operations /\ dOps \in SUBSET Operations
  BY DEF TypeOK, HoldInv, Held
<1>2. ASSUME NEW result \in {"owed", "settled"}, HookEnds(a, result) PROVE HoldInv'
  <2> DEFINE f == Hooked(att[a], result)
  <2>1. /\ UNCHANGED <<proc, ops, exec, gate, creds, shutdown>> /\ a \in hooks
        /\ hooks' = hooks \ {a} /\ att' = [att EXCEPT ![a] = f] /\ DiskFollows
    <3>1. DiskFollows
      BY <1>2, SaveFollows DEF HookEnds
    <3> QED BY <1>2, <3>1 DEF HookEnds, running
  <2>2. f.phase = att[a].phase /\ f.perm = att[a].perm /\ Alike(att[a], f)
    BY <1>1 DEF Hooked, Alike, Record
  <2> HIDE DEF f
  <2>3. Present(a) /\ proc # "down"
    BY <1>1, <2>1 DEF Own, HoldInv, Held
  <2>4. att'[a] = f /\ \A b \in Attempts \ {a} : att'[b] = att[b]
    BY <1>1, <2>1
  <2>5. Own(a)'
    BY <1>1, <2>1, <2>2, <2>3, <2>4 DEF Own, Occupies, Present, Alike, CommittedExport
  <2>6. /\ att'[a].phase = att[a].phase /\ att'[a].phase # "absent"
        /\ "holds" \in att'[a].flags <=> "holds" \in att[a].flags
        /\ "cancelPending" \in att[a].flags <=> "cancelPending" \in att'[a].flags
    BY <2>2, <2>3, <2>4 DEF Alike, Present
  <2> QED BY <2>1, <2>3, <2>4, <2>5, <2>6, PatchHolds
<1>3. CASE Age(a)
  <2>1. /\ UNCHANGED <<proc, ops, dOps, exec, gate, creds, hooks, shutdown>>
        /\ att' = [att EXCEPT ![a] = Aged(att[a])]
        /\ dAtt' = [dAtt EXCEPT ![a] = Aged(dAtt[a])]
    BY <1>3 DEF Age, running
  <2>2. \A r \in Record : Aged(r).phase = r.phase /\ Aged(r).perm = r.perm /\ Alike(r, Aged(r))
    BY DEF Aged, Alike, Record
  <2>3. \A r : Alike(r, r)
    BY DEF Alike
  <2>4. \A b \in Attempts :
          /\ att'[b].phase = att[b].phase /\ att'[b].perm = att[b].perm /\ Alike(att[b], att'[b])
          /\ dAtt'[b].phase = dAtt[b].phase /\ Alike(dAtt[b], dAtt'[b])
    BY <1>1, <2>1, <2>2, <2>3
  <2>5. ImageOK(att', ops) /\ ImageOK(dAtt', dOps)
    <3>1. ImageOK(att, ops) /\ ImageOK(dAtt, dOps)
      BY DEF HoldInv
    <3>2. ImageOK(att', ops)
      BY <1>1, <2>4, <3>1, AlikeImage
    <3>3. ImageOK(dAtt', dOps)
      BY <1>1, <2>4, <3>1, AlikeImage
    <3> QED BY <3>2, <3>3
  <2>6. ASSUME NEW b \in Attempts PROVE Own(b)'
    <3>1. Own(b)
      BY DEF HoldInv, Held
    <3> QED BY <2>1, <2>4, <3>1 DEF Own, Occupies, Present, Alike, CommittedExport
  <2> QED BY <2>1, <2>5, <2>6 DEF HoldInv, Held
<1> QED BY <1>2, <1>3 DEF Maintenance

\* The sweep drops attempts with everything that is held for them.
LEMMA SweepHolds ==
    ASSUME TypeOK, EngineInv, HoldInv, Sweep PROVE HoldInv'
<1>1. PICK S \in PurgeSets(att) :
        /\ att' = Without(att, S) /\ ops' = OpsWithout(ops, S)
        /\ creds' = creds \ S /\ shutdown' = shutdown \ S
  BY DEF Sweep
<1>2. /\ UNCHANGED <<proc, exec, gate, hooks>> /\ proc = "up"
      /\ \A b \in S : exec[b] = "none" /\ gate[b] = "none" /\ b \notin hooks
  BY DEF Sweep, running, PurgeSets, Purgeable
<1>3. \A b \in Attempts : att'[b] = IF b \in S THEN Absent ELSE att[b]
  BY <1>1 DEF Without
<1>4. ImageOK(att', ops')
  <2>1. ops \in SUBSET Operations /\ ImageOK(att, ops)
    BY DEF TypeOK, HoldInv
  <2> QED BY <1>1, <2>1, PurgedImage
<1>5. ImageOK(dAtt', dOps')
  <2>1. DiskFollows
    BY SaveFollows DEF Sweep
  <2> QED BY <1>4, <2>1, DiskKeeps
<1>6. ASSUME NEW b \in Attempts PROVE Own(b)'
  <2>1. CASE b \in S
    <3>1. att'[b].phase = "absent" /\ att'[b].perm = NoPerm
      BY <1>3, <2>1 DEF Absent
    <3>2. b \notin creds' \cup hooks' \cup shutdown' /\ exec'[b] = "none" /\ gate'[b] = "none"
      BY <1>1, <1>2, <2>1
    <3> QED BY <3>1, <3>2, ConstantsAssumption DEF Own, Occupies
  <2>2. CASE b \notin S
    <3>1. Own(b)
      BY DEF HoldInv, Held
    <3> QED BY <1>1, <1>2, <1>3, <2>2, <3>1, OwnSame
  <2> QED BY <2>1, <2>2
<1> QED BY <1>2, <1>4, <1>5, <1>6 DEF HoldInv, Held

\* The empty image, of a new runner and of one that is down.
LEMMA EmptyImage ==
    ASSUME NEW m, \A b \in Attempts : m[b] = Absent PROVE ImageOK(m, {})
<1>1. Holders(m) = {}
  BY DEF Holders, Absent
<1>2. Cardinality(Holders(m)) = 0
  BY <1>1, FS_EmptySet
<1> QED BY <1>2, ConstantsAssumption DEF ImageOK, Fits, Rooted, Remembers

\* The end of the process lets everything go and leaves the disk as it was.
LEMMA DiesHolds ==
    ASSUME HoldInv, Dies PROVE HoldInv'
<1>1. /\ \A b \in Attempts : att'[b] = Absent /\ exec'[b] = "none" /\ gate'[b] = "none"
      /\ ops' = {} /\ creds' = {} /\ hooks' = {} /\ shutdown' = {}
      /\ dAtt' = dAtt /\ dOps' = dOps
  BY DEF Dies, disk
<1>2. ImageOK(att', ops') /\ ImageOK(dAtt', dOps')
  BY <1>1, EmptyImage DEF HoldInv
<1>3. \A b \in Attempts : Own(b)'
  BY <1>1, ConstantsAssumption DEF Own, Occupies, Absent
<1> QED BY <1>1, <1>2, <1>3 DEF HoldInv, Held

\* Recovery and the purge of New keep what the file promises, and raise hooks
\* only for attempts that are left.
LEMMA RestartHolds ==
    ASSUME TypeOK, EngineInv, HoldInv, Restart PROVE HoldInv'
<1> DEFINE m == [a \in Attempts |-> Recovered(dAtt[a])]
<1>1. PICK S \in PurgeSets(m) : att' = Without(m, S) /\ ops' = OpsWithout(dOps, S)
  BY DEF Restart
<1>2. /\ \A b \in Attempts : exec'[b] = "none" /\ gate'[b] = "none"
      /\ proc' = "up" /\ creds' = {} /\ shutdown' = {}
      /\ dAtt' = att' /\ dOps' = ops'
  BY DEF Restart, running, EngineInv, DownIsEmpty, RunningIsLive, Save, SaveImage, HoldInv, Held
<1>3. \A b \in hooks' : b \in Attempts /\ att'[b].phase # "absent"
  <2>1. hooks' \subseteq {b \in Attempts : HookDue(att'[b])}
    BY DEF Restart
  <2> QED BY <2>1 DEF HookDue, Terminal
<1>4. \A r \in Record :
        /\ Alike(r, Recovered(r)) /\ Recovered(r).perm = NoPerm
        /\ Recovered(r).phase = "absent" <=> r.phase = "absent"
        /\ r.phase \in Terminal => Recovered(r).phase \in Terminal
        /\ Recovered(r).phase # "accepted"
  BY DEF Recovered, Alike, Record, Terminal, Phases
<1>5. \A b \in Attempts : dAtt[b] \in Record /\ m[b] = Recovered(dAtt[b])
  BY DEF TypeOK
<1> HIDE DEF m
<1>6. ImageOK(m, dOps) /\ dOps \in SUBSET Operations
  <2>1. ImageOK(dAtt, dOps) /\ dOps \in SUBSET Operations
    BY DEF HoldInv, TypeOK
  <2>2. \A b \in Attempts :
          /\ Alike(dAtt[b], m[b])
          /\ m[b].phase = "absent" <=> dAtt[b].phase = "absent"
          /\ dAtt[b].phase \in Terminal => m[b].phase \in Terminal
    BY <1>4, <1>5
  <2> QED BY <2>1, <2>2, AlikeImage
<1>7. ImageOK(att', ops') /\ ImageOK(dAtt', dOps')
  BY <1>1, <1>2, <1>6, PurgedImage
<1>8. \A b \in Attempts : att'[b].perm = NoPerm /\ att'[b].phase # "accepted"
  <2>1. \A b \in Attempts : att'[b] = IF b \in S THEN Absent ELSE m[b]
    BY <1>1 DEF Without
  <2> QED BY <1>4, <1>5, <2>1 DEF Absent
<1>9. \A b \in Attempts : Own(b)'
  BY <1>2, <1>3, <1>8, ConstantsAssumption DEF Own, Occupies, Present
<1> QED BY <1>2, <1>7, <1>9 DEF HoldInv, Held

\* Sweep, Close, its end, a crash and New.
LEMMA ProcessHolds ==
    ASSUME TypeOK, EngineInv, HoldInv, Process PROVE HoldInv'
<1>1. CASE Close
  <2>1. /\ UNCHANGED <<att, ops, dAtt, dOps, exec, gate, creds, hooks>> /\ proc' = "closing"
        /\ shutdown' = shutdown \cup {b \in Attempts : exec[b] # "none"}
    BY <1>1 DEF Close, memory, disk
  <2>2. \A b \in Attempts : exec[b] # "none" => Present(b)
    BY DEF EngineInv, RunningIsLive, LivePhases, Present, TypeOK
  <2>3. ASSUME NEW b \in Attempts PROVE Own(b)'
    <3>1. Own(b) /\ (b \in shutdown' => b \in shutdown \/ exec[b] # "none")
      BY <2>1 DEF HoldInv, Held
    <3> QED BY <2>1, <2>2, <3>1 DEF Own, Occupies, Present, CommittedExport
  <2> QED BY <2>1, <2>3 DEF HoldInv, Held
<1> QED BY <1>1, SweepHolds, DiesHolds, RestartHolds DEF Process, CloseDone, Crash

-----------------------------------------------------------------------------
(* Theorems                                                                 *)

\* HoldInv holds in every reachable state.
THEOREM HoldInvariant == Spec => []HoldInv
<1>1. Init => HoldInv
  <2> SUFFICES ASSUME Init PROVE HoldInv
    OBVIOUS
  <2>1. /\ \A b \in Attempts : att[b] = Absent /\ dAtt[b] = Absent /\ exec[b] = "none" /\ gate[b] = "none"
        /\ ops = {} /\ dOps = {} /\ creds = {} /\ hooks = {} /\ shutdown = {}
    BY DEF Init
  <2>2. ImageOK(att, ops) /\ ImageOK(dAtt, dOps)
    BY <2>1, EmptyImage
  <2>3. \A b \in Attempts : Own(b)
    BY <2>1, ConstantsAssumption DEF Own, Occupies, Absent
  <2> QED BY <2>1, <2>2, <2>3 DEF HoldInv, Held
<1>2. TypeOK /\ TypeOK' /\ EngineInv /\ HoldInv /\ [Next]_vars => HoldInv'
  <2> SUFFICES ASSUME TypeOK, TypeOK', EngineInv, HoldInv, [Next]_vars PROVE HoldInv'
    OBVIOUS
  <2>1. ASSUME NEW a \in Attempts, Execution(a) PROVE HoldInv'
    <3>1. CASE ClockExpires(a)
      <4>1. UNCHANGED <<proc, att, ops, dAtt, dOps, exec, gate, creds, hooks, shutdown>>
        BY <3>1 DEF ClockExpires, memory, disk
      <4> QED BY <4>1, SameHolds
    <3> QED BY <2>1, <3>1, EventHolds, ExecEndHolds, ExportHolds DEF Execution
  <2>2. ASSUME NEW op \in Operations, Replay(op) PROVE HoldInv'
    <3>1. UNCHANGED <<proc, att, ops, dAtt, dOps, exec, gate, creds, hooks, shutdown>>
      BY <2>2 DEF Replay, memory, disk, running
    <3> QED BY <3>1, SameHolds
  <2>3. CASE UNCHANGED vars
    <3>1. UNCHANGED <<proc, att, ops, dAtt, dOps, exec, gate, creds, hooks, shutdown>>
      BY <2>3 DEF vars, memory, disk, running
    <3> QED BY <3>1, SameHolds
  <2> QED BY <2>1, <2>2, <2>3, RequestHolds, PermissionsHolds, MaintenanceHolds, ProcessHolds
      DEF Next
<1> QED BY <1>1, <1>2, TypeCorrect, EngineSafe, PTL DEF Spec

\* A permission request on a receipt is one whose adapter still runs, or whose
\* Git result is or was exported, and it is the one the blocked call waits for.
THEOREM PermissionStaysLive == Spec => []PermissionIsLive
<1>1. HoldInv => PermissionIsLive
  BY DEF HoldInv, Held, Own, PermissionIsLive
<1> QED BY <1>1, HoldInvariant, PTL

\* Credentials are held for a turn that executes, reservations within the
\* capacity, operations, hooks and shutdown marks for an attempt that exists.
THEOREM HoldingsStayOwed == Spec => []HoldingsAreOwed
<1>1. TypeOK /\ HoldInv => HoldingsAreOwed
  <2> SUFFICES ASSUME TypeOK, HoldInv PROVE HoldingsAreOwed
    OBVIOUS
  <2>1. \A a \in Attempts : Own(a)
    BY DEF HoldInv, Held
  <2>2. CredentialNotIdle
    BY <2>1 DEF Own, CredentialNotIdle, TypeOK
  <2>3. ResourceNotOvercommitted
    <3>1. \A a \in Users : exec[a] = "run" => "holds" \in att[a].flags
      BY <2>1, ConstantsAssumption DEF Own, Occupies
    <3> QED BY <3>1 DEF HoldInv, ImageOK, Fits, Holders, ResourceNotOvercommitted
  <2>4. NothingOrphaned
    <3>1. \A a \in creds \cup hooks \cup shutdown : Present(a)
      BY <2>1 DEF Own, TypeOK
    <3> QED BY <3>1 DEF HoldInv, ImageOK, Rooted, NothingOrphaned, Present
  <2> QED BY <2>2, <2>3, <2>4 DEF HoldingsAreOwed
<1> QED BY <1>1, HoldInvariant, TypeCorrect, PTL

\* Whatever image a crash leaves on disk, it has not forgotten a cancel that it
\* records: the attempt is over, still marked as cancelled, or was resumed.
THEOREM CancelOnDiskIsRemembered == Spec => []Remembers(dAtt, dOps)
<1>1. HoldInv => Remembers(dAtt, dOps)
  BY DEF HoldInv, ImageOK
<1> QED BY <1>1, HoldInvariant, PTL

-----------------------------------------------------------------------------
(* What a client was told, when no write fails                              *)

\* Every request is answered out of the image on disk: memory and disk agree, an
\* accepted attempt only waits for its export, whatever was answered or launched
\* is on disk, a live attempt was launched by its start request, and, unless it
\* carried a verdict or waits for an export, a resume launched its turn.
Settled ==
    /\ proc # "down" =>
        /\ dOps = ops
        /\ \A a \in Attempts :
            /\ dAtt[a].phase = att[a].phase
            /\ att[a].phase = "accepted" => exec[a] = "export"
    /\ proc = "down" => \A a \in Attempts : att[a] = Absent
    /\ acked \cup spent \subseteq dOps
    /\ \A a \in Attempts : Live(dAtt[a]) => StartOp(a) \in spent
    /\ Perms = {} /\ Exports = {} => \A op \in dOps : op.kind = "resume" => op \in spent

\* The bodies of OneTurnPerOperation, CancelFences and DurableTerminalIsFinal.
LaunchIsPaid ==
    \A a \in Attempts : exec[a] # "run" /\ exec'[a] = "run" =>
        \E op \in spent' \ spent : op.attempt = a
FenceHolds ==
    \A a \in Attempts, id \in RequestIDs :
        CancelOp(a, id) \in acked /\ StartOp(a) \notin spent => exec'[a] # "run"
EndIsKept ==
    \A a \in Attempts : dAtt[a].phase \in Terminal =>
        dAtt'[a].phase \in {dAtt[a].phase, "absent"}
Kept == LaunchIsPaid /\ FenceHolds /\ EndIsKept

\* A step of attempt a that launches and drops nothing.
CalmStep(a) ==
    /\ proc' = proc /\ spent' = spent
    /\ ops \subseteq ops' /\ acked' \subseteq acked \cup ops'
    /\ proc = "down" =>
        /\ dOps' = dOps /\ acked' = acked
        /\ \A b \in Attempts : att'[b] = Absent /\ dAtt'[b].phase = dAtt[b].phase
    /\ proc # "down" => dOps' = ops' /\ \A b \in Attempts : dAtt'[b].phase = att'[b].phase
    /\ \A b \in Attempts : exec'[b] = "run" => exec[b] = "run"
    /\ \A b \in Attempts \ {a} : att'[b].phase = att[b].phase /\ exec'[b] = exec[b]
    /\ att'[a].phase = "accepted" => exec'[a] = "export"
    /\ att'[a].phase \in Terminal \cup {"absent"} \/ Live(att[a])
    /\ att[a].phase \in Terminal => att'[a].phase = att[a].phase
    /\ \A op \in ops' : op \in ops \/ op.kind = "cancel" \/ Perms # {} \/ Exports # {}

\* A step that launches attempt a for operation op and drops the attempts in S.
LaunchStep(a, op, S) ==
    /\ proc = "up" /\ proc' = "up" /\ a \notin S
    /\ op \notin ops /\ op.attempt = a
    /\ ops' = OpsWithout(ops, S) \cup {op}
    /\ spent' = OpsWithout(spent, S) \cup {op}
    /\ acked' = OpsWithout(acked, S) \cup {op}
    /\ dOps' = ops' /\ dAtt' = att'
    /\ \A b \in Attempts \ {a} :
        /\ exec'[b] = exec[b]
        /\ att'[b].phase = IF b \in S THEN "absent" ELSE att[b].phase
    /\ exec'[a] = "run" /\ att'[a].phase = "starting"
    /\ (~Present(a) /\ op = StartOp(a)) \/ Live(att[a])

\* An answered cancel without a launch: the attempt is over, on disk.
LEMMA FencedIsOver ==
    ASSUME EngineInv, HoldInv, Settled, NEW a \in Attempts, NEW id \in RequestIDs,
           CancelOp(a, id) \in acked, StartOp(a) \notin spent
    PROVE  dAtt[a].phase \in Terminal /\ exec[a] # "run"
<1>1. CancelOp(a, id) \in dOps /\ ~Live(dAtt[a])
  BY DEF Settled
<1>2. dAtt[a].phase # "absent"
  BY <1>1 DEF HoldInv, ImageOK, Rooted, CancelOp
<1>3. exec[a] # "run"
  BY <1>1 DEF EngineInv, LaunchIsDurable, Live
<1> QED BY <1>1, <1>2, <1>3 DEF Live

LEMMA CalmSettles ==
    ASSUME TypeOK, EngineInv, HoldInv, Settled, NEW a \in Attempts, CalmStep(a)
    PROVE  Settled' /\ Kept
<1>1. CASE proc = "down"
  <2>1. Settled'
    BY <1>1 DEF CalmStep, Settled, Live
  <2>2. LaunchIsPaid /\ EndIsKept
    BY <1>1 DEF CalmStep, LaunchIsPaid, EndIsKept
  <2>3. FenceHolds
    BY FencedIsOver DEF CalmStep, FenceHolds
  <2> QED BY <2>1, <2>2, <2>3 DEF Kept
<1>2. CASE proc # "down"
  <2>1. /\ dOps = ops /\ dOps' = ops' /\ ops \subseteq ops' /\ spent' = spent
        /\ \A b \in Attempts :
            /\ dAtt[b].phase = att[b].phase /\ dAtt'[b].phase = att'[b].phase
            /\ att[b].phase = "accepted" => exec[b] = "export"
    BY <1>2 DEF CalmStep, Settled
  <2>2. \A b \in Attempts : att'[b].phase = "accepted" => exec'[b] = "export"
    BY <2>1 DEF CalmStep
  <2>3. acked' \cup spent' \subseteq dOps'
    BY <2>1 DEF CalmStep, Settled
  <2>4. \A b \in Attempts : Live(dAtt'[b]) => StartOp(b) \in spent'
    BY <2>1 DEF CalmStep, Settled, Live
  <2>5. Perms = {} /\ Exports = {} => \A op \in dOps' : op.kind = "resume" => op \in spent'
    BY <2>1 DEF CalmStep, Settled
  <2>6. Settled'
    BY <1>2, <2>1, <2>2, <2>3, <2>4, <2>5 DEF CalmStep, Settled
  <2>7. LaunchIsPaid /\ EndIsKept
    BY <2>1 DEF CalmStep, LaunchIsPaid, EndIsKept
  <2>8. FenceHolds
    BY FencedIsOver DEF CalmStep, FenceHolds
  <2> QED BY <2>6, <2>7, <2>8 DEF Kept
<1> QED BY <1>1, <1>2

LEMMA LaunchSettles ==
    ASSUME TypeOK, EngineInv, HoldInv, Settled, NEW a \in Attempts, NEW op, NEW S, LaunchStep(a, op, S)
    PROVE  Settled' /\ Kept
<1>1. /\ proc' = "up" /\ a \notin S /\ op \notin ops /\ op.attempt = a
      /\ ops' = OpsWithout(ops, S) \cup {op} /\ spent' = OpsWithout(spent, S) \cup {op}
      /\ acked' = OpsWithout(acked, S) \cup {op}
      /\ dOps' = ops' /\ dAtt' = att' /\ exec'[a] = "run" /\ att'[a].phase = "starting"
      /\ \A b \in Attempts \ {a} :
            exec'[b] = exec[b] /\ (att'[b].phase = IF b \in S THEN "absent" ELSE att[b].phase)
      /\ (~Present(a) /\ op = StartOp(a)) \/ Live(att[a])
  BY DEF LaunchStep
<1>2. /\ dOps = ops /\ acked \subseteq ops /\ spent \subseteq ops
      /\ \A b \in Attempts :
            /\ dAtt[b].phase = att[b].phase
            /\ att[b].phase = "accepted" => exec[b] = "export"
            /\ Live(att[b]) => StartOp(b) \in spent
  BY DEF LaunchStep, Settled, Live
<1>3. \A x, o : x \in OpsWithout(o, S) <=> x \in o /\ x.attempt \notin S
  BY DEF OpsWithout
<1>4. Settled'
  <2>1. \A b \in Attempts : att'[b].phase = "accepted" => exec'[b] = "export"
    BY <1>1, <1>2
  <2>2. acked' \cup spent' \subseteq dOps'
    BY <1>1, <1>2, <1>3
  <2>3. ASSUME NEW b \in Attempts, Live(dAtt'[b]) PROVE StartOp(b) \in spent'
    <3>1. CASE b = a
      <4>1. op = StartOp(a) \/ StartOp(a) \in spent
        BY <1>1, <1>2
      <4> QED BY <1>1, <1>3, <3>1, <4>1 DEF StartOp
    <3>2. CASE b # a
      <4>1. b \notin S /\ Live(att[b])
        BY <1>1, <2>3, <3>2 DEF Live
      <4> QED BY <1>1, <1>2, <1>3, <4>1 DEF StartOp
    <3> QED BY <3>1, <3>2
  <2>4. Perms = {} /\ Exports = {} => \A x \in dOps' : x.kind = "resume" => x \in spent'
    BY <1>1, <1>2, <1>3 DEF Settled
  <2> QED BY <1>1, <2>1, <2>2, <2>3, <2>4 DEF Settled
<1>5. LaunchIsPaid
  <2>1. op \in spent' \ spent
    BY <1>1, <1>2
  <2> QED BY <1>1, <2>1 DEF LaunchIsPaid
<1>6. FenceHolds
  <2>1. SUFFICES ASSUME NEW b \in Attempts, NEW id \in RequestIDs,
                        CancelOp(b, id) \in acked, StartOp(b) \notin spent
                 PROVE  exec'[b] # "run"
    BY DEF FenceHolds
  <2>2. dAtt[b].phase \in Terminal /\ exec[b] # "run"
    BY <2>1, FencedIsOver
  <2>3. b # a
    BY <1>1, <1>2, <2>2 DEF Present, Live, Terminal
  <2> QED BY <1>1, <2>2, <2>3
<1>7. EndIsKept
  <2>1. att[a].phase \notin Terminal
    BY <1>1 DEF Present, Live, Terminal
  <2> QED BY <1>1, <1>2, <2>1 DEF EndIsKept
<1> QED BY <1>4, <1>5, <1>6, <1>7 DEF Kept

-----------------------------------------------------------------------------
(* The actions, when no write fails                                         *)

\* Every handler ends well, and every save replaces the file.
LEMMA NoFault ==
    ASSUME Faults = {}
    PROVE  /\ \A w : Ends(w) = {"ok"}
           /\ \A ok : ok = TRUE /\ Save(ok) => dAtt' = att' /\ dOps' = ops'
  BY DEF Ends, Save, SaveImage

\* So does finishLocked.
LEMMA FinishSaves ==
    ASSUME Faults = {}, TypeOK, NEW a \in Attempts, NEW r \in Record, NEW phase \in EndPhases,
           NEW note \in SUBSET {"error"}, NEW image, Finish(a, r, phase, note, image)
    PROVE  /\ dAtt' = att' /\ dOps' = ops'
           /\ att'[a].phase \in EndPhases
           /\ \A b \in Attempts \ {a} : att'[b] = att[b]
<1>1. dAtt' = att' /\ dOps' = ops'
  BY DEF Finish
<1> QED BY <1>1, FinishHolds

\* A step of attempt a whose new memory is saved.
LEMMA SavedIsCalm ==
    ASSUME Settled, NEW a \in Attempts, proc # "down", UNCHANGED <<proc, spent>>,
           ops \subseteq ops', acked' \subseteq acked \cup ops',
           dAtt' = att', dOps' = ops',
           \A b \in Attempts \ {a} : att'[b] = att[b] /\ exec'[b] = exec[b],
           exec'[a] = "run" => exec[a] = "run",
           att'[a].phase = "accepted" => exec'[a] = "export",
           att'[a].phase \in Terminal \cup {"absent"} \/ Live(att[a]),
           att[a].phase \in Terminal => att'[a].phase = att[a].phase,
           \A op \in ops' : op \in ops \/ op.kind = "cancel" \/ Perms # {} \/ Exports # {}
    PROVE  CalmStep(a)
  BY DEF CalmStep

\* A step that leaves the phases, the operations and the executions alone.
LEMMA IdleIsCalm ==
    ASSUME EngineInv, Settled, NEW a \in Attempts, UNCHANGED <<proc, ops, dOps, exec, spent>>,
           proc = "down" => acked' = acked /\ \A b \in Attempts : att'[b] = att[b],
           acked' \subseteq acked \cup ops,
           \A b \in Attempts : att'[b].phase = att[b].phase /\ dAtt'[b].phase = dAtt[b].phase
    PROVE  CalmStep(a)
<1>1. att[a].phase \in Terminal \cup {"absent"} \/ Live(att[a])
  BY DEF Live
<1>2. att[a].phase = "accepted" => exec[a] = "export"
  BY DEF Settled, Absent
<1> QED BY <1>1, <1>2 DEF CalmStep, Settled

LEMMA StartSettles ==
    ASSUME Faults = {}, TypeOK, EngineInv, HoldInv, Settled, NEW a \in Attempts,
           StartAccept(a) \/ StartRelaunch(a)
    PROVE  Settled' /\ Kept
<1>1. CASE StartAccept(a)
  <2>1. PICK S \in PurgeSets(att) : StartWith(a, S, "ok")
    BY <1>1, NoFault DEF StartAccept
  <2> DEFINE op == StartOp(a)
             f == [Accepted(a) EXCEPT !.phase = "starting"]
  <2>2. /\ att' = [Without(att, S) EXCEPT ![a] = f]
        /\ ops' = OpsWithout(ops, S) \cup {op}
        /\ spent' = OpsWithout(spent, S) \cup {op}
        /\ acked' = OpsWithout(acked, S) \cup {op}
        /\ Launch(a) /\ Save(TRUE)
    BY <2>1 DEF StartWith
  <2>3. f.phase = "starting" /\ Absent.phase = "absent"
    BY DEF Accepted, Absent
  <2>4. Without(att, S) = [b \in Attempts |-> IF b \in S THEN Absent ELSE att[b]]
    BY DEF Without
  <2> HIDE DEF f
  <2>5. /\ att'[a].phase = "starting"
        /\ \A b \in Attempts \ {a} : att'[b].phase = IF b \in S THEN "absent" ELSE att[b].phase
    BY <2>2, <2>3, <2>4
  <2>6. exec'[a] = "run" /\ \A b \in Attempts \ {a} : exec'[b] = exec[b]
    BY <2>2 DEF Launch, TypeOK
  <2>7. a \notin S /\ ~Present(a) /\ op \notin ops /\ proc = "up" /\ proc' = "up" /\ op.attempt = a
    BY <1>1 DEF StartAccept, PurgeSets, Purgeable, Present, Terminal, StartOp
  <2>8. dAtt' = att' /\ dOps' = ops'
    BY <2>2, NoFault
  <2>9. LaunchStep(a, op, S)
    BY <2>2, <2>5, <2>6, <2>7, <2>8 DEF LaunchStep
  <2> QED BY <2>9, LaunchSettles
<1>2. CASE StartRelaunch(a)
  <2>1. /\ proc = "up" /\ StartOp(a) \in ops /\ att[a].phase = "accepted"
        /\ UNCHANGED <<proc, ops>>
    BY <1>2 DEF StartRelaunch
  <2>2. exec[a] = "export"
    BY <2>1 DEF Settled
  <2>3. /\ UNCHANGED <<att, dAtt, dOps, exec, spent>> /\ acked' = acked \cup {StartOp(a)}
    BY <1>2, <2>2 DEF StartRelaunch, Ack, disk, running
  <2>4. CalmStep(a)
    BY <2>1, <2>3, IdleIsCalm
  <2> QED BY <2>4, CalmSettles
<1> QED BY <1>1, <1>2

LEMMA CancelSettles ==
    ASSUME Faults = {}, TypeOK, EngineInv, HoldInv, Settled, NEW a \in Attempts, NEW id \in RequestIDs,
           CancelUnseen(a, id) \/ CancelFinished(a, id) \/ Cancel(a, id)
    PROVE  Settled' /\ Kept
<1>1. /\ proc = "up" /\ UNCHANGED <<proc, exec, spent>>
      /\ att[a] \in Record /\ att \in [Attempts -> Record]
  BY DEF CancelUnseen, CancelFinished, Cancel, running, TypeOK
<1>2. /\ ops' = ops \cup {CancelOp(a, id)} /\ acked' = acked \cup {CancelOp(a, id)}
      /\ dOps' = ops' /\ dAtt' = att'
      /\ \A b \in Attempts \ {a} : att'[b] = att[b]
      /\ att'[a].phase # "accepted"
      /\ att'[a].phase \in Terminal \cup {"absent"} \/ Live(att[a])
      /\ att[a].phase \in Terminal => att'[a].phase = att[a].phase
  <2>1. CASE CancelUnseen(a, id)
    <3>1. att' = [att EXCEPT ![a] = Fence] /\ ~Present(a)
      BY <2>1, NoFault DEF CancelUnseen
    <3>2. /\ ops' = ops \cup {CancelOp(a, id)} /\ acked' = acked \cup {CancelOp(a, id)}
          /\ dOps' = ops' /\ dAtt' = att'
      BY <2>1, NoFault DEF CancelUnseen, SaveImage, Ack
    <3>3. att'[a].phase = "cancelled"
      BY <1>1, <3>1 DEF Fence, Absent
    <3> QED BY <1>1, <3>1, <3>2, <3>3 DEF Present, Terminal
  <2>2. CASE CancelFinished(a, id)
    <3>1. /\ att' = att /\ IsTerminal(a)
          /\ ops' = ops \cup {CancelOp(a, id)} /\ acked' = acked \cup {CancelOp(a, id)}
          /\ Save(TRUE)
      BY <2>2, NoFault DEF CancelFinished
    <3> QED BY <3>1, NoFault DEF IsTerminal, Terminal
  <2>3. CASE Cancel(a, id)
    <3> DEFINE r == Cancelling(att[a])
               image == [att |-> [att EXCEPT ![a] = r], ops |-> ops']
    <3>1. /\ Live(att[a])
          /\ ops' = ops \cup {CancelOp(a, id)} /\ acked' = acked \cup {CancelOp(a, id)}
          /\ IF exec[a] = "none"
             THEN Finish(a, r, "cancelled", {}, image)
             ELSE att' = [att EXCEPT ![a] = r] /\ Save(TRUE)
      BY <2>3, NoFault DEF Cancel, Live, Present, IsTerminal
    <3>2. r \in Record /\ r.phase = "cancelling"
      BY <1>1, PatchTypes, PatchPhases
    <3> HIDE DEF r, image
    <3>3. CASE exec[a] = "none"
      <4>1. "cancelled" \in EndPhases /\ {} \in SUBSET {"error"} /\ "accepted" \notin EndPhases
        BY DEF EndPhases
      <4>2. /\ dAtt' = att' /\ dOps' = ops' /\ att'[a].phase \in EndPhases
            /\ \A b \in Attempts \ {a} : att'[b] = att[b]
        BY <3>1, <3>2, <3>3, <4>1, FinishSaves
      <4> QED BY <3>1, <4>1, <4>2 DEF Live
    <3>4. CASE exec[a] # "none"
      <4>1. dAtt' = att' /\ dOps' = ops'
        BY <3>1, <3>4, NoFault
      <4> QED BY <1>1, <3>1, <3>2, <3>4, <4>1 DEF Live
    <3> QED BY <3>3, <3>4
  <2> QED BY <2>1, <2>2, <2>3
<1>3. \A op \in ops' : op \in ops \/ op.kind = "cancel"
  BY <1>2 DEF CancelOp
<1>4. CalmStep(a)
  BY <1>1, <1>2, <1>3, SavedIsCalm
<1> QED BY <1>4, CalmSettles

LEMMA ResumeSettles ==
    ASSUME Faults = {}, TypeOK, EngineInv, HoldInv, Settled, NEW a \in Attempts, NEW id \in RequestIDs,
           Resume(a, id)
    PROVE  Settled' /\ Kept
<1> DEFINE op == ResumeOp(a, id)
           f == Resumed(a, att[a], IF exec[a] = "none" THEN "starting" ELSE "accepted")
<1>1. /\ proc = "up" /\ proc' = "up" /\ op \notin ops /\ ops' = ops \cup {op} /\ op.attempt = a
      /\ att' = [att EXCEPT ![a] = f]
      /\ Save(TRUE) /\ acked' = acked \cup {op}
      /\ IF exec[a] = "none"
         THEN Launch(a) /\ spent' = spent \cup {op}
         ELSE UNCHANGED <<exec, spent>>
  BY NoFault DEF Resume, ResumeOp, running
<1>2. att[a].phase = "needs_input" /\ CapacityFree /\ att[a] \in Record
  BY DEF Resume, TypeOK
<1>3. f.phase = IF exec[a] = "none" THEN "starting" ELSE "accepted"
  BY <1>2, PatchPhases
<1> HIDE DEF f
<1>4. att'[a].phase = f.phase /\ Live(att[a]) /\ \A b \in Attempts \ {a} : att'[b] = att[b]
  BY <1>1, <1>2 DEF Live, Terminal, TypeOK
<1>5. dAtt' = att' /\ dOps' = ops'
  BY <1>1, NoFault
<1>6. CASE exec[a] = "none"
  <2>1. exec'[a] = "run" /\ \A b \in Attempts \ {a} : exec'[b] = exec[b]
    BY <1>1, <1>6 DEF Launch, TypeOK
  <2>2. \A o : OpsWithout(o, {}) = o
    BY DEF OpsWithout
  <2>3. LaunchStep(a, op, {})
    BY <1>1, <1>3, <1>4, <1>5, <1>6, <2>1, <2>2 DEF LaunchStep
  <2> QED BY <2>3, LaunchSettles
<1>7. CASE exec[a] # "none"
  <2>1. exec[a] = "export"
    <3>1. exec[a] # "run"
      BY <1>2, FreeIsEmpty DEF Occupies
    <3> QED BY <1>7, <3>1 DEF TypeOK
  <2>2. Exports # {}
    BY <2>1 DEF HoldInv, Held, Own
  <2>3. CalmStep(a)
    BY <1>1, <1>2, <1>3, <1>4, <1>5, <1>7, <2>1, <2>2, SavedIsCalm DEF Terminal
  <2> QED BY <2>3, CalmSettles
<1> QED BY <1>6, <1>7

LEMMA VerdictSettles ==
    ASSUME Faults = {}, TypeOK, EngineInv, HoldInv, Settled, NEW a \in Attempts, NEW p \in Perms,
           NEW id \in RequestIDs, ResumePermission(a, p, id)
    PROVE  Settled' /\ Kept
<1>1. /\ proc = "up" /\ UNCHANGED <<proc, exec, spent>> /\ att[a].phase = "needs_input"
      /\ att' = [att EXCEPT ![a] = Answered(att[a])] /\ Save(TRUE)
      /\ ops' = ops \cup {ResumeOp(a, id)} /\ acked' = acked \cup {ResumeOp(a, id)}
  BY NoFault DEF ResumePermission
<1>2. Answered(att[a]).phase = "running"
  BY PatchPhases DEF TypeOK
<1>3. att'[a].phase = "running" /\ Live(att[a]) /\ \A b \in Attempts \ {a} : att'[b] = att[b]
  BY <1>1, <1>2 DEF Live, Terminal, TypeOK
<1>4. dAtt' = att' /\ dOps' = ops'
  BY <1>1, NoFault
<1>5. CalmStep(a)
  BY <1>1, <1>3, <1>4, SavedIsCalm DEF Terminal
<1> QED BY <1>5, CalmSettles

LEMMA RequestSettles ==
    ASSUME Faults = {}, TypeOK, EngineInv, HoldInv, Settled, NEW a \in Attempts, Requests(a)
    PROVE  Settled' /\ Kept
  BY StartSettles, CancelSettles, ResumeSettles, VerdictSettles DEF Requests

LEMMA EventSettles ==
    ASSUME Faults = {}, TypeOK, EngineInv, HoldInv, Settled, NEW a \in Attempts,
           NEW s \in SUBSET {"session"},
           \/ \E kind \in {"progress", "needs_input", "cancelled", "other"} : HarnessEvent(a, kind, s)
           \/ HarnessEventFails(a, s)
    PROVE  Settled' /\ Kept
<1>1. /\ exec[a] = "run" /\ UNCHANGED <<proc, ops, exec, acked, spent>> /\ Save(TRUE)
      /\ att[a] \in Record /\ att \in [Attempts -> Record] /\ ~IsTerminal(a)
  BY NoFault DEF HarnessEvent, HarnessEventFails, running, history, TypeOK
<1>2. /\ proc # "down" /\ att[a].phase \in LivePhases
  BY <1>1 DEF EngineInv, DownIsEmpty, RunningIsLive
<1>3. /\ att'[a].phase # "accepted" /\ \A b \in Attempts \ {a} : att'[b] = att[b]
  <2>1. ASSUME NEW kind \in {"progress", "needs_input", "cancelled", "other"}, HarnessEvent(a, kind, s)
        PROVE  att'[a].phase # "accepted" /\ \A b \in Attempts \ {a} : att'[b] = att[b]
    <3>1. att' = [att EXCEPT ![a] = AfterEvent(att[a], kind, s)]
      BY <2>1 DEF HarnessEvent
    <3>2. AfterEvent(att[a], kind, s).phase = PhaseAfter(kind, att[a].phase)
      BY <1>1, PatchPhases
    <3>3. PhaseAfter(kind, att[a].phase) # "accepted"
      BY <1>2 DEF PhaseAfter, LivePhases
    <3> QED BY <1>1, <3>1, <3>2, <3>3
  <2>2. CASE HarnessEventFails(a, s)
    <3>1. att' = [att EXCEPT ![a] = EventFailed(att[a], s)]
      BY <2>2 DEF HarnessEventFails
    <3>2. EventFailed(att[a], s).phase = "cancelling"
      BY <1>1, PatchPhases
    <3> QED BY <1>1, <3>1, <3>2
  <2> QED BY <2>1, <2>2
<1>4. dAtt' = att' /\ dOps' = ops'
  BY <1>1, NoFault
<1>5. Live(att[a]) /\ att[a].phase \notin Terminal
  BY <1>2 DEF Live, LivePhases, Terminal
<1>6. CalmStep(a)
  BY <1>1, <1>2, <1>3, <1>4, <1>5, SavedIsCalm
<1> QED BY <1>6, CalmSettles

LEMMA ExecEndSettles ==
    ASSUME Faults = {}, TypeOK, EngineInv, HoldInv, Settled, NEW a \in Attempts, NEW result \in Results,
           NEW s \in SUBSET {"session"}, ExecEnd(a, result, s)
    PROVE  Settled' /\ Kept
<1> DEFINE r == WithSession(att[a], s)
           outcome == Outcome(a, result)
           note == IF result \in {"error", "foreign"} THEN {"error"} ELSE {}
<1>1. /\ exec[a] = "run" /\ UNCHANGED <<proc, ops, acked, spent>>
      /\ att[a] \in Record /\ att \in [Attempts -> Record]
      /\ exec'[a] # "run" /\ \A b \in Attempts \ {a} : exec'[b] = exec[b]
  <2>1. exec' = [exec EXCEPT ![a] = "export"] \/ exec' = [exec EXCEPT ![a] = "none"]
    BY DEF ExecEnd
  <2>2. exec[a] = "run" /\ UNCHANGED <<proc, ops, acked, spent>>
    BY DEF ExecEnd, history
  <2> QED BY <2>1, <2>2 DEF TypeOK
<1>2. proc # "down" /\ att[a].phase \in LivePhases
  BY <1>1 DEF EngineInv, DownIsEmpty, RunningIsLive
<1>3. Live(att[a]) /\ att[a].phase \notin Terminal /\ att[a].phase # "accepted"
  BY <1>2 DEF Live, LivePhases, Terminal
<1>4. r \in Record /\ r.phase = att[a].phase
  <2>1. r \in Record
    BY <1>1, PatchTypes
  <2>2. r.phase = att[a].phase
    BY <1>1, PatchPhases
  <2> QED BY <2>1, <2>2
<1>5. outcome \in EndPhases /\ note \in SUBSET {"error"} /\ "accepted" \notin EndPhases
  BY OutcomeType DEF EndPhases
<1>6. \/ att' = [att EXCEPT ![a] = r] /\ UNCHANGED disk
      \/ Finish(a, r, outcome, note, OnDisk)
  BY DEF ExecEnd
<1> HIDE DEF r, outcome, note
<1>7. CASE att' = [att EXCEPT ![a] = r] /\ UNCHANGED disk
  <2>1. /\ \A b \in Attempts : att'[b].phase = att[b].phase /\ dAtt'[b].phase = dAtt[b].phase
        /\ dOps' = dOps
    BY <1>1, <1>4, <1>7 DEF disk
  <2>2. CalmStep(a)
    BY <1>1, <1>2, <1>3, <2>1 DEF CalmStep, Settled
  <2> QED BY <2>2, CalmSettles
<1>8. CASE Finish(a, r, outcome, note, OnDisk)
  <2>1. /\ dAtt' = att' /\ dOps' = ops' /\ att'[a].phase \in EndPhases
        /\ \A b \in Attempts \ {a} : att'[b] = att[b]
    BY <1>4, <1>5, <1>8, FinishSaves
  <2>2. CalmStep(a)
    BY <1>1, <1>2, <1>3, <1>5, <2>1, SavedIsCalm
  <2> QED BY <2>2, CalmSettles
<1> QED BY <1>6, <1>7, <1>8

LEMMA ExportSettles ==
    ASSUME Faults = {}, TypeOK, EngineInv, HoldInv, Settled, NEW a \in Attempts,
           ExportEnd(a) \/ ExportCommit(a)
    PROVE  Settled' /\ Kept
<1>1. /\ exec[a] = "export" /\ UNCHANGED <<proc, ops, acked, spent>>
      /\ att[a] \in Record /\ att \in [Attempts -> Record]
      /\ exec'[a] = "none" /\ \A b \in Attempts \ {a} : exec'[b] = exec[b]
  BY DEF ExportEnd, ExportCommit, history, TypeOK
<1>2. proc # "down" /\ Live(att[a]) /\ att[a].phase \notin Terminal
  BY <1>1 DEF EngineInv, DownIsEmpty, RunningIsLive, Live, Present, IsTerminal
<1>3. \/ att' = [att EXCEPT ![a] = Committed(att[a])] /\ Save(TRUE)
      \/ \E phase \in EndPhases, note \in SUBSET {"error"}, image \in {OnDisk} :
            Finish(a, att[a], phase, note, image)
  <2>1. /\ {"cancelled", "needs_input", "failed"} \subseteq EndPhases
        /\ {} \in SUBSET {"error"} /\ {"error"} \in SUBSET {"error"}
    BY DEF EndPhases
  <2>2. CASE ExportEnd(a)
    BY <2>1, <2>2 DEF ExportEnd
  <2>3. CASE ExportCommit(a)
    BY <2>3, NoFault DEF ExportCommit
  <2> QED BY <2>2, <2>3
<1>4. /\ dAtt' = att' /\ dOps' = ops' /\ att'[a].phase # "accepted"
      /\ \A b \in Attempts \ {a} : att'[b] = att[b]
  <2>1. CASE att' = [att EXCEPT ![a] = Committed(att[a])] /\ Save(TRUE)
    <3>1. Committed(att[a]).phase = "completed"
      BY <1>1, PatchPhases
    <3>2. dAtt' = att' /\ dOps' = ops'
      BY <2>1, NoFault
    <3> QED BY <1>1, <2>1, <3>1, <3>2
  <2>2. ASSUME NEW phase \in EndPhases, NEW note \in SUBSET {"error"},
               Finish(a, att[a], phase, note, OnDisk)
        PROVE  /\ dAtt' = att' /\ dOps' = ops' /\ att'[a].phase # "accepted"
               /\ \A b \in Attempts \ {a} : att'[b] = att[b]
    <3>1. "accepted" \notin EndPhases
      BY DEF EndPhases
    <3> QED BY <1>1, <2>2, <3>1, FinishSaves
  <2> QED BY <1>3, <2>1, <2>2
<1>5. CalmStep(a)
  BY <1>1, <1>2, <1>4, SavedIsCalm
<1> QED BY <1>5, CalmSettles

LEMMA PermissionsSettle ==
    ASSUME Faults = {}, TypeOK, EngineInv, HoldInv, Settled, NEW a \in Attempts, NEW p \in Perms,
           Permissions(a, p)
    PROVE  Settled' /\ Kept
<1>1. att[a] \in Record /\ att \in [Attempts -> Record]
  BY DEF TypeOK
<1>2. CASE ParkOnPermission(a, p)
  <2>1. /\ UNCHANGED <<proc, ops, exec, acked, spent>> /\ Present(a) /\ ~IsTerminal(a)
        /\ gate[a] # "none" /\ att' = [att EXCEPT ![a] = ParkedOn(att[a], p)] /\ Save(TRUE)
    BY <1>2, NoFault DEF ParkOnPermission, history
  <2>2. ParkedOn(att[a], p).phase = "needs_input"
    BY <1>1, PatchPhases
  <2>3. exec[a] = "run" /\ proc # "down"
    BY <2>1 DEF EngineInv, DownIsEmpty, RunningIsLive
  <2>4. /\ dAtt' = att' /\ dOps' = ops' /\ att'[a].phase = "needs_input"
        /\ \A b \in Attempts \ {a} : att'[b] = att[b]
    BY <1>1, <2>1, <2>2, NoFault
  <2>5. Live(att[a]) /\ att[a].phase \notin Terminal
    BY <2>1 DEF Present, IsTerminal, Live
  <2>6. CalmStep(a)
    BY <2>1, <2>3, <2>4, <2>5, SavedIsCalm
  <2> QED BY <2>6, CalmSettles
<1>3. CASE AbandonPermission(a, p)
  <2>1. /\ UNCHANGED <<proc, ops, exec, acked, spent>>
        /\ \/ att[a].perm = p /\ att' = [att EXCEPT ![a] = Abandoned(att[a])] /\ Save(TRUE)
           \/ att' = att /\ dAtt' = dAtt /\ dOps' = dOps
    BY <1>3, NoFault DEF AbandonPermission, history, disk
  <2>2. CASE att' = att /\ dAtt' = dAtt /\ dOps' = dOps
    <3>1. CalmStep(a)
      BY <2>1, <2>2, IdleIsCalm
    <3> QED BY <3>1, CalmSettles
  <2>3. CASE att[a].perm = p /\ att' = [att EXCEPT ![a] = Abandoned(att[a])] /\ Save(TRUE)
    <3>1. proc # "down"
      BY <2>3, ConstantsAssumption DEF Settled, Absent
    <3>2. Abandoned(att[a]).phase = att[a].phase
      BY <1>1, PatchPhases
    <3>3. dAtt' = att' /\ dOps' = ops'
      BY <2>3, NoFault
    <3>4. \A b \in Attempts : att'[b].phase = att[b].phase
      BY <1>1, <2>3, <3>2
    <3>5. dOps' = dOps /\ \A b \in Attempts : dAtt'[b].phase = dAtt[b].phase
      BY <2>1, <3>1, <3>3, <3>4 DEF Settled
    <3>6. CalmStep(a)
      BY <2>1, <3>1, <3>4, <3>5, IdleIsCalm
    <3> QED BY <3>6, CalmSettles
  <2> QED BY <2>1, <2>2, <2>3
<1>4. CASE AskPermission(a, p) \/ ParkRefused(a, p) \/ TakeVerdict(a, p) \/ CallEnds(a, p)
  <2>1. UNCHANGED <<proc, att, ops, dAtt, dOps, exec, acked, spent>>
    BY <1>4 DEF AskPermission, ParkRefused, TakeVerdict, CallEnds, memory, disk, running, history
  <2>2. CalmStep(a)
    BY <2>1, IdleIsCalm
  <2> QED BY <2>2, CalmSettles
<1> QED BY <1>2, <1>3, <1>4 DEF Permissions

LEMMA MaintenanceSettles ==
    ASSUME Faults = {}, TypeOK, EngineInv, HoldInv, Settled, NEW a \in Attempts, Maintenance(a)
    PROVE  Settled' /\ Kept
<1>1. att[a] \in Record /\ att \in [Attempts -> Record] /\ dAtt \in [Attempts -> Record]
  BY DEF TypeOK
<1>2. ASSUME NEW result \in {"owed", "settled"}, HookEnds(a, result) PROVE Settled' /\ Kept
  <2>1. /\ UNCHANGED <<proc, ops, exec, acked, spent>> /\ a \in hooks
        /\ att' = [att EXCEPT ![a] = Hooked(att[a], result)] /\ Save(TRUE)
    BY <1>2, NoFault DEF HookEnds, running, history
  <2>2. proc # "down"
    BY <2>1 DEF HoldInv, Held
  <2>3. Hooked(att[a], result).phase = att[a].phase
    BY <1>1, PatchPhases
  <2>4. dAtt' = att' /\ dOps' = ops' /\ \A b \in Attempts : att'[b].phase = att[b].phase
    BY <1>1, <2>1, <2>3, NoFault
  <2>5. dOps' = dOps /\ \A b \in Attempts : dAtt'[b].phase = dAtt[b].phase
    BY <2>1, <2>2, <2>4 DEF Settled
  <2>6. CalmStep(a)
    BY <2>1, <2>2, <2>4, <2>5, IdleIsCalm
  <2> QED BY <2>6, CalmSettles
<1>3. CASE Age(a)
  <2>1. /\ UNCHANGED <<proc, ops, dOps, exec, acked, spent>>
        /\ att' = [att EXCEPT ![a] = Aged(att[a])]
        /\ dAtt' = [dAtt EXCEPT ![a] = Aged(dAtt[a])]
    BY <1>3 DEF Age, running, history
  <2>2. \A b \in Attempts : att'[b].phase = att[b].phase /\ dAtt'[b].phase = dAtt[b].phase
    BY <1>1, <2>1, PatchPhases
  <2>3. Aged(Absent) = Absent
    BY DEF Aged, Absent, Terminal
  <2>4. proc = "down" => \A b \in Attempts : att'[b] = att[b]
    BY <1>1, <2>1, <2>3 DEF Settled
  <2>5. CalmStep(a)
    BY <2>1, <2>2, <2>4, IdleIsCalm
  <2> QED BY <2>5, CalmSettles
<1> QED BY <1>2, <1>3 DEF Maintenance

LEMMA SweepSettles ==
    ASSUME Faults = {}, TypeOK, EngineInv, HoldInv, Settled, Sweep PROVE Settled' /\ Kept
<1>1. PICK S \in PurgeSets(att) :
        /\ att' = Without(att, S) /\ ops' = OpsWithout(ops, S)
        /\ acked' = OpsWithout(acked, S) /\ spent' = OpsWithout(spent, S)
  BY DEF Sweep
<1>2. UNCHANGED <<proc, exec>> /\ proc = "up" /\ Save(TRUE)
  BY NoFault DEF Sweep, running
<1>3. \A b \in Attempts : att'[b] = IF b \in S THEN Absent ELSE att[b]
  BY <1>1 DEF Without
<1>4. \A x, o : x \in OpsWithout(o, S) <=> x \in o /\ x.attempt \notin S
  BY DEF OpsWithout
<1>5. /\ dOps = ops /\ dAtt' = att' /\ dOps' = ops'
      /\ \A b \in Attempts : dAtt[b].phase = att[b].phase
  BY <1>2, NoFault DEF Settled
<1>6. \A b \in Attempts : Live(dAtt'[b]) => StartOp(b) \in spent'
  <2>1. \A b \in Attempts : Live(att'[b]) => b \notin S /\ Live(att[b])
    BY <1>3 DEF Live, Absent
  <2>2. \A b \in Attempts : Live(att[b]) => StartOp(b) \in spent
    BY <1>5 DEF Settled, Live
  <2>3. \A b \in Attempts : StartOp(b).attempt = b
    BY DEF StartOp
  <2> QED BY <1>1, <1>4, <1>5, <2>1, <2>2, <2>3
<1>7. acked' \cup spent' \subseteq dOps'
  BY <1>1, <1>4, <1>5 DEF Settled
<1>8. Perms = {} /\ Exports = {} => \A op \in dOps' : op.kind = "resume" => op \in spent'
  BY <1>1, <1>4, <1>5 DEF Settled
<1>9. \A b \in Attempts : att'[b].phase = "accepted" => exec'[b] = "export"
  BY <1>2, <1>3 DEF Settled, Absent
<1>10. Settled'
  BY <1>2, <1>5, <1>6, <1>7, <1>8, <1>9 DEF Settled
<1>11. LaunchIsPaid /\ EndIsKept
  BY <1>2, <1>3, <1>5 DEF LaunchIsPaid, EndIsKept, Absent
<1>12. FenceHolds
  BY <1>2, FencedIsOver DEF FenceHolds
<1> QED BY <1>10, <1>11, <1>12 DEF Kept

LEMMA DiesSettles ==
    ASSUME Settled, Dies PROVE Settled' /\ Kept
<1>1. /\ UNCHANGED <<dAtt, dOps, acked, spent>> /\ proc' = "down"
      /\ \A b \in Attempts : att'[b] = Absent /\ exec'[b] = "none"
  BY DEF Dies, disk, history
<1>2. Settled'
  BY <1>1 DEF Settled
<1> QED BY <1>1, <1>2 DEF Kept, LaunchIsPaid, FenceHolds, EndIsKept

LEMMA RestartSettles ==
    ASSUME TypeOK, EngineInv, HoldInv, Settled, Restart PROVE Settled' /\ Kept
<1> DEFINE m == [a \in Attempts |-> Recovered(dAtt[a])]
<1>1. PICK S \in PurgeSets(m) :
        /\ att' = Without(m, S) /\ ops' = OpsWithout(dOps, S)
        /\ acked' = OpsWithout(acked, S) /\ spent' = OpsWithout(spent, S)
  BY DEF Restart
<1>2. exec' = exec /\ proc' = "up" /\ dAtt' = att' /\ dOps' = ops'
  BY DEF Restart, running, Save, SaveImage
<1>3. \A r \in Record :
        /\ Recovered(r).phase # "accepted"
        /\ Live(Recovered(r)) => Live(r)
        /\ r.phase \in Terminal => Recovered(r).phase = r.phase
  BY DEF Recovered, Record, Terminal, Phases, Live
<1>4. \A b \in Attempts : att'[b] = IF b \in S THEN Absent ELSE Recovered(dAtt[b])
  BY <1>1 DEF Without
<1>5. \A b \in Attempts : dAtt[b] \in Record
  BY DEF TypeOK
<1>6. \A x, o : x \in OpsWithout(o, S) <=> x \in o /\ x.attempt \notin S
  BY DEF OpsWithout
<1>7. \A b \in Attempts : Live(dAtt'[b]) => StartOp(b) \in spent'
  <2>1. \A b \in Attempts : Live(att'[b]) => b \notin S /\ Live(dAtt[b])
    <3>1. ~Live(Absent)
      BY DEF Live, Absent
    <3> QED BY <1>3, <1>4, <1>5, <3>1
  <2>2. \A b \in Attempts : Live(dAtt[b]) => StartOp(b) \in spent
    BY DEF Settled
  <2>3. \A b \in Attempts : StartOp(b).attempt = b
    BY DEF StartOp
  <2> QED BY <1>1, <1>2, <1>6, <2>1, <2>2, <2>3
<1>8. acked' \cup spent' \subseteq dOps'
  BY <1>1, <1>2, <1>6 DEF Settled
<1>9. Perms = {} /\ Exports = {} => \A op \in dOps' : op.kind = "resume" => op \in spent'
  BY <1>1, <1>2, <1>6 DEF Settled
<1>10. \A b \in Attempts : att'[b].phase # "accepted"
  BY <1>3, <1>4, <1>5 DEF Absent
<1>11. Settled'
  BY <1>2, <1>7, <1>8, <1>9, <1>10 DEF Settled
<1>12. LaunchIsPaid /\ FenceHolds
  BY <1>2, FencedIsOver DEF LaunchIsPaid, FenceHolds
<1>13. EndIsKept
  BY <1>2, <1>3, <1>4, <1>5 DEF EndIsKept, Absent
<1> QED BY <1>11, <1>12, <1>13 DEF Kept

LEMMA CloseSettles ==
    ASSUME EngineInv, HoldInv, Settled, Close PROVE Settled' /\ Kept
<1>1. UNCHANGED <<att, ops, dAtt, dOps, exec, acked, spent>> /\ proc = "up" /\ proc' = "closing"
  BY DEF Close, memory, disk, history
<1>2. Settled'
  BY <1>1 DEF Settled
<1>3. FenceHolds
  BY <1>1, FencedIsOver DEF FenceHolds
<1> QED BY <1>1, <1>2, <1>3 DEF Kept, LaunchIsPaid, EndIsKept

\* Every step, when no write fails.
LEMMA NextSettles ==
    ASSUME Faults = {}, TypeOK, EngineInv, HoldInv, Settled, [Next]_vars PROVE Settled' /\ Kept
<1>1. ASSUME NEW a \in Attempts, Execution(a) PROVE Settled' /\ Kept
  <2>1. CASE ClockExpires(a)
    <3>1. UNCHANGED <<proc, att, ops, dAtt, dOps, exec, acked, spent>>
      BY <2>1 DEF ClockExpires, memory, disk, history
    <3>2. CalmStep(a)
      BY <3>1, IdleIsCalm
    <3> QED BY <3>2, CalmSettles
  <2> QED BY <1>1, <2>1, EventSettles, ExecEndSettles, ExportSettles DEF Execution
<1>2. ASSUME NEW op \in Operations, Replay(op) PROVE Settled' /\ Kept
  <2>1. /\ UNCHANGED <<proc, att, ops, dAtt, dOps, exec, spent>> /\ proc = "up"
        /\ acked' = acked \cup {op} /\ op \in ops /\ op.attempt \in Attempts
    BY <1>2 DEF Replay, Ack, memory, disk, running, Operations
  <2>2. CalmStep(op.attempt)
    BY <2>1, IdleIsCalm
  <2> QED BY <2>1, <2>2, CalmSettles
<1>3. CASE UNCHANGED vars
  <2>1. UNCHANGED <<proc, att, ops, dAtt, dOps, exec, acked, spent>>
    BY <1>3 DEF vars, memory, disk, running, history
  <2>2. Settled'
    BY <2>1 DEF Settled
  <2>3. FenceHolds
    BY <2>1, FencedIsOver DEF FenceHolds
  <2> QED BY <2>1, <2>2, <2>3 DEF Kept, LaunchIsPaid, EndIsKept
<1>4. CASE Process
  BY <1>4, SweepSettles, DiesSettles, RestartSettles, CloseSettles DEF Process, CloseDone, Crash
<1> QED BY <1>1, <1>2, <1>3, <1>4, RequestSettles, PermissionsSettle, MaintenanceSettles DEF Next

-----------------------------------------------------------------------------
(* Theorems                                                                 *)

\* When no write fails, memory and disk agree and every answer is given out of
\* the image on disk.
THEOREM SettledInvariant ==
    ASSUME Faults = {} PROVE Spec => []Settled
<1>1. Init => Settled
  BY DEF Init, Settled, Live, Absent
<1>2. TypeOK /\ EngineInv /\ HoldInv /\ Settled /\ [Next]_vars => Settled'
  BY NextSettles
<1> QED BY <1>1, <1>2, TypeCorrect, EngineSafe, HoldInvariant, PTL DEF Spec

\* A request launches at most one turn, however often it is sent and wherever
\* the runner crashes, when no write fails.
THEOREM OneTurnPerRequest ==
    ASSUME Faults = {} PROVE Spec => OneTurnPerOperation
<1>1. TypeOK /\ EngineInv /\ HoldInv /\ Settled /\ [Next]_vars => LaunchIsPaid
  BY NextSettles DEF Kept
<1>2. TypeOK /\ EngineInv /\ HoldInv /\ Settled /\ [Next]_vars =>
        [\A a \in Attempts : exec[a] # "run" /\ exec'[a] = "run" =>
            \E op \in spent' \ spent : op.attempt = a]_vars
  BY <1>1 DEF LaunchIsPaid
<1> QED BY <1>2, SettledInvariant, TypeCorrect, EngineSafe, HoldInvariant, PTL
    DEF Spec, OneTurnPerOperation

\* An answered cancel of an attempt that was never launched fences it: no delayed
\* start launches it, also after a restart, when no write fails.
THEOREM CancelKeepsFencing ==
    ASSUME Faults = {} PROVE Spec => CancelFences
<1>1. TypeOK /\ EngineInv /\ HoldInv /\ Settled /\ [Next]_vars => FenceHolds
  BY NextSettles DEF Kept
<1>2. TypeOK /\ EngineInv /\ HoldInv /\ Settled /\ [Next]_vars =>
        [\A a \in Attempts, id \in RequestIDs :
            CancelOp(a, id) \in acked /\ StartOp(a) \notin spent => exec'[a] # "run"]_vars
  BY <1>1 DEF FenceHolds
<1> QED BY <1>2, SettledInvariant, TypeCorrect, EngineSafe, HoldInvariant, PTL
    DEF Spec, CancelFences

\* A terminal receipt on disk is never reopened or changed into another outcome;
\* only retention removes it, when no write fails.
THEOREM TerminalStaysFinal ==
    ASSUME Faults = {} PROVE Spec => DurableTerminalIsFinal
<1>1. TypeOK /\ EngineInv /\ HoldInv /\ Settled /\ [Next]_vars => EndIsKept
  BY NextSettles DEF Kept
<1>2. TypeOK /\ EngineInv /\ HoldInv /\ Settled /\ [Next]_vars =>
        [\A a \in Attempts : dAtt[a].phase \in Terminal =>
            dAtt'[a].phase \in {dAtt[a].phase, "absent"}]_vars
  BY <1>1 DEF EndIsKept
<1> QED BY <1>2, SettledInvariant, TypeCorrect, EngineSafe, HoldInvariant, PTL
    DEF Spec, DurableTerminalIsFinal

\* What a client was told is on disk, and an answered cancel outlives a crash,
\* when no write fails.
THEOREM AnswersAreDurable ==
    ASSUME Faults = {} PROVE Spec => [](AckedIsDurable /\ CancelIsRemembered)
<1>1. Settled /\ HoldInv => AckedIsDurable /\ CancelIsRemembered
  <2> SUFFICES ASSUME Settled, HoldInv PROVE AckedIsDurable /\ CancelIsRemembered
    OBVIOUS
  <2>1. acked \subseteq dOps /\ Remembers(dAtt, dOps)
    BY DEF Settled, HoldInv, ImageOK
  <2> QED BY <2>1 DEF AckedIsDurable, CancelIsRemembered, Remembers, Cancelled
<1> QED BY <1>1, SettledInvariant, HoldInvariant, PTL

\* Without permission requests and Git exports, an answered resume has launched
\* its turn as well.
THEOREM AnswersAreRemembered ==
    ASSUME Faults = {}, Perms = {}, Exports = {} PROVE Spec => []AckedIsRemembered
<1>1. Settled /\ HoldInv => AckedIsRemembered
  <2> SUFFICES ASSUME Settled, HoldInv PROVE AckedIsRemembered
    OBVIOUS
  <2>1. /\ acked \subseteq dOps /\ Remembers(dAtt, dOps)
        /\ \A op \in dOps : op.kind = "resume" => op \in spent
    BY DEF Settled, HoldInv, ImageOK
  <2>2. AckedIsDurable /\ CancelIsRemembered
    BY <2>1 DEF AckedIsDurable, CancelIsRemembered, Remembers, Cancelled
  <2>3. AckedResumeRan
    BY <2>1 DEF AckedResumeRan
  <2> QED BY <2>2, <2>3 DEF AckedIsRemembered
<1> QED BY <1>1, SettledInvariant, HoldInvariant, PTL

-----------------------------------------------------------------------------
(* An answered cancel is final                                              *)

\* The cancelled attempt a is over, or its execution will end it: the adapter's
\* return and the export's read the mark.  While the export runs no resume can
\* take the mark off, for the phase is cancelling.
WillEnd(a) ==
    \/ IsTerminal(a)
    \/ /\ "cancelPending" \in att[a].flags
       /\ exec[a] = "run" \/ (exec[a] = "export" /\ att[a].phase = "cancelling")

Doomed ==
    \A a \in Attempts, id \in RequestIDs :
        CancelOp(a, id) \in dOps =>
            IF proc = "down" THEN dAtt[a].phase \in Terminal ELSE WillEnd(a)

\* The body of CancelIsFinal.
CancelHolding ==
    \A a \in Attempts, id \in RequestIDs :
        CancelOp(a, id) \in acked /\ exec[a] # "run" => exec'[a] # "run"

\* A step of attempt a of a live process.
LEMMA DoomLocal ==
    ASSUME Settled, Settled', Doomed, NEW a \in Attempts, proc # "down", proc' # "down",
           \A b \in Attempts \ {a} : att'[b] = att[b] /\ exec'[b] = exec[b],
           \A b \in Attempts \ {a}, id \in RequestIDs : CancelOp(b, id) \in ops' => CancelOp(b, id) \in ops,
           \A id \in RequestIDs : CancelOp(a, id) \in ops' => WillEnd(a)'
    PROVE  Doomed'
<1>1. dOps = ops /\ dOps' = ops'
  BY DEF Settled
<1> QED BY <1>1 DEF Doomed, WillEnd, IsTerminal

\* A step that changes no phase, no mark and no execution.
LEMMA DoomIdle ==
    ASSUME Doomed, UNCHANGED <<proc, dOps, exec>>,
           \A b \in Attempts :
                /\ att'[b].phase = att[b].phase /\ dAtt'[b].phase = dAtt[b].phase
                /\ "cancelPending" \in att[b].flags => "cancelPending" \in att'[b].flags
    PROVE  Doomed'
  BY DEF Doomed, WillEnd, IsTerminal

\* An attempt that a start or a resume may launch is not doomed.
LEMMA LaunchedIsFree ==
    ASSUME EngineInv, HoldInv, Settled, Doomed, NEW a \in Attempts, NEW id \in RequestIDs, proc = "up",
           ~Present(a) \/ (att[a].phase = "needs_input" /\ exec[a] # "run")
    PROVE  CancelOp(a, id) \notin ops
<1>1. dOps = ops
  BY DEF Settled
<1>2. SUFFICES ASSUME CancelOp(a, id) \in ops PROVE FALSE
  OBVIOUS
<1>3. Present(a)
  BY <1>2 DEF HoldInv, ImageOK, Rooted, CancelOp, Present
<1>4. WillEnd(a)
  BY <1>1, <1>2 DEF Doomed
<1> QED BY <1>3, <1>4 DEF WillEnd, IsTerminal, Terminal

\* finishLocked with a terminal phase ends the attempt.
LEMMA FinishEnds ==
    ASSUME TypeOK, NEW a \in Attempts, NEW r \in Record, NEW phase \in Terminal,
           NEW note, NEW image, Finish(a, r, phase, note, image)
    PROVE  att'[a].phase \in Terminal
<1>1. PICK lost \in SUBSET ({"append", "save", "resave"} \cap Faults) :
        att' = [att EXCEPT ![a] = Finished(r, phase, note, "append" \notin lost)]
  BY DEF Finish
<1>2. Finished(r, phase, note, "append" \notin lost).phase \in Terminal
  BY DEF Finished, Record, Terminal
<1> QED BY <1>1, <1>2 DEF TypeOK

LEMMA StartDooms ==
    ASSUME Faults = {}, TypeOK, EngineInv, HoldInv, Settled, Settled', Doomed, NEW a \in Attempts,
           StartAccept(a) \/ StartRelaunch(a)
    PROVE  Doomed' /\ CancelHolding
<1>1. CASE StartAccept(a)
  <2>1. PICK S \in PurgeSets(att) : StartWith(a, S, "ok")
    BY <1>1, NoFault DEF StartAccept
  <2>2. /\ ops' = OpsWithout(ops, S) \cup {StartOp(a)} /\ Launch(a) /\ proc = "up" /\ proc' = "up"
        /\ ~Present(a)
    BY <1>1, <2>1 DEF StartWith, StartAccept
  <2>3. \A b \in Attempts \ {a} : b \notin S => att'[b] = att[b]
    BY <2>1 DEF StartWith, Without
  <2>4. exec'[a] = "run" /\ \A b \in Attempts \ {a} : exec'[b] = exec[b]
    BY <2>2 DEF Launch, TypeOK
  <2>5. \A b \in Attempts, id \in RequestIDs :
          CancelOp(b, id) \in ops' => CancelOp(b, id) \in ops /\ b \notin S
    BY <2>2 DEF OpsWithout, CancelOp, StartOp
  <2>6. \A id \in RequestIDs : CancelOp(a, id) \notin ops
    BY <2>2, LaunchedIsFree
  <2>7. dOps = ops /\ dOps' = ops'
    BY <2>2 DEF Settled
  <2>8. Doomed'
    BY <2>2, <2>3, <2>4, <2>5, <2>6, <2>7 DEF Doomed, WillEnd, IsTerminal
  <2>9. acked \subseteq ops
    BY <2>7 DEF Settled
  <2>10. CancelHolding
    BY <2>4, <2>6, <2>9 DEF CancelHolding
  <2> QED BY <2>8, <2>10
<1>2. CASE StartRelaunch(a)
  <2>1. exec[a] = "export"
    BY <1>2 DEF StartRelaunch, Settled
  <2>2. UNCHANGED <<proc, att, dAtt, dOps, exec>>
    BY <1>2, <2>1 DEF StartRelaunch, disk, running
  <2> QED BY <2>2, DoomIdle DEF CancelHolding
<1> QED BY <1>1, <1>2

LEMMA CancelDooms ==
    ASSUME Faults = {}, TypeOK, EngineInv, HoldInv, Settled, Settled', Doomed, NEW a \in Attempts,
           NEW id \in RequestIDs, CancelUnseen(a, id) \/ CancelFinished(a, id) \/ Cancel(a, id)
    PROVE  Doomed' /\ CancelHolding
<1>1. /\ proc = "up" /\ UNCHANGED <<proc, exec>>
      /\ att[a] \in Record /\ att \in [Attempts -> Record]
  BY DEF CancelUnseen, CancelFinished, Cancel, running, TypeOK
<1>2. /\ ops' = ops \cup {CancelOp(a, id)}
      /\ \A b \in Attempts \ {a} : att'[b] = att[b]
      /\ WillEnd(a)'
  <2>1. CASE CancelUnseen(a, id)
    <3>1. att' = [att EXCEPT ![a] = Fence] /\ ops' = ops \cup {CancelOp(a, id)}
      BY <2>1, NoFault DEF CancelUnseen
    <3>2. att'[a].phase = "cancelled"
      BY <1>1, <3>1 DEF Fence, Absent
    <3> QED BY <1>1, <3>1, <3>2 DEF WillEnd, IsTerminal, Terminal
  <2>2. CASE CancelFinished(a, id)
    BY <2>2 DEF CancelFinished, WillEnd, IsTerminal
  <2>3. CASE Cancel(a, id)
    <3> DEFINE r == Cancelling(att[a])
               image == [att |-> [att EXCEPT ![a] = r], ops |-> ops']
    <3>1. /\ ops' = ops \cup {CancelOp(a, id)}
          /\ IF exec[a] = "none"
             THEN Finish(a, r, "cancelled", {}, image)
             ELSE att' = [att EXCEPT ![a] = r]
      BY <2>3, NoFault DEF Cancel
    <3>2. r \in Record /\ r.phase = "cancelling" /\ "cancelPending" \in r.flags
      BY <1>1, PatchTypes, PatchPhases, PatchFlags
    <3> HIDE DEF r, image
    <3>3. CASE exec[a] = "none"
      <4>1. "cancelled" \in EndPhases /\ {} \in SUBSET {"error"} /\ "cancelled" \in Terminal
        BY DEF EndPhases, Terminal
      <4>2. \A b \in Attempts \ {a} : att'[b] = att[b]
        BY <3>1, <3>2, <3>3, <4>1, FinishSaves
      <4>3. att'[a].phase \in Terminal
        BY <3>1, <3>2, <3>3, <4>1, FinishEnds
      <4> QED BY <3>1, <4>2, <4>3 DEF WillEnd, IsTerminal
    <3>4. CASE exec[a] # "none"
      <4>1. att'[a] = r /\ \A b \in Attempts \ {a} : att'[b] = att[b]
        BY <1>1, <3>1, <3>4
      <4>2. exec[a] \in {"run", "export"}
        BY <3>4 DEF TypeOK
      <4> QED BY <1>1, <3>1, <3>2, <4>1, <4>2 DEF WillEnd
    <3> QED BY <3>3, <3>4
  <2> QED BY <2>1, <2>2, <2>3
<1>3. \A b \in Attempts \ {a}, i \in RequestIDs : CancelOp(b, i) \in ops' => CancelOp(b, i) \in ops
  BY <1>2 DEF CancelOp
<1>4. Doomed'
  BY <1>1, <1>2, <1>3, DoomLocal
<1> QED BY <1>1, <1>4 DEF CancelHolding

LEMMA ResumeDooms ==
    ASSUME Faults = {}, TypeOK, EngineInv, HoldInv, Settled, Settled', Doomed, NEW a \in Attempts,
           NEW id \in RequestIDs, Resume(a, id)
    PROVE  Doomed' /\ CancelHolding
<1>1. /\ proc = "up" /\ proc' = "up" /\ ops' = ops \cup {ResumeOp(a, id)}
      /\ att[a].phase = "needs_input" /\ CapacityFree
      /\ Launch(a) \/ UNCHANGED running
  BY NoFault DEF Resume, running
<1>2. \A b \in Attempts \ {a} : att'[b] = att[b] /\ exec'[b] = exec[b]
  <2>1. \E f : att' = [att EXCEPT ![a] = f]
    BY DEF Resume
  <2> QED BY <1>1, <2>1 DEF Launch, running, TypeOK
<1>3. exec[a] # "run"
  BY <1>1, FreeIsEmpty DEF Occupies
<1>4. \A i \in RequestIDs : CancelOp(a, i) \notin ops
  BY <1>1, <1>3, LaunchedIsFree
<1>5. \A b \in Attempts, i \in RequestIDs : CancelOp(b, i) \in ops' => CancelOp(b, i) \in ops
  BY <1>1 DEF CancelOp, ResumeOp
<1>6. Doomed'
  BY <1>1, <1>2, <1>4, <1>5, DoomLocal
<1>7. acked \subseteq ops
  BY <1>1 DEF Settled
<1> QED BY <1>2, <1>4, <1>6, <1>7 DEF CancelHolding

\* A step of a running execution that keeps the mark of a cancel.
LEMMA RunKeepsDoom ==
    ASSUME EngineInv, Settled, Settled', Doomed, NEW a \in Attempts, exec[a] = "run",
           UNCHANGED <<proc, exec>>,
           \A i \in RequestIDs, b \in Attempts : CancelOp(b, i) \in ops' => CancelOp(b, i) \in ops,
           \A b \in Attempts \ {a} : att'[b] = att[b],
           "cancelPending" \in att[a].flags => "cancelPending" \in att'[a].flags
    PROVE  Doomed' /\ CancelHolding
<1>1. proc # "down" /\ ~IsTerminal(a)
  BY DEF EngineInv, DownIsEmpty, RunningIsLive, LivePhases, IsTerminal, Terminal
<1>2. dOps = ops
  BY <1>1 DEF Settled
<1>3. \A i \in RequestIDs : CancelOp(a, i) \in ops' => WillEnd(a)'
  BY <1>1, <1>2 DEF Doomed, WillEnd
<1>4. Doomed'
  BY <1>1, <1>3, DoomLocal
<1> QED BY <1>4 DEF CancelHolding

LEMMA VerdictDooms ==
    ASSUME Faults = {}, TypeOK, EngineInv, HoldInv, Settled, Settled', Doomed, NEW a \in Attempts,
           NEW p \in Perms, NEW id \in RequestIDs, ResumePermission(a, p, id)
    PROVE  Doomed' /\ CancelHolding
<1>1. /\ UNCHANGED <<proc, exec>> /\ gate[a] = p
      /\ att' = [att EXCEPT ![a] = Answered(att[a])]
      /\ ops' = ops \cup {ResumeOp(a, id)}
  BY NoFault DEF ResumePermission
<1>2. exec[a] = "run"
  BY <1>1, ConstantsAssumption DEF EngineInv, RunningIsLive
<1>3. Alike(att[a], Answered(att[a]))
  BY PatchFlags DEF TypeOK
<1>4. /\ "cancelPending" \in att[a].flags => "cancelPending" \in att'[a].flags
      /\ \A b \in Attempts \ {a} : att'[b] = att[b]
  BY <1>1, <1>3 DEF TypeOK, Alike
<1>5. \A i \in RequestIDs, b \in Attempts : CancelOp(b, i) \in ops' => CancelOp(b, i) \in ops
  BY <1>1 DEF CancelOp, ResumeOp
<1> QED BY <1>1, <1>2, <1>4, <1>5, RunKeepsDoom

LEMMA EventDooms ==
    ASSUME TypeOK, EngineInv, Settled, Settled', Doomed, NEW a \in Attempts,
           NEW s \in SUBSET {"session"},
           \/ \E kind \in {"progress", "needs_input", "cancelled", "other"} : HarnessEvent(a, kind, s)
           \/ HarnessEventFails(a, s)
    PROVE  Doomed' /\ CancelHolding
<1>1. /\ exec[a] = "run" /\ UNCHANGED <<proc, ops, exec>>
      /\ att[a] \in Record /\ att \in [Attempts -> Record]
  BY DEF HarnessEvent, HarnessEventFails, running, TypeOK
<1>2. /\ "cancelPending" \in att[a].flags => "cancelPending" \in att'[a].flags
      /\ \A b \in Attempts \ {a} : att'[b] = att[b]
  <2>1. ASSUME NEW kind \in {"progress", "needs_input", "cancelled", "other"}, HarnessEvent(a, kind, s)
        PROVE  /\ "cancelPending" \in att[a].flags => "cancelPending" \in att'[a].flags
               /\ \A b \in Attempts \ {a} : att'[b] = att[b]
    BY <1>1, <2>1 DEF HarnessEvent, AfterEvent, Record
  <2>2. CASE HarnessEventFails(a, s)
    BY <1>1, <2>2 DEF HarnessEventFails, EventFailed, Record
  <2> QED BY <2>1, <2>2
<1> QED BY <1>1, <1>2, RunKeepsDoom

\* The adapter of a cancelled attempt returns: the attempt is over.
LEMMA ExecEndDooms ==
    ASSUME TypeOK, EngineInv, Settled, Settled', Doomed, NEW a \in Attempts, NEW result \in Results,
           NEW s \in SUBSET {"session"}, ExecEnd(a, result, s)
    PROVE  Doomed' /\ CancelHolding
<1> DEFINE r == WithSession(att[a], s)
           outcome == Outcome(a, result)
           note == IF result \in {"error", "foreign"} THEN {"error"} ELSE {}
<1>1. /\ exec[a] = "run" /\ UNCHANGED <<proc, ops>> /\ att[a] \in Record /\ att \in [Attempts -> Record]
  BY DEF ExecEnd, TypeOK
<1>2. exec'[a] # "run" /\ \A b \in Attempts \ {a} : exec'[b] = exec[b]
  <2>1. exec' = [exec EXCEPT ![a] = "export"] \/ exec' = [exec EXCEPT ![a] = "none"]
    BY DEF ExecEnd
  <2> QED BY <1>1, <2>1 DEF TypeOK
<1>3. proc # "down" /\ ~IsTerminal(a)
  BY <1>1 DEF EngineInv, DownIsEmpty, RunningIsLive, LivePhases, IsTerminal, Terminal
<1>4. r \in Record
  BY <1>1, PatchTypes
<1>5. outcome \in EndPhases /\ note \in SUBSET {"error"}
  BY OutcomeType
<1>6. "cancelPending" \in att[a].flags => outcome \in {"failed", "cancelled"}
  BY DEF Outcome
<1>7. \/ outcome = "completed" /\ att' = [att EXCEPT ![a] = r]
      \/ Finish(a, r, outcome, note, OnDisk)
  BY DEF ExecEnd
<1> HIDE DEF r, outcome, note
<1>8. \A b \in Attempts \ {a} : att'[b] = att[b]
  BY <1>1, <1>4, <1>5, <1>7, FinishHolds
<1>9. ASSUME NEW i \in RequestIDs, CancelOp(a, i) \in ops' PROVE WillEnd(a)'
  <2>1. dOps = ops
    BY <1>3 DEF Settled
  <2>2. "cancelPending" \in att[a].flags
    BY <1>1, <1>3, <1>9, <2>1 DEF Doomed, WillEnd
  <2>3. outcome \in Terminal /\ Finish(a, r, outcome, note, OnDisk)
    BY <1>6, <1>7, <2>2 DEF Terminal
  <2>4. att'[a].phase \in Terminal
    BY <1>4, <2>3, FinishEnds
  <2> QED BY <2>4 DEF WillEnd, IsTerminal
<1>10. \A b \in Attempts \ {a}, i \in RequestIDs : CancelOp(b, i) \in ops' => CancelOp(b, i) \in ops
  BY <1>1
<1>11. Doomed'
  BY <1>1, <1>2, <1>3, <1>8, <1>9, <1>10, DoomLocal
<1> QED BY <1>2, <1>11 DEF CancelHolding

\* The export of a cancelled attempt ends: the attempt is over.
LEMMA ExportDooms ==
    ASSUME TypeOK, EngineInv, Settled, Settled', Doomed, NEW a \in Attempts,
           ExportEnd(a) \/ ExportCommit(a)
    PROVE  Doomed' /\ CancelHolding
<1>1. /\ exec[a] = "export" /\ UNCHANGED <<proc, ops>>
      /\ att[a] \in Record /\ att \in [Attempts -> Record]
      /\ exec'[a] = "none" /\ \A b \in Attempts \ {a} : exec'[b] = exec[b]
  BY DEF ExportEnd, ExportCommit, TypeOK
<1>2. proc # "down" /\ ~IsTerminal(a)
  BY <1>1 DEF EngineInv, DownIsEmpty, RunningIsLive
<1>3. /\ \A b \in Attempts \ {a} : att'[b] = att[b]
      /\ "cancelPending" \in att[a].flags => att'[a].phase \in Terminal
  <2>1. /\ {"cancelled", "needs_input", "failed"} \subseteq EndPhases
        /\ {} \in SUBSET {"error"} /\ {"error"} \in SUBSET {"error"}
        /\ "cancelled" \in Terminal
    BY DEF EndPhases, Terminal
  <2>2. CASE ExportEnd(a)
    <3>1. \E phase \in EndPhases, note \in SUBSET {"error"} :
            /\ Finish(a, att[a], phase, note, OnDisk)
            /\ "cancelPending" \in att[a].flags => phase = "cancelled"
      BY <2>1, <2>2 DEF ExportEnd
    <3> QED BY <1>1, <2>1, <3>1, FinishHolds
  <2>3. CASE ExportCommit(a)
    <3>1. /\ "cancelPending" \notin att[a].flags
          /\ \/ att' = [att EXCEPT ![a] = Committed(att[a])]
             \/ \E image : Finish(a, att[a], "failed", {"error"}, image)
      BY <2>3 DEF ExportCommit
    <3> QED BY <1>1, <2>1, <3>1, FinishHolds
  <2> QED BY <2>2, <2>3
<1>4. ASSUME NEW i \in RequestIDs, CancelOp(a, i) \in ops' PROVE WillEnd(a)'
  <2>1. dOps = ops
    BY <1>2 DEF Settled
  <2>2. "cancelPending" \in att[a].flags
    BY <1>1, <1>2, <1>4, <2>1 DEF Doomed, WillEnd
  <2> QED BY <1>3, <2>2 DEF WillEnd, IsTerminal
<1>5. \A b \in Attempts \ {a}, i \in RequestIDs : CancelOp(b, i) \in ops' => CancelOp(b, i) \in ops
  BY <1>1
<1>6. Doomed'
  BY <1>1, <1>2, <1>3, <1>4, <1>5, DoomLocal
<1> QED BY <1>1, <1>6 DEF CancelHolding

LEMMA PermissionsDoom ==
    ASSUME Faults = {}, TypeOK, EngineInv, Settled, Settled', Doomed, NEW a \in Attempts, NEW p \in Perms,
           Permissions(a, p)
    PROVE  Doomed' /\ CancelHolding
<1>1. att[a] \in Record /\ att \in [Attempts -> Record]
  BY DEF TypeOK
<1>2. CASE ParkOnPermission(a, p)
  <2>1. /\ UNCHANGED <<proc, ops, exec>> /\ gate[a] # "none"
        /\ att' = [att EXCEPT ![a] = ParkedOn(att[a], p)]
    BY <1>2 DEF ParkOnPermission
  <2>2. exec[a] = "run"
    BY <2>1 DEF EngineInv, RunningIsLive
  <2>3. /\ "cancelPending" \in att[a].flags => "cancelPending" \in att'[a].flags
        /\ \A b \in Attempts \ {a} : att'[b] = att[b]
    BY <1>1, <2>1 DEF ParkedOn, Record
  <2> QED BY <2>1, <2>2, <2>3, RunKeepsDoom
<1>3. CASE ~ParkOnPermission(a, p)
  <2>1. /\ UNCHANGED <<proc, ops, exec>>
        /\ \/ att' = [att EXCEPT ![a] = Abandoned(att[a])] /\ att[a].perm = p
           \/ att' = att /\ UNCHANGED disk
    <3>1. CASE AbandonPermission(a, p)
      BY <3>1 DEF AbandonPermission, disk
    <3>2. CASE AskPermission(a, p) \/ ParkRefused(a, p) \/ TakeVerdict(a, p) \/ CallEnds(a, p)
      BY <3>2 DEF AskPermission, ParkRefused, TakeVerdict, CallEnds, memory, running
    <3> QED BY <1>3, <3>1, <3>2 DEF Permissions
  <2>2. proc = "down" => att' = att /\ UNCHANGED disk
    BY <2>1, ConstantsAssumption DEF Settled, Absent
  <2>3. \A b \in Attempts :
          /\ att'[b].phase = att[b].phase
          /\ "cancelPending" \in att[b].flags => "cancelPending" \in att'[b].flags
    <3>1. /\ Abandoned(att[a]).phase = att[a].phase
          /\ "cancelPending" \in att[a].flags => "cancelPending" \in Abandoned(att[a]).flags
      BY <1>1 DEF Abandoned, Record
    <3> QED BY <1>1, <2>1, <3>1
  <2>4. dOps' = dOps /\ \A b \in Attempts : dAtt'[b].phase = dAtt[b].phase
    BY <2>1, <2>2, <2>3 DEF Settled, disk
  <2> QED BY <2>1, <2>3, <2>4, DoomIdle DEF CancelHolding
<1> QED BY <1>2, <1>3

LEMMA MaintenanceDooms ==
    ASSUME Faults = {}, TypeOK, HoldInv, Settled, Settled', Doomed, NEW a \in Attempts, Maintenance(a)
    PROVE  Doomed' /\ CancelHolding
<1>1. att[a] \in Record /\ dAtt[a] \in Record /\ att \in [Attempts -> Record] /\ dAtt \in [Attempts -> Record]
  BY DEF TypeOK
<1>2. ASSUME NEW result \in {"owed", "settled"}, HookEnds(a, result) PROVE Doomed' /\ CancelHolding
  <2>1. /\ UNCHANGED <<proc, ops, exec>> /\ a \in hooks
        /\ att' = [att EXCEPT ![a] = Hooked(att[a], result)]
    BY <1>2 DEF HookEnds, running
  <2>2. proc # "down"
    BY <2>1 DEF HoldInv, Held
  <2>3. \A b \in Attempts :
          /\ att'[b].phase = att[b].phase
          /\ "cancelPending" \in att[b].flags => "cancelPending" \in att'[b].flags
    BY <1>1, <2>1 DEF Hooked, Record
  <2>4. dOps' = dOps /\ \A b \in Attempts : dAtt'[b].phase = dAtt[b].phase
    BY <2>1, <2>2, <2>3 DEF Settled
  <2> QED BY <2>1, <2>3, <2>4, DoomIdle DEF CancelHolding
<1>3. CASE Age(a)
  <2>1. /\ UNCHANGED <<proc, ops, dOps, exec>>
        /\ att' = [att EXCEPT ![a] = Aged(att[a])]
        /\ dAtt' = [dAtt EXCEPT ![a] = Aged(dAtt[a])]
    BY <1>3 DEF Age, running
  <2>2. \A r \in Record :
          /\ Aged(r).phase = r.phase
          /\ "cancelPending" \in r.flags => "cancelPending" \in Aged(r).flags
    BY DEF Aged, Record
  <2>3. \A b \in Attempts :
          /\ att'[b].phase = att[b].phase /\ dAtt'[b].phase = dAtt[b].phase
          /\ "cancelPending" \in att[b].flags => "cancelPending" \in att'[b].flags
    BY <1>1, <2>1, <2>2
  <2> QED BY <2>1, <2>3, DoomIdle DEF CancelHolding
<1> QED BY <1>2, <1>3 DEF Maintenance

LEMMA ProcessDooms ==
    ASSUME Faults = {}, Crashes = FALSE, TypeOK, EngineInv, Settled, Settled', Doomed, Process
    PROVE  Doomed' /\ CancelHolding
<1>1. CASE Sweep
  <2>1. PICK S \in PurgeSets(att) : att' = Without(att, S) /\ ops' = OpsWithout(ops, S)
    BY <1>1 DEF Sweep
  <2>2. UNCHANGED <<proc, exec>> /\ proc = "up"
    BY <1>1 DEF Sweep, running
  <2>3. \A b \in Attempts \ S : att'[b] = att[b]
    BY <2>1 DEF Without
  <2>4. \A b \in Attempts, i \in RequestIDs : CancelOp(b, i) \in ops' => CancelOp(b, i) \in ops /\ b \notin S
    BY <2>1 DEF OpsWithout, CancelOp
  <2>5. dOps = ops /\ dOps' = ops'
    BY <2>2 DEF Settled
  <2>6. Doomed'
    BY <2>2, <2>3, <2>4, <2>5 DEF Doomed, WillEnd, IsTerminal
  <2> QED BY <2>2, <2>6 DEF CancelHolding
<1>2. CASE Close
  <2>1. UNCHANGED <<att, dAtt, dOps, exec>> /\ proc = "up" /\ proc' = "closing"
    BY <1>2 DEF Close, memory, disk
  <2>2. Doomed'
    BY <2>1 DEF Doomed, WillEnd, IsTerminal
  <2> QED BY <2>1, <2>2 DEF CancelHolding
<1>3. CASE CloseDone
  <2>1. /\ proc = "closing" /\ proc' = "down" /\ UNCHANGED <<dAtt, dOps>>
        /\ \A b \in Attempts : exec[b] = "none" /\ exec'[b] = "none"
    BY <1>3 DEF CloseDone, Dies, disk
  <2>2. Doomed'
    BY <2>1 DEF Doomed, WillEnd, IsTerminal, Settled
  <2> QED BY <2>1, <2>2 DEF CancelHolding
<1>4. CASE Restart
  <2> DEFINE m == [b \in Attempts |-> Recovered(dAtt[b])]
  <2>1. PICK S \in PurgeSets(m) : att' = Without(m, S) /\ ops' = OpsWithout(dOps, S)
    BY <1>4 DEF Restart
  <2>2. proc = "down" /\ proc' = "up" /\ exec' = exec /\ dOps' = ops'
    BY <1>4 DEF Restart, running, Save, SaveImage
  <2>3. \A b \in Attempts \ S : att'[b] = Recovered(dAtt[b])
    BY <2>1 DEF Without
  <2>4. \A b \in Attempts, i \in RequestIDs : CancelOp(b, i) \in ops' => CancelOp(b, i) \in dOps /\ b \notin S
    BY <2>1 DEF OpsWithout, CancelOp
  <2>5. \A r \in Record : r.phase \in Terminal => Recovered(r).phase \in Terminal
    BY DEF Recovered, Record, Terminal
  <2>6. \A b \in Attempts : dAtt[b] \in Record
    BY DEF TypeOK
  <2>7. Doomed'
    BY <2>2, <2>3, <2>4, <2>5, <2>6 DEF Doomed, WillEnd, IsTerminal
  <2> QED BY <2>2, <2>7 DEF CancelHolding
<1> QED BY <1>1, <1>2, <1>3, <1>4 DEF Process, Crash

LEMMA NextDooms ==
    ASSUME Faults = {}, Crashes = FALSE, TypeOK, EngineInv, HoldInv, Settled, Settled', Doomed, [Next]_vars
    PROVE  Doomed' /\ CancelHolding
<1>1. CASE UNCHANGED <<proc, att, dAtt, dOps, exec>>
  BY <1>1, DoomIdle DEF CancelHolding
<1>2. ASSUME NEW a \in Attempts, Execution(a) PROVE Doomed' /\ CancelHolding
  <2>1. CASE ClockExpires(a)
    BY <1>1, <2>1 DEF ClockExpires, memory, disk
  <2> QED BY <1>2, <2>1, EventDooms, ExecEndDooms, ExportDooms DEF Execution
<1>3. ASSUME NEW op \in Operations, Replay(op) PROVE Doomed' /\ CancelHolding
  BY <1>1, <1>3 DEF Replay, memory, disk, running
<1>4. CASE UNCHANGED vars
  BY <1>1, <1>4 DEF vars, memory, disk, running
<1>5. ASSUME NEW a \in Attempts, Requests(a) PROVE Doomed' /\ CancelHolding
  BY <1>5, StartDooms, CancelDooms, ResumeDooms, VerdictDooms DEF Requests
<1> QED BY <1>2, <1>3, <1>4, <1>5, PermissionsDoom, MaintenanceDooms, ProcessDooms DEF Next

\* While the process lives or shuts down in order, and no write fails, an
\* answered cancel is final: the attempt is never launched again, not even by a
\* resume that races the harness's last needs-input event or the Git export.
THEOREM CancelStaysFinal ==
    ASSUME Faults = {}, Crashes = FALSE PROVE Spec => CancelIsFinal
<1>1. Init => Doomed
  BY DEF Init, Doomed
<1>2. TypeOK /\ EngineInv /\ HoldInv /\ Settled /\ Settled' /\ Doomed /\ [Next]_vars =>
        Doomed' /\ CancelHolding
  BY NextDooms
<1>3. TypeOK /\ EngineInv /\ HoldInv /\ Settled /\ Settled' /\ Doomed /\ [Next]_vars =>
        /\ Doomed'
        /\ [\A a \in Attempts, id \in RequestIDs :
                CancelOp(a, id) \in acked /\ exec[a] # "run" => exec'[a] # "run"]_vars
  BY <1>2 DEF CancelHolding
<1> QED BY <1>1, <1>3, SettledInvariant, TypeCorrect, EngineSafe, HoldInvariant, PTL
    DEF Spec, CancelIsFinal

=============================================================================
