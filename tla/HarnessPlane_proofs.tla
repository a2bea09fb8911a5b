------------------------- MODULE HarnessPlane_proofs -------------------------
(***************************************************************************)
(* Proofs about the harness plane, for any harnesses, settings, platforms, *)
(* faults, edits of the edge and changes of the machine.                   *)
(***************************************************************************)
EXTENDS HarnessPlane, TLAPS

-----------------------------------------------------------------------------
(* The inductive invariant                                                 *)

\* What a setting, a converge pass and a process may be.
Sets == [on : SUBSET Harnesses, lim : Lims \ {None}]

Installs == [Harnesses -> Binaries \cup {None}]

PassSteps == {"free", "stop", "drain", "keep", "replace", "start"}

Passes == [by : {"none", "main", "watch"}, set : Sets, det : Installs,
           tools : Toolchains \cup {None}, stop : SUBSET Harnesses,
           start : SUBSET Harnesses, at : PassSteps, h : Harnesses \cup {"none"}, same : BOOLEAN]

Holders == [cmd : Commands, of : {"none", "loop", "drain", "stray", "orphan", "kept"}]

Typed ==
    /\ main \in {"down", "wait", "pass", "idle", "stopall", "done"}
    /\ watch \in {"off", "idle", "cache", "wait", "pass"}
    /\ hub \in Settings /\ installed \in Installs /\ tools \in Toolchains
    /\ set \in Sets /\ cache \in Sets \cup {NoCache}
    /\ enabled \subseteq Harnesses /\ kids \subseteq Harnesses /\ todo \subseteq Harnesses
    /\ sup \in [Harnesses -> Commands] /\ loop \in [Harnesses -> Commands]
    /\ stray \in [Harnesses -> SUBSET Commands]
    /\ runs \in [Harnesses -> Holders]
    /\ pass \in Passes

\* The holder of reconcileMu, and what its pass has decided: it stops nothing that
\* is wanted, and starts nothing else.
PassOK ==
    /\ pass.by = "main" <=> main = "pass"
    /\ pass.by = "watch" <=> watch = "pass"
    /\ pass.at \in {"drain", "keep", "replace", "start"} => pass.h \in Harnesses
    /\ pass.stop \cap Wanted(pass) = {}

\* The loop of a child is the one its supervisor runs, its process was started
\* with the command of the loop, and an orphan that nobody tried to reclaim has no
\* supervisor.
LoopsOK ==
    \A h \in Harnesses :
        /\ h \notin Limited => sup[h].lim = None
        /\ loop[h] # NoCmd => loop[h] = sup[h]
        /\ runs[h].of = "loop" => loop[h] # NoCmd /\ runs[h].cmd = loop[h]
        /\ runs[h].of = "orphan" => sup[h] = NoCmd

\* Between the comparison of the hash and the start of a new supervisor only
\* StopAll can intervene: the toolchains are those the pass has read, and a
\* supervisor that is to be replaced was started with another command.
ReplaceOK ==
    /\ pass.at \in {"keep", "replace", "start"} => pass.tools \in Toolchains
    /\ pass.at = "replace" =>
          /\ sup[pass.h] # NoCmd => sup[pass.h] # Rendered(pass.h) /\ pass.same
          /\ pass.same => runs[pass.h].of # "orphan"
    /\ pass.at = "start" => loop[pass.h] = NoCmd /\ runs[pass.h].of # "orphan"

PlaneInv == Typed /\ PassOK /\ LoopsOK /\ ReplaceOK

-----------------------------------------------------------------------------
(* Types of the records                                                    *)

\* Settings, passes and the records of what is not there are well formed.
LEMMA RecordTypes ==
    /\ None \in Lims /\ Settings \subseteq Sets /\ Seed \in Sets
    /\ \A s \in Sets : s.lim # None /\ s.lim \in Lims /\ s.on \subseteq Harnesses /\ Recorded(s) \in Sets
    /\ NoCmd \in Commands /\ NoCmd.lim = None
    /\ NoRun \in Holders /\ NoRun.of = "none"
    /\ NoPass \in Passes
<1>1. None \in Lims
  BY DEF Lims
<1>2. Settings \subseteq Sets /\ Default \in Lims \ {None}
  BY PlaneAssumption DEF Sets, Lims, None
<1>3. \A s \in Sets : s.lim # None /\ s.lim \in Lims /\ s.on \subseteq Harnesses /\ Recorded(s) \in Sets
  BY <1>2 DEF Sets, Recorded
<1>4. NoCmd \in Commands /\ NoCmd.lim = None
  BY <1>1 DEF NoCmd, Commands
<1>5. NoRun \in Holders /\ NoRun.of = "none"
  BY <1>4 DEF NoRun, Holders
<1>6. Seed \in Sets
  BY <1>2, PlaneAssumption
<1>7. NoPass \in Passes
  BY <1>6 DEF NoPass, Passes, PassSteps, Installs
<1> QED BY <1>1, <1>2, <1>3, <1>4, <1>5, <1>6, <1>7

\* A process that is started, drains, is left behind, or could not be reclaimed.
LEMMA HolderTypes ==
    /\ \A c \in Commands : [cmd |-> c, of |-> "loop"] \in Holders /\ [cmd |-> c, of |-> "stray"] \in Holders
    /\ \A r \in Holders : /\ [r EXCEPT !.of = "drain"] \in Holders
                          /\ [r EXCEPT !.of = "orphan"] \in Holders
                          /\ Unreclaimed(r) \in Holders /\ Unreclaimed(r).of # "orphan"
                          /\ Unreclaimed(r).of = "loop" => r.of = "loop"
                          /\ Unreclaimed(r).of = "drain" => r.of = "drain"
  BY DEF Holders, Unreclaimed

\* What is hashed: a command of its own, that has the toolchains and the
\* executable in it, and the limits only where the command line carries them.
LEMMA CommandTypes ==
    ASSUME NEW h \in Harnesses, NEW l \in Lims, NEW b \in Binaries \cup {None}, NEW t \in Toolchains
    PROVE  /\ Command(h, l, b, t) \in Commands /\ Command(h, l, b, t) # NoCmd
           /\ h \notin Limited => Command(h, l, b, t).lim = None
<1>1. None \notin Toolchains /\ None \in Lims
  BY PlaneAssumption DEF None, Lims
<1> QED BY <1>1 DEF Command, Commands, NoCmd

-----------------------------------------------------------------------------
(* The supervision loops                                                   *)

\* A process starts, exits or has drained.
LEMMA ProcessKeeps ==
    ASSUME PlaneInv, NEW h \in Harnesses, Launch(h) \/ Exit(h) \/ Drained(h)
    PROVE  PlaneInv'
<1>1. /\ UNCHANGED <<World, main, watch, stopping, memory, cache, pass>>
      /\ runs' \in [Harnesses -> Holders]
      /\ \A x \in Harnesses : x # h => runs'[x] = runs[x]
      /\ \/ runs'[h].of \in {"none", "stray"}
         \/ runs'[h].of = "loop" /\ loop[h] # NoCmd /\ runs'[h].cmd = loop[h]
  <2>0. Typed
    BY DEF PlaneInv
  <2>1. CASE Launch(h)
    <3>1. CASE loop[h] # NoCmd /\ runs' = [runs EXCEPT ![h] = [cmd |-> loop[h], of |-> "loop"]]
      <4>1. loop[h] \in Commands
        BY <2>0 DEF Typed
      <4> QED BY <2>0, <2>1, <3>1, <4>1, HolderTypes DEF Launch, Typed
    <3>2. ASSUME NEW c \in stray[h], runs' = [runs EXCEPT ![h] = [cmd |-> c, of |-> "stray"]]
          PROVE  /\ runs' \in [Harnesses -> Holders] /\ runs'[h].of = "stray"
                 /\ \A x \in Harnesses : x # h => runs'[x] = runs[x]
      <4>1. c \in Commands
        BY <2>0 DEF Typed
      <4> QED BY <2>0, <3>2, <4>1, HolderTypes DEF Typed
    <3> QED BY <2>1, <3>1, <3>2 DEF Launch
  <2>2. CASE Exit(h) \/ Drained(h)
    BY <2>0, <2>2, RecordTypes DEF Exit, Drained, Typed
  <2> QED BY <2>1, <2>2
<1>2. Typed'
  BY <1>1 DEF PlaneInv, Typed, memory, World
<1>3. PassOK'
  BY <1>1 DEF PlaneInv, PassOK, Wanted
<1>4. LoopsOK'
  BY <1>1 DEF PlaneInv, LoopsOK, memory, World
<1>5. ReplaceOK'
  BY <1>1 DEF PlaneInv, ReplaceOK, PassOK, Rendered, memory, World
<1> QED BY <1>2, <1>3, <1>4, <1>5 DEF PlaneInv

\* Stop of a supervisor: its loop ends and its process drains.
LEMMA CancelKeeps ==
    ASSUME PlaneInv, NEW h \in Harnesses, Cancelled(h)
    PROVE  /\ loop' \in [Harnesses -> Commands] /\ runs' \in [Harnesses -> Holders]
           /\ \A x \in Harnesses : x # h => loop'[x] = loop[x] /\ runs'[x] = runs[x]
           /\ loop'[h] = NoCmd /\ runs'[h].of # "loop" /\ (runs'[h].of = "orphan" <=> runs[h].of = "orphan")
<1>1. loop \in [Harnesses -> Commands] /\ runs \in [Harnesses -> Holders] /\ runs[h] \in Holders
  BY DEF PlaneInv, Typed
<1>2. runs'[h] = IF runs[h].of = "loop" THEN [runs[h] EXCEPT !.of = "drain"] ELSE runs[h]
  BY <1>1 DEF Cancelled
<1>3. runs'[h] \in Holders /\ runs'[h].of # "loop" /\ (runs'[h].of = "orphan" <=> runs[h].of = "orphan")
  BY <1>1, <1>2 DEF Holders
<1> QED BY <1>1, <1>3, RecordTypes DEF Cancelled

\* Stopping a child: the pass that does not want it, or StopAll.
LEMMA ChildStopped ==
    ASSUME PlaneInv, NEW h \in Harnesses, sup' = [sup EXCEPT ![h] = NoCmd],
           IF sup[h] = NoCmd THEN UNCHANGED <<loop, runs>> ELSE Cancelled(h)
    PROVE  /\ sup' \in [Harnesses -> Commands] /\ loop' \in [Harnesses -> Commands]
           /\ runs' \in [Harnesses -> Holders] /\ LoopsOK'
           /\ sup'[h] = NoCmd /\ loop'[h] = NoCmd
           /\ \A x \in Harnesses : /\ runs'[x].of = "orphan" <=> runs[x].of = "orphan"
                                   /\ x # h => sup'[x] = sup[x] /\ loop'[x] = loop[x]
<1>1. /\ sup \in [Harnesses -> Commands] /\ loop \in [Harnesses -> Commands] /\ runs \in [Harnesses -> Holders]
      /\ LoopsOK
  BY DEF PlaneInv, Typed
<1>2. sup' \in [Harnesses -> Commands] /\ sup'[h] = NoCmd /\ \A x \in Harnesses : x # h => sup'[x] = sup[x]
  BY <1>1, RecordTypes
<1>3. CASE sup[h] = NoCmd
  BY <1>1, <1>2, <1>3 DEF LoopsOK
<1>4. CASE sup[h] # NoCmd
  BY <1>1, <1>2, <1>4, CancelKeeps, RecordTypes DEF LoopsOK
<1> QED BY <1>3, <1>4

-----------------------------------------------------------------------------
(* A converge pass                                                         *)

\* reconcileMu is taken and the setting read.
LEMMA BeginKeeps ==
    ASSUME PlaneInv, NEW who \in {"main", "watch"}, Begin(who)
    PROVE  PlaneInv'
<1> DEFINE p == [NoPass EXCEPT !.by = who, !.set = set, !.det = installed, !.at = "stop",
                               !.stop = Unwanted, !.start = set.on \cap Found(installed)]
<1>1. pass' = p /\ UNCHANGED <<hub, installed, tools, memory, cache, runs>>
  BY DEF Begin, World, memory
<1>2. set \in Sets /\ kids \subseteq Harnesses /\ installed \in Installs
  BY DEF PlaneInv, Typed
<1>3. /\ p \in Passes /\ p.by = who /\ p.set = set /\ p.det = installed /\ p.at = "stop"
      /\ p.stop = kids \ (set.on \cap Found(installed))
  BY <1>2, RecordTypes DEF NoPass, Passes, PassSteps, Unwanted
<1>4. Typed'
  BY <1>1, <1>3 DEF Begin, PlaneInv, Typed, memory, World
<1>5. PassOK'
  <2>1. p.stop \cap Wanted(p) = {}
    BY <1>3 DEF Wanted
  <2>2. pass.by = "none" /\ main # "pass" /\ watch # "pass"
    BY DEF Begin, PlaneInv, PassOK
  <2> HIDE DEF p
  <2>3. (p.by = "main" <=> main' = "pass") /\ (p.by = "watch" <=> watch' = "pass")
    BY <1>3, <2>2 DEF Begin
  <2> QED BY <1>1, <1>3, <2>1, <2>3 DEF PassOK, Wanted
<1>6. LoopsOK'
  BY <1>1 DEF PlaneInv, LoopsOK, memory, World
<1>7. ReplaceOK'
  BY <1>1, <1>3 DEF ReplaceOK
<1> QED BY <1>4, <1>5, <1>6, <1>7 DEF PlaneInv

\* A child that is not wanted is stopped, and waited for.
LEMMA StopKeeps ==
    ASSUME PlaneInv, \/ \E h \in Harnesses : StopUnwanted(h)
                     \/ StopWaited
    PROVE  PlaneInv'
<1>0. pass \in Passes
  BY DEF PlaneInv, Typed
<1>1. ASSUME NEW h \in Harnesses, StopUnwanted(h) PROVE PlaneInv'
  <2>1. /\ sup' = [sup EXCEPT ![h] = NoCmd]
        /\ IF sup[h] = NoCmd THEN UNCHANGED <<loop, runs>> ELSE Cancelled(h)
        /\ UNCHANGED <<hub, installed, tools, main, watch, set, enabled, kids, cache, todo, stray>>
    BY <1>1 DEF StopUnwanted, World
  <2>2. /\ pass' \in Passes /\ pass'.at = "drain" /\ pass'.h = h /\ pass'.by = pass.by
        /\ pass'.set = pass.set /\ pass'.det = pass.det /\ pass'.stop \subseteq pass.stop
    BY <1>0, <1>1 DEF StopUnwanted, Passes, PassSteps
  <2>3. Typed'
    BY <2>1, <2>2, ChildStopped DEF PlaneInv, Typed
  <2>4. PassOK'
    BY <2>1, <2>2 DEF PlaneInv, PassOK, Wanted
  <2>5. LoopsOK'
    BY <2>1, ChildStopped
  <2>6. ReplaceOK'
    BY <2>2 DEF ReplaceOK
  <2> QED BY <2>3, <2>4, <2>5, <2>6 DEF PlaneInv
<1>2. CASE StopWaited
  <2>1. UNCHANGED <<hub, installed, tools, main, watch, memory, cache, runs>>
    BY <1>2 DEF StopWaited, World
  <2>2. /\ pass' \in Passes /\ pass'.at = "stop" /\ pass'.by = pass.by
        /\ pass'.set = pass.set /\ pass'.det = pass.det /\ pass'.stop = pass.stop
    BY <1>0, <1>2 DEF StopWaited, Passes, PassSteps
  <2>3. Typed' /\ PassOK' /\ LoopsOK' /\ ReplaceOK'
    BY <2>1, <2>2 DEF PlaneInv, Typed, PassOK, Wanted, LoopsOK, ReplaceOK, memory, World
  <2> QED BY <2>3 DEF PlaneInv
<1> QED BY <1>1, <1>2

\* The hash is compared, or cannot be.
LEMMA EnsureKeeps ==
    ASSUME PlaneInv, NEW h \in Harnesses, Ensure(h) \/ EnsureFails(h)
    PROVE  PlaneInv'
<1>0. pass \in Passes /\ tools \in Toolchains
  BY DEF PlaneInv, Typed
<1>1. /\ UNCHANGED <<hub, installed, tools, main, watch, set, enabled, cache, todo, sup, loop, stray, runs>>
      /\ kids' = kids \cup {h}
  BY DEF Ensure, EnsureFails, World
<1>2. /\ pass' \in Passes /\ pass'.by = pass.by /\ pass'.set = pass.set /\ pass'.det = pass.det
      /\ pass'.stop = pass.stop
  BY <1>0 DEF Ensure, EnsureFails, Passes, PassSteps
<1>3. Typed' /\ LoopsOK'
  BY <1>1, <1>2 DEF PlaneInv, Typed, LoopsOK
<1>4. CASE Ensure(h)
  <2>1. /\ pass'.h = h /\ pass'.at = (IF Unchanged(h) THEN "keep" ELSE "replace")
        /\ pass'.same = (sup[h] # NoCmd) /\ pass'.tools = tools
    BY <1>0, <1>4 DEF Ensure, Passes
  <2>2. PassOK'
    BY <1>1, <1>2, <2>1 DEF PlaneInv, PassOK, Wanted
  <2>3. ReplaceOK'
    BY <1>0, <1>1, <1>2, <2>1 DEF PlaneInv, ReplaceOK, LoopsOK, Unchanged, Rendered
  <2> QED BY <1>3, <2>2, <2>3 DEF PlaneInv
<1>5. CASE EnsureFails(h)
  <2>1. pass'.at = "stop"
    BY <1>0, <1>5 DEF EnsureFails, Passes
  <2>2. PassOK' /\ ReplaceOK'
    BY <1>1, <1>2, <2>1 DEF PlaneInv, PassOK, ReplaceOK, Wanted
  <2> QED BY <1>3, <2>2 DEF PlaneInv
<1> QED BY <1>4, <1>5

\* The supervisor is kept, or stopped and replaced by a new one.
LEMMA ReplaceKeeps ==
    ASSUME PlaneInv, Keep \/ Replace \/ ReclaimFails \/ StartSupervisor
    PROVE  PlaneInv'
<1>0. /\ pass \in Passes /\ pass.h \in Harnesses /\ pass.set \in Sets
      /\ pass.at \in {"keep", "replace", "start"}
  BY DEF PlaneInv, Typed, PassOK, Keep, Replace, ReclaimFails, StartSupervisor, Passes
<1>1. UNCHANGED <<hub, installed, tools, main, watch, set, enabled, kids, cache, todo>>
  BY DEF Keep, Replace, ReclaimFails, StartSupervisor, World, memory
<1>2. /\ pass' \in Passes /\ pass'.by = pass.by /\ pass'.set = pass.set /\ pass'.det = pass.det
      /\ pass'.stop = pass.stop /\ pass'.at \in {"stop", "start"}
      /\ pass'.at = "start" => pass'.h = pass.h /\ pass'.tools = pass.tools
  BY <1>0 DEF Keep, Replace, ReclaimFails, StartSupervisor, Passes, PassSteps
<1>3. PassOK'
  BY <1>0, <1>1, <1>2 DEF PlaneInv, PassOK, Wanted
<1>4. /\ sup \in [Harnesses -> Commands] /\ loop \in [Harnesses -> Commands]
      /\ runs \in [Harnesses -> Holders] /\ runs[pass.h] \in Holders
      /\ stray \in [Harnesses -> SUBSET Commands] /\ LoopsOK /\ ReplaceOK
      /\ pass.tools \in Toolchains
  BY <1>0 DEF PlaneInv, Typed, ReplaceOK
<1>5. /\ Rendered(pass.h) \in Commands /\ Rendered(pass.h) # NoCmd
      /\ pass.h \notin Limited => Rendered(pass.h).lim = None
  <2>1. pass.set.lim \in Lims /\ pass.det[pass.h] \in Binaries \cup {None}
    BY <1>0, RecordTypes DEF Passes, Installs
  <2> QED BY <1>0, <1>4, <2>1, CommandTypes DEF Rendered
<1>6. CASE Keep
  <2>1. UNCHANGED <<sup, loop, runs>> /\ stray' \in [Harnesses -> SUBSET Commands] /\ pass'.at = "stop"
    BY <1>0, <1>4, <1>5, <1>6 DEF Keep, Passes
  <2> QED BY <1>1, <1>2, <1>3, <2>1 DEF PlaneInv, Typed, LoopsOK, ReplaceOK
<1>7. CASE Replace /\ pass.same
  <2>1. UNCHANGED <<sup, stray>> /\ pass'.at = "start" /\ Cancelled(pass.h) /\ runs[pass.h].of # "orphan"
    BY <1>0, <1>4, <1>7 DEF Replace, Passes, ReplaceOK
  <2>2. /\ loop' \in [Harnesses -> Commands] /\ runs' \in [Harnesses -> Holders]
        /\ \A x \in Harnesses : x # pass.h => loop'[x] = loop[x] /\ runs'[x] = runs[x]
        /\ loop'[pass.h] = NoCmd /\ runs'[pass.h].of \notin {"loop", "orphan"}
    BY <1>0, <2>1, CancelKeeps
  <2>3. Typed' /\ LoopsOK' /\ ReplaceOK'
    BY <1>0, <1>1, <1>2, <1>4, <2>1, <2>2 DEF PlaneInv, Typed, LoopsOK, ReplaceOK
  <2> QED BY <1>3, <2>3 DEF PlaneInv
<1>8. CASE (Replace \/ ReclaimFails) /\ ~pass.same
  <2>1. UNCHANGED <<sup, stray, loop>> /\ pass'.at = "start"
    BY <1>0, <1>8 DEF Replace, ReclaimFails, Passes, memory, World
  <2>2. sup[pass.h] = NoCmd /\ loop[pass.h] = NoCmd /\ runs[pass.h].of # "loop"
    BY <1>0, <1>4, <1>8 DEF Replace, ReclaimFails, ReplaceOK, LoopsOK
  <2>3. /\ runs' \in [Harnesses -> Holders]
        /\ \A x \in Harnesses : x # pass.h => runs'[x] = runs[x]
        /\ runs'[pass.h].of \notin {"loop", "orphan"}
    <3>1. CASE Replace
      BY <1>0, <1>4, <1>8, <3>1, RecordTypes DEF Replace, Reclaimed, NoRun
    <3>2. CASE ReclaimFails
      BY <1>0, <1>4, <2>2, <3>2, HolderTypes DEF ReclaimFails
    <3> QED BY <1>8, <3>1, <3>2
  <2>4. Typed' /\ LoopsOK' /\ ReplaceOK'
    BY <1>0, <1>1, <1>2, <1>4, <2>1, <2>2, <2>3 DEF PlaneInv, Typed, LoopsOK, ReplaceOK
  <2> QED BY <1>3, <2>4 DEF PlaneInv
<1>9. CASE StartSupervisor
  <2>1. /\ sup' = [sup EXCEPT ![pass.h] = Rendered(pass.h)]
        /\ loop' = [loop EXCEPT ![pass.h] = Rendered(pass.h)]
        /\ pass'.at = "stop" /\ UNCHANGED <<stray, runs>>
    BY <1>0, <1>9 DEF StartSupervisor, Passes
  <2>2. loop[pass.h] = NoCmd /\ runs[pass.h].of \notin {"loop", "orphan"}
    BY <1>0, <1>4, <1>9 DEF StartSupervisor, ReplaceOK, LoopsOK
  <2>3. Typed' /\ LoopsOK' /\ ReplaceOK'
    BY <1>0, <1>1, <1>2, <1>4, <1>5, <2>1, <2>2 DEF PlaneInv, Typed, LoopsOK, ReplaceOK
  <2> QED BY <1>3, <2>3 DEF PlaneInv
<1>10. ReclaimFails => ~pass.same
  BY DEF ReclaimFails
<1> QED BY <1>6, <1>7, <1>8, <1>9, <1>10

\* The pass is over.
LEMMA PublishKeeps ==
    ASSUME PlaneInv, Publish
    PROVE  PlaneInv'
<1>1. /\ pass' = NoPass /\ enabled' = pass.set.on
      /\ UNCHANGED <<hub, installed, tools, set, kids, cache, todo, sup, loop, stray, runs>>
  BY DEF Publish, World
<1>2. pass.set.on \subseteq Harnesses
  BY DEF PlaneInv, Typed, Passes, Sets
<1>3. Typed'
  BY <1>1, <1>2, RecordTypes DEF Publish, PlaneInv, Typed
<1>4. main' # "pass" /\ watch' # "pass"
  BY DEF Publish, PlaneInv, PassOK
<1>5. PassOK' /\ ReplaceOK'
  BY <1>1, <1>4 DEF PassOK, ReplaceOK, NoPass
<1>6. LoopsOK'
  BY <1>1 DEF PlaneInv, LoopsOK
<1> QED BY <1>3, <1>5, <1>6 DEF PlaneInv

-----------------------------------------------------------------------------
(* Run, Observe, shutdown and death                                        *)

\* The steps that touch neither a supervisor nor a pass.
LEMMA OutsideKeeps ==
    ASSUME PlaneInv,
           Boot \/ Tick \/ Observe \/ WriteCache \/ Shutdown \/ StopAll \/ RunReturns \/ Edit
    PROVE  PlaneInv'
<1>1. UNCHANGED <<sup, loop, stray, runs, pass>>
  BY DEF Boot, Tick, Observe, WriteCache, Shutdown, StopAll, RunReturns, Edit, memory, World
<1>2. Typed'
  <2>0. Typed
    BY DEF PlaneInv
  <2>1. CASE Boot
    <3>1. cache' \in Sets
      BY <2>0, <2>1, RecordTypes DEF Boot, Typed
    <3> QED BY <2>0, <2>1, <3>1 DEF Boot, Typed, World
  <2>2. CASE Tick \/ Shutdown \/ RunReturns
    BY <2>0, <2>2 DEF Tick, Shutdown, RunReturns, Typed, memory, World
  <2>3. CASE Observe
    BY <2>0, <2>3, RecordTypes DEF Observe, Typed, World
  <2>4. CASE WriteCache
    BY <2>0, <2>4, RecordTypes DEF WriteCache, Typed, memory, World
  <2>5. CASE StopAll
    BY <2>0, <2>5 DEF StopAll, Typed, World
  <2>6. CASE Edit
    BY <2>0, <2>6 DEF Edit, Typed, Installs, memory, World
  <2> QED BY <2>1, <2>2, <2>3, <2>4, <2>5, <2>6
<1>3. PassOK'
  <2>1. (main' = "pass" <=> main = "pass") /\ (watch' = "pass" <=> watch = "pass")
    BY DEF Boot, Tick, Observe, WriteCache, Shutdown, StopAll, RunReturns, Edit
  <2> QED BY <1>1, <2>1 DEF PlaneInv, PassOK, Wanted
<1>4. LoopsOK' /\ ReplaceOK'
  BY <1>1 DEF PlaneInv, LoopsOK, ReplaceOK, Rendered
<1> QED BY <1>2, <1>3, <1>4 DEF PlaneInv

\* StopAll stops a child, whatever a pass of the watch is doing with it.
LEMMA StopChildKeeps ==
    ASSUME PlaneInv, NEW h \in Harnesses, StopChild(h)
    PROVE  PlaneInv'
<1>1. /\ sup' = [sup EXCEPT ![h] = NoCmd]
      /\ IF sup[h] = NoCmd THEN UNCHANGED <<loop, runs>> ELSE Cancelled(h)
      /\ todo' \subseteq todo
      /\ UNCHANGED <<hub, installed, tools, main, watch, set, enabled, kids, cache, pass, stray>>
  BY DEF StopChild, World
<1>2. Typed'
  BY <1>1, ChildStopped DEF PlaneInv, Typed
<1>3. PassOK' /\ LoopsOK'
  BY <1>1, ChildStopped DEF PlaneInv, PassOK, Wanted
<1>4. ReplaceOK'
  BY <1>1, ChildStopped DEF PlaneInv, ReplaceOK, PassOK, Rendered
<1> QED BY <1>2, <1>3, <1>4 DEF PlaneInv

\* The agent dies or exits: what was in memory is gone.
LEMMA GoneKeeps ==
    ASSUME PlaneInv, Crash \/ AgentExits
    PROVE  PlaneInv'
<1>1. Gone /\ UNCHANGED <<hub, installed, tools, cache>>
  BY DEF Crash, AgentExits, World
<1>2. runs' \in [Harnesses -> Holders] /\ \A h \in Harnesses : runs'[h].of # "loop"
  <2>1. \A h \in Harnesses : runs[h] \in Holders
    BY DEF PlaneInv, Typed
  <2>2. \A h \in Harnesses : [runs[h] EXCEPT !.of = "orphan"] \in Holders
                              /\ [runs[h] EXCEPT !.of = "orphan"].of = "orphan"
    BY <2>1 DEF Holders
  <2> QED BY <1>1, <2>2, RecordTypes DEF Gone
<1>3. Typed'
  BY <1>1, <1>2, RecordTypes DEF Gone, PlaneInv, Typed
<1>4. PassOK' /\ ReplaceOK' /\ LoopsOK'
  BY <1>1, <1>2, RecordTypes DEF Gone, PassOK, ReplaceOK, LoopsOK, NoPass
<1> QED BY <1>3, <1>4 DEF PlaneInv

-----------------------------------------------------------------------------
(* The theorems                                                            *)

LEMMA PlaneInit == Init => PlaneInv
<1> SUFFICES ASSUME Init PROVE PlaneInv
  OBVIOUS
<1>1. Typed
  BY RecordTypes, PlaneAssumption DEF Init, Typed, Installs
<1>2. PassOK /\ ReplaceOK /\ LoopsOK
  BY RecordTypes DEF Init, PassOK, ReplaceOK, LoopsOK, NoPass
<1> QED BY <1>1, <1>2 DEF PlaneInv

LEMMA StutterKeeps == PlaneInv /\ UNCHANGED vars => PlaneInv'
  BY DEF PlaneInv, Typed, PassOK, ReplaceOK, LoopsOK, Wanted, Rendered, vars

\* The invariant of the harness plane holds in every reachable state: whatever Run,
\* the informer's handler, the supervision loops, crashes and StopAll do, the loop
\* of a child is its supervisor's, its process was started with the command of the
\* loop, and a supervisor is replaced only when its command has changed.
THEOREM PlaneInvariant == Spec => []PlaneInv
<1>1. PlaneInv /\ [Next]_vars => PlaneInv'
  BY ProcessKeeps, BeginKeeps, StopKeeps, EnsureKeeps, ReplaceKeeps, PublishKeeps, OutsideKeeps,
     StopChildKeeps, GoneKeeps, StutterKeeps DEF Next, Reconcile, Leaving
<1> QED BY <1>1, PlaneInit, PTL DEF Spec

\* The variables of the harness plane stay in their types, and reconcileMu is held by
\* exactly the goroutine that is in its pass.
THEOREM PlaneTypeCorrect == Spec => []PlaneTypeOK
<1>1. ASSUME PlaneInv PROVE PlaneTypeOK
  <2>1. \A h \in Harnesses :
          /\ sup[h] \in Commands /\ loop[h] \in Commands /\ stray[h] \subseteq Commands
          /\ runs[h].cmd \in Commands
          /\ runs[h].of \in {"none", "loop", "drain", "stray", "orphan", "kept"}
    BY <1>1 DEF PlaneInv, Typed, Holders
  <2>2. set.on \subseteq Harnesses
    BY <1>1 DEF PlaneInv, Typed, Sets
  <2>3. (pass.by = "main") = (main = "pass") /\ (pass.by = "watch") = (watch = "pass")
    BY <1>1 DEF PlaneInv, PassOK
  <2> QED BY <1>1, <2>1, <2>2, <2>3 DEF PlaneInv, Typed, PlaneTypeOK
<1> QED BY <1>1, PlaneInvariant, PTL

\* A runner that a previous agent left behind is never left alone under an advertised
\* harness that has a supervisor: ensureSupervisor reclaims its state lock first, and
\* only a reclaim that fails leaves it there.
THEOREM AdvertisedRunnerIsOurs == Spec => []AdvertisedIsOurs
<1>1. PlaneInv => AdvertisedIsOurs
  BY DEF PlaneInv, Typed, LoopsOK, AdvertisedIsOurs
<1> QED BY <1>1, PlaneInvariant, PTL

\* A pass drains only the process of a harness that the setting it works on drops, or
\* that runs with other limits, another executable or other toolchains than the pass
\* has found: ensureSupervisor does not bounce a working runner.
THEOREM WorkingRunnerIsKept == Spec => WorkingRunnerIsLeftAlone
<1> DEFINE Kept ==
      \A h \in Harnesses :
          runs[h].of = "loop" /\ runs'[h].of = "drain" /\ main # "stopall" =>
              \/ h \notin Wanted(pass)
              \/ h \in Limited /\ runs[h].cmd.lim # pass.set.lim
              \/ runs[h].cmd.bin # pass.det[h]
              \/ runs[h].cmd.tools # pass.tools
<1>1. ASSUME PlaneInv, [Next]_vars PROVE Kept
  <2>0. /\ runs \in [Harnesses -> Holders] /\ LoopsOK /\ ReplaceOK /\ PassOK
        /\ \A h \in Harnesses : runs[h] \in Holders
    BY <1>1 DEF PlaneInv, Typed
  <2>1. CASE UNCHANGED runs \/ main = "stopall"
    BY <2>1
  <2>2. ASSUME NEW h \in Harnesses, Launch(h) \/ Exit(h) \/ Drained(h) PROVE Kept
    BY <2>0, <2>2, RecordTypes DEF Launch, Exit, Drained
  <2>3. ASSUME NEW h \in Harnesses, StopUnwanted(h) PROVE Kept
    <3>1. h \notin Wanted(pass)
      BY <2>0, <2>3 DEF StopUnwanted, PassOK
    <3>2. \A x \in Harnesses : x # h => runs'[x] = runs[x]
      BY <1>1, <2>0, <2>3, CancelKeeps DEF StopUnwanted
    <3> QED BY <3>1, <3>2
  <2>4. CASE Replace
    <3>1. pass.h \in Harnesses
      BY <2>0, <2>4 DEF Replace, PassOK
    <3>2. \A x \in Harnesses : x # pass.h => runs'[x] = runs[x]
      BY <1>1, <2>0, <2>4, <3>1, CancelKeeps DEF Replace
    <3>3. ASSUME runs[pass.h].of = "loop"
          PROVE  \/ pass.h \in Limited /\ runs[pass.h].cmd.lim # pass.set.lim
                 \/ runs[pass.h].cmd.bin # pass.det[pass.h]
                 \/ runs[pass.h].cmd.tools # pass.tools
      <4>1. runs[pass.h].cmd = sup[pass.h] /\ sup[pass.h] # NoCmd
        BY <2>0, <3>1, <3>3 DEF LoopsOK
      <4>2. runs[pass.h].cmd # Rendered(pass.h)
        BY <2>0, <2>4, <4>1 DEF Replace, ReplaceOK
      <4>3. runs[pass.h].cmd \in Commands /\ (pass.h \notin Limited => runs[pass.h].cmd.lim = None)
        BY <1>1, <2>0, <3>1, <4>1 DEF Holders, PlaneInv, Typed, LoopsOK
      <4> QED BY <3>1, <4>2, <4>3 DEF Rendered, Command, Commands
    <3> QED BY <3>2, <3>3
  <2>5. CASE Crash \/ AgentExits
    <3>1. \A x \in Harnesses : runs'[x].of \in {"none", "orphan"}
      <4>1. \A x \in Harnesses : [runs[x] EXCEPT !.of = "orphan"].of = "orphan"
        BY <2>0 DEF Holders
      <4> QED BY <2>5, <4>1, RecordTypes DEF Crash, AgentExits, World, Gone
    <3> QED BY <3>1
  <2>6. CASE \/ \E h \in Harnesses : EnsureFails(h) \/ Ensure(h)
             \/ \E w \in {"main", "watch"} : Begin(w)
             \/ StopWaited \/ Keep \/ StartSupervisor \/ Publish
             \/ Boot \/ Tick \/ Observe \/ WriteCache \/ Shutdown \/ StopAll \/ RunReturns \/ Edit
    BY <2>1, <2>6 DEF EnsureFails, Ensure, Begin, StopWaited, Keep, StartSupervisor, Publish,
           Boot, Tick, Observe, WriteCache, Shutdown, StopAll, RunReturns, Edit
  <2>7. CASE \E h \in Harnesses : StopChild(h)
    BY <2>1, <2>7 DEF StopChild
  <2>8. CASE UNCHANGED vars
    BY <2>1, <2>8 DEF vars
  <2>9. CASE ReclaimFails
    <3>1. pass.h \in Harnesses
      BY <2>0, <2>9 DEF ReclaimFails, PassOK
    <3>2. \A x \in Harnesses : runs'[x].of = "drain" => runs[x].of = "drain"
      BY <2>0, <2>9, <3>1, HolderTypes DEF ReclaimFails
    <3> QED BY <3>2
  <2> QED BY <1>1, <2>2, <2>3, <2>4, <2>5, <2>6, <2>7, <2>8, <2>9 DEF Next, Reconcile, Leaving
<1>2. PlaneInv /\ [Next]_vars => [Kept]_vars
  BY <1>1
<1> QED BY <1>2, PlaneInvariant, PTL DEF Spec, WorkingRunnerIsLeftAlone

=============================================================================
