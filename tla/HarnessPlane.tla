---------------------------- MODULE HarnessPlane ----------------------------
(***************************************************************************)
(* The harness plane of the edge agent: the manager that keeps the machine's *)
(* runners in step with the edge's spec.harness (harnessplane/manager.go),   *)
(* the supervised child per harness (child.go), the supervision loop         *)
(* (runner/supervisor/supervisor.go, reclaim_unix.go) and the cache of the   *)
(* last observed setting (cache.go).                                         *)
(*                                                                           *)
(* Two goroutines reconcile: Run, at its start and on its ticker, and the    *)
(* informer's handler after an observation.  A pass holds reconcileMu; the   *)
(* shutdown of Run does not.                                                 *)
(***************************************************************************)
EXTENDS Integers, FiniteSets

CONSTANTS
    Harnesses,
    Limited,        \* those whose command line carries the limits (claude)
    Binaries,       \* where detection may find an executable
    Toolchains,     \* what detectToolchains may report
    Settings,       \* what spec.harness may say: [on, lim]
    Seed,           \* --harness
    Default,        \* the limits of a setting that names none
    Platforms,      \* does a child die with its agent: {TRUE} Linux, {FALSE} macOS
    Faults,         \* failures: "cache", "ensure", "exit", "crash", "stop", "reclaim"
    MaxChanges, MaxFaults

ASSUME PlaneAssumption ==
    /\ IsFiniteSet(Harnesses) /\ Limited \subseteq Harnesses
    /\ Binaries \subseteq Nat /\ Toolchains \subseteq Nat /\ 0 \in Binaries \cap Toolchains
    /\ Seed \in Settings /\ Platforms \subseteq BOOLEAN
    /\ Settings \subseteq [on : SUBSET Harnesses, lim : Nat] /\ Default \in Nat
    /\ Faults \subseteq {"cache", "ensure", "exit", "crash", "stop", "reclaim"}
    /\ {MaxChanges, MaxFaults} \subseteq Nat

VARIABLES
    hub,        \* spec.harness
    changes,    \* bound on its changes and on those of the machine
    installed,  \* the executable detection finds, per harness
    tools,      \* the toolchains of the machine
    bound,      \* the platform
    main,       \* where Run is
    watch,      \* where the informer's handler is
    stopping,   \* the agent's context is cancelled
    set, seen,  \* Manager.setting and observed
    enabled,    \* Manager.enabled
    kids,       \* Manager.children
    cache,      \* the cache file
    pass,       \* the converge pass that holds reconcileMu
    todo,       \* children StopAll has still to stop
    sup,        \* child.sup and child.hash: the command it was started with
    loop,       \* the supervision loop that runs
    stray,      \* loops of supervisors that were stopped and started once more
    runs,       \* the process that holds the runner's state lock
    faults

World  == <<hub, changes, installed, tools, bound>>
memory == <<set, seen, enabled, kids, todo, sup, loop, stray>>
vars == <<hub, changes, installed, tools, bound, main, watch, stopping, set, seen, enabled,
          kids, cache, pass, todo, sup, loop, stray, runs, faults>>

None  == -1
NoCmd == [lim |-> None, bin |-> None, tools |-> None]
NoRun == [cmd |-> NoCmd, of |-> "none"]
NoPass == [by |-> "none", set |-> Seed, det |-> [h \in Harnesses |-> None], tools |-> None,
           stop |-> {}, start |-> {}, at |-> "free", h |-> "none", same |-> FALSE]
NoCache == [on |-> {}, lim |-> None]

Init ==
    /\ hub \in Settings /\ changes = 0 /\ bound \in Platforms
    /\ installed = [h \in Harnesses |-> 0] /\ tools = 0
    /\ main = "down" /\ watch = "off" /\ stopping = FALSE
    /\ set = Seed /\ seen = FALSE /\ enabled = {} /\ kids = {}
    /\ cache = NoCache /\ pass = NoPass /\ todo = {}
    /\ sup = [h \in Harnesses |-> NoCmd] /\ loop = [h \in Harnesses |-> NoCmd]
    /\ stray = [h \in Harnesses |-> {}]
    /\ runs = [h \in Harnesses |-> NoRun] /\ faults = 0

-----------------------------------------------------------------------------
(* supervisor.go: Start, Stop, supervise; reclaim_unix.go *)

\* Stop: the loop is cancelled and its process drains.
Cancelled(h) ==
    /\ loop' = [loop EXCEPT ![h] = NoCmd]
    /\ runs' = [runs EXCEPT ![h] = IF @.of = "loop" THEN [@ EXCEPT !.of = "drain"] ELSE @]

\* runOnce: a child that does not get the lock exits again.
Launch(h) ==
    /\ runs[h] = NoRun
    /\ \/ loop[h] # NoCmd /\ runs' = [runs EXCEPT ![h] = [cmd |-> loop[h], of |-> "loop"]]
       \/ \E c \in stray[h] : runs' = [runs EXCEPT ![h] = [cmd |-> c, of |-> "stray"]]
    /\ UNCHANGED <<World, main, watch, stopping, memory, cache,
                   pass, faults>>

\* The child exits by itself, and so may one that a previous agent left behind.
Exit(h) ==
    /\ "exit" \in Faults /\ faults < MaxFaults /\ faults' = faults + 1
    /\ runs[h].of \in {"loop", "stray", "orphan", "kept"} /\ runs' = [runs EXCEPT ![h] = NoRun]
    /\ UNCHANGED <<World, main, watch, stopping, memory, cache, pass>>

\* stopChild: SIGTERM, the grace period, SIGKILL.
Drained(h) ==
    /\ runs[h].of = "drain" /\ runs' = [runs EXCEPT ![h] = NoRun]
    /\ UNCHANGED <<World, main, watch, stopping, memory, cache,
                   pass, faults>>

\* Variant of Reclaimed: whoever holds the lock keeps it.
ReclaimedNothing(r) == r

\* ReclaimStaleHolder, when the holder of the lock could be ended.
Reclaimed(r) == NoRun

\* It could not: no pid is recorded, the lock cannot be read, or the process is
\* there after SIGKILL.  An orphan is "kept" from then on.
Unreclaimed(r) == [r EXCEPT !.of = IF @ = "orphan" THEN "kept" ELSE @]

-----------------------------------------------------------------------------
(* Reconcile *)

\* Detection: the harnesses whose executable was found.
Found(det) == {h \in Harnesses : det[h] # None}

Wanted(p) == p.set.on \cap Found(p.det)

\* childArgs and renderConfig: what is hashed.  Only some command lines carry
\* the limits; the executable and the toolchains are in all of them.
Command(h, lim, bin, t) ==
    [lim |-> IF h \in Limited THEN lim ELSE None, bin |-> bin, tools |-> t]

\* The command of the pass that is under way.
Rendered(h) == Command(h, pass.set.lim, pass.det[h], pass.tools)

\* Variant of Unwanted: what is no longer installed keeps running.
UnwantedBySetting == kids \ set.on

\* The children a pass stops: not enabled, or not installed any more.
Unwanted == kids \ (set.on \cap Found(installed))

\* Variant of Begin: without reconcileMu.
BeginUnlocked(who) ==
    /\ \/ who = "main" /\ main = "wait" /\ main' = "pass" /\ UNCHANGED watch
       \/ who = "watch" /\ watch = "wait" /\ watch' = "pass" /\ UNCHANGED main
    /\ pass' = [NoPass EXCEPT !.by = who, !.set = set, !.det = installed, !.at = "stop",
                              !.stop = Unwanted, !.start = set.on \cap Found(installed)]
    /\ UNCHANGED <<World, stopping, memory, cache, runs, faults>>

\* reconcileMu is taken, the setting read and detection run.
Begin(who) ==
    /\ pass.by = "none"
    /\ \/ who = "main" /\ main = "wait" /\ main' = "pass" /\ UNCHANGED watch
       \/ who = "watch" /\ watch = "wait" /\ watch' = "pass" /\ UNCHANGED main
    /\ pass' = [NoPass EXCEPT !.by = who, !.set = set, !.det = installed, !.at = "stop",
                              !.stop = Unwanted, !.start = set.on \cap Found(installed)]
    /\ UNCHANGED <<World, stopping, memory, cache, runs, faults>>

\* child.stop of one that is not wanted, and the wait for its process.
StopUnwanted(h) ==
    /\ pass.at = "stop" /\ h \in pass.stop
    /\ pass' = [pass EXCEPT !.stop = @ \ {h}, !.at = "drain", !.h = h]
    /\ sup' = [sup EXCEPT ![h] = NoCmd]
    /\ IF sup[h] = NoCmd THEN UNCHANGED <<loop, runs>> ELSE Cancelled(h)
    /\ UNCHANGED <<World, main, watch, stopping, set, seen, enabled,
                   kids, cache, todo, stray, faults>>

StopWaited ==
    /\ pass.at = "drain" /\ runs[pass.h].of # "drain"
    /\ pass' = [pass EXCEPT !.at = "stop", !.h = "none"]
    /\ UNCHANGED <<World, main, watch, stopping, memory, cache, runs,
                   faults>>

\* Variant of Unchanged: the hash is not compared.
UnchangedNever(h) == FALSE

\* Variant of Unchanged: the hash covers the limits alone.
UnchangedLimits(h) == sup[h] # NoCmd /\ (h \in Limited => sup[h].lim = pass.set.lim)

\* ensureSupervisor: same arguments and enrollment as the supervisor has.
Unchanged(h) ==
    sup[h] # NoCmd /\ sup[h] = Command(h, pass.set.lim, pass.det[h], tools)

\* childFor and ensure, up to the comparison of the hash: the toolchains are
\* detected here, the executables were when the pass began.
Ensure(h) ==
    /\ pass.at = "stop" /\ pass.stop = {} /\ h \in pass.start
    /\ pass' = [pass EXCEPT !.start = @ \ {h}, !.h = h, !.same = sup[h] # NoCmd,
                            !.tools = tools, !.at = IF Unchanged(h) THEN "keep" ELSE "replace"]
    /\ kids' = kids \cup {h}
    /\ UNCHANGED <<World, main, watch, stopping, set, seen, enabled,
                   cache, todo, sup, loop, stray, runs, faults>>

\* A directory, the token or the enrollment cannot be written: the next harness.
EnsureFails(h) ==
    /\ "ensure" \in Faults /\ faults < MaxFaults /\ faults' = faults + 1
    /\ pass.at = "stop" /\ pass.stop = {} /\ h \in pass.start
    /\ pass' = [pass EXCEPT !.start = @ \ {h}] /\ kids' = kids \cup {h}
    /\ UNCHANGED <<World, main, watch, stopping, set, seen, enabled,
                   cache, todo, sup, loop, stray, runs>>

\* current.Start: a no-op, unless StopAll has stopped the supervisor meanwhile
\* and the child has forgotten it: then its loop runs once more.
Keep ==
    /\ pass.at = "keep"
    /\ pass' = [pass EXCEPT !.at = "stop", !.h = "none", !.same = FALSE, !.tools = None]
    /\ stray' = IF sup[pass.h] # NoCmd THEN stray
                ELSE [stray EXCEPT ![pass.h] = @ \cup {Rendered(pass.h)}]
    /\ UNCHANGED <<World, main, watch, stopping, set, seen, enabled,
                   kids, cache, todo, sup, loop, runs, faults>>

\* The previous supervisor is stopped, or the lock reclaimed when there is none.
Replace ==
    /\ pass.at = "replace"
    /\ pass' = [pass EXCEPT !.at = "start"]
    /\ IF pass.same THEN Cancelled(pass.h)
       ELSE runs' = [runs EXCEPT ![pass.h] = Reclaimed(@)] /\ UNCHANGED loop
    /\ UNCHANGED <<World, main, watch, stopping, set, seen, enabled,
                   kids, cache, todo, sup, stray, faults>>

\* The holder cannot be ended: that is logged, and the new supervisor is started
\* all the same.  As long as there is one, nothing tries again.
ReclaimFails ==
    /\ "reclaim" \in Faults /\ faults < MaxFaults /\ faults' = faults + 1
    /\ pass.at = "replace" /\ ~pass.same /\ runs[pass.h] # NoRun
    /\ pass' = [pass EXCEPT !.at = "start"]
    /\ runs' = [runs EXCEPT ![pass.h] = Unreclaimed(@)]
    /\ UNCHANGED <<World, main, watch, stopping, memory, cache>>

\* A new supervisor, started with a context of its own.  The wait for the old
\* one ends early when the agent's context is cancelled.
StartSupervisor ==
    /\ pass.at = "start" /\ (runs[pass.h].of = "drain" => stopping)
    /\ sup' = [sup EXCEPT ![pass.h] = Rendered(pass.h)]
    /\ loop' = [loop EXCEPT ![pass.h] = Rendered(pass.h)]
    /\ pass' = [pass EXCEPT !.at = "stop", !.h = "none", !.same = FALSE, !.tools = None]
    /\ UNCHANGED <<World, main, watch, stopping, set, seen, enabled,
                   kids, cache, todo, stray, runs, faults>>

\* What the pass found is published and reconcileMu released.  Run starts the
\* watch after its first pass.
Publish ==
    /\ pass.at = "stop" /\ pass.stop = {} /\ pass.start = {}
    /\ enabled' = pass.set.on /\ pass' = NoPass
    /\ main' = IF pass.by = "main" THEN "idle" ELSE main
    /\ watch' = IF pass.by = "watch" \/ watch = "off" THEN "idle" ELSE watch
    /\ UNCHANGED <<World, stopping, set, seen, kids, cache, todo, sup,
                   loop, stray, runs, faults>>

-----------------------------------------------------------------------------
(* Run and Observe *)

\* WriteCache: the record has the mode and the list, and no limits.
Recorded(s) == [s EXCEPT !.lim = Default]

\* SeedCache writes only when there is no file; LoadCache reads what is there.
Boot ==
    /\ main = "down" /\ main' = "wait"
    /\ cache' = IF cache = NoCache THEN Recorded(Seed) ELSE cache
    /\ set' = cache'
    /\ UNCHANGED <<World, watch, stopping, seen, enabled, kids, pass,
                   todo, sup, loop, stray, runs, faults>>

Tick ==
    /\ main = "idle" /\ ~stopping /\ main' = "wait"
    /\ UNCHANGED <<World, watch, stopping, memory, cache, pass, runs,
                   faults>>

\* Observe: the setting is replaced, and the file is written if it changed.
Observe ==
    /\ watch = "idle" /\ (~seen \/ set # hub)
    /\ set' = hub /\ seen' = TRUE /\ watch' = "cache"
    /\ UNCHANGED <<World, main, stopping, enabled, kids, cache, pass,
                   todo, sup, loop, stray, runs, faults>>

WriteCache ==
    /\ watch = "cache" /\ watch' = "wait"
    /\ \/ cache' = Recorded(set) /\ UNCHANGED faults
       \/ /\ "cache" \in Faults /\ faults < MaxFaults /\ faults' = faults + 1
          /\ UNCHANGED cache
    /\ UNCHANGED <<World, main, stopping, memory, pass, runs>>

\* The agent's context is cancelled.
Shutdown ==
    /\ "stop" \in Faults /\ faults < MaxFaults /\ faults' = faults + 1
    /\ main \notin {"down", "done"} /\ ~stopping /\ stopping' = TRUE
    /\ UNCHANGED <<World, main, watch, memory, cache, pass, runs>>

\* StopAll takes the children it finds.
StopAll ==
    /\ main = "idle" /\ stopping /\ main' = "stopall"
    /\ todo' = kids /\ enabled' = {}
    /\ UNCHANGED <<World, watch, stopping, set, seen, kids, cache,
                   pass, sup, loop, stray, runs, faults>>

StopChild(h) ==
    /\ main = "stopall" /\ h \in todo /\ \A x \in Harnesses \ todo : runs[x].of # "drain"
    /\ todo' = todo \ {h} /\ sup' = [sup EXCEPT ![h] = NoCmd]
    /\ IF sup[h] = NoCmd THEN UNCHANGED <<loop, runs>> ELSE Cancelled(h)
    /\ UNCHANGED <<World, main, watch, stopping, set, seen, enabled,
                   kids, cache, pass, stray, faults>>

RunReturns ==
    /\ main = "stopall" /\ todo = {} /\ \A h \in Harnesses : runs[h].of # "drain"
    /\ main' = "done"
    /\ UNCHANGED <<World, watch, stopping, memory, cache, pass, runs,
                   faults>>

\* The agent is gone.  Its children die with it, or run on without it.
Gone ==
    /\ main' = "down" /\ watch' = "off" /\ stopping' = FALSE /\ pass' = NoPass
    /\ seen' = FALSE /\ enabled' = {} /\ kids' = {} /\ todo' = {} /\ set' = Seed
    /\ sup' = [h \in Harnesses |-> NoCmd] /\ loop' = [h \in Harnesses |-> NoCmd]
    /\ stray' = [h \in Harnesses |-> {}]
    /\ runs' = [h \in Harnesses |->
                   IF bound \/ runs[h].of = "none" THEN NoRun ELSE [runs[h] EXCEPT !.of = "orphan"]]

Crash ==
    /\ "crash" \in Faults /\ faults < MaxFaults /\ faults' = faults + 1
    /\ main # "down" /\ Gone
    /\ UNCHANGED <<World, cache>>

AgentExits ==
    /\ main = "done" /\ Gone
    /\ UNCHANGED <<World, cache, faults>>

\* The world: the edge is edited, a harness is installed, moved or removed, a
\* toolchain comes or goes.
Edit ==
    /\ changes < MaxChanges /\ changes' = changes + 1
    /\ \/ hub' \in Settings \ {hub} /\ UNCHANGED <<installed, tools>>
       \/ /\ \E h \in Harnesses : \E b \in (Binaries \cup {None}) \ {installed[h]} :
                installed' = [installed EXCEPT ![h] = b]
          /\ UNCHANGED <<hub, tools>>
       \/ tools' \in Toolchains \ {tools} /\ UNCHANGED <<hub, installed>>
    /\ UNCHANGED <<bound, main, watch, stopping, memory, cache, pass, runs, faults>>

Reconcile ==
    \/ \E h \in Harnesses : StopUnwanted(h) \/ Ensure(h)
    \/ StopWaited \/ Keep \/ Replace \/ StartSupervisor \/ Publish

Leaving == StopAll \/ (\E h \in Harnesses : StopChild(h)) \/ RunReturns \/ AgentExits

Next ==
    \/ \E h \in Harnesses : Launch(h) \/ Exit(h) \/ Drained(h) \/ EnsureFails(h)
    \/ \E w \in {"main", "watch"} : Begin(w)
    \/ Reconcile \/ ReclaimFails \/ Boot \/ Tick \/ Observe \/ WriteCache
    \/ Shutdown \/ Leaving \/ Crash \/ Edit

Spec == Init /\ [][Next]_vars

\* The operating system runs the processes, the ticker ticks, the informer
\* delivers, a mutex that is free again and again is taken, and the service
\* manager restarts the agent.
FairSpec ==
    /\ Spec
    /\ \A h \in Harnesses : WF_vars(Launch(h)) /\ WF_vars(Drained(h))
    /\ \A w \in {"main", "watch"} : SF_vars(Begin(w))
    /\ WF_vars(Reconcile) /\ WF_vars(Tick) /\ WF_vars(Observe) /\ WF_vars(WriteCache)
    /\ WF_vars(Leaving) /\ WF_vars(Boot)

-----------------------------------------------------------------------------
Lims == {s.lim : s \in Settings} \cup {Default, None}
Commands == [lim : Lims, bin : Binaries \cup {None}, tools : Toolchains \cup {None}]

\* The types, and what the holder of reconcileMu says of the two goroutines.
PlaneTypeOK ==
    /\ main \in {"down", "wait", "pass", "idle", "stopall", "done"}
    /\ watch \in {"off", "idle", "cache", "wait", "pass"}
    /\ (pass.by = "main") = (main = "pass") /\ (pass.by = "watch") = (watch = "pass")
    /\ \A h \in Harnesses :
          /\ sup[h] \in Commands /\ loop[h] \in Commands /\ stray[h] \subseteq Commands
          /\ runs[h].cmd \in Commands
          /\ runs[h].of \in {"none", "loop", "drain", "stray", "orphan", "kept"}
    /\ set.on \subseteq Harnesses /\ enabled \subseteq Harnesses /\ kids \subseteq Harnesses

\* An advertised harness that has a supervisor does not share its machine with
\* the runner a previous agent left behind, which holds the state lock with its
\* own build and command: unless the reclaim failed, and then it is "kept" until
\* it exits or the harness is switched off (Services, ensureSupervisor).
AdvertisedIsOurs ==
    \A h \in enabled : sup[h] # NoCmd => runs[h].of # "orphan"

\* A reconcile does not bounce a working runner: whenever a pass stops a process,
\* the setting it works on drops the harness, or the process was started with
\* other limits, from another executable, or with other toolchains than the pass
\* has found (ensureSupervisor).
WorkingRunnerIsLeftAlone ==
    [][\A h \in Harnesses :
          runs[h].of = "loop" /\ runs'[h].of = "drain" /\ main # "stopall" =>
              \/ h \notin Wanted(pass)
              \/ h \in Limited /\ runs[h].cmd.lim # pass.set.lim
              \/ runs[h].cmd.bin # pass.det[h]
              \/ runs[h].cmd.tools # pass.tools]_vars

Serves(h) ==
    runs[h] = [cmd |-> Command(h, hub.lim, installed[h], tools), of |-> "loop"]

\* When the hub, the machine and the agent have settled, every harness that is
\* enabled and installed is served by this agent's runner with the limits of the
\* hub and what is installed now, over crashes of the agent and of the runner, and
\* over orphans - or an orphan that could not be reclaimed is in its place (Run,
\* Reconcile).
WantedIsServed ==
    <>[](\A h \in hub.on \cap Found(installed) : Serves(h) \/ runs[h].of = "kept")

\* ... and where a child dies with its agent, nothing else is served.
UnwantedIsStopped ==
    bound => <>[](\A h \in Harnesses \ (hub.on \cap Found(installed)) : runs[h] = NoRun)

\* The plane converges to what the edge asks for, and to nothing else.
Converges == WantedIsServed /\ UnwantedIsStopped

=============================================================================
