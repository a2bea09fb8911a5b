# Verification of railgrid

This directory holds TLA+ models of the parts of railgrid that keep state across
processes and failures, the TLC configurations that check them on small instances,
and proofs that TLAPS checks for instances of any size. Paths below are relative to
the repository; `PROJECT.json` maps every definition to the lines it models.

## The system and its parts

railgrid connects machines to a hub and runs coding harnesses on them. Five parts
carry its own control logic over durable state and are modelled; together they are
the path of a piece of work, from the queue of the agents provider to the harness
child on somebody's machine.

| Part | State | Operations | Interacts with |
|---|---|---|---|
| Attempt engine (`pkg/runner/runner.go`, `cancel_unseen.go`, `store.go`) | attempts, operations, reservations (durable); executions, credentials, shutdown marks (memory) | Start, Cancel, Resume, event callback, end of execution, recovery, Close | journal, adapter callbacks, permission gate, cleanup, retention |
| Permission round-trip, Git export, cleanup hooks, retention (`permission.go`, `git_result.go`, `cleanup.go`, `retention.go`) | gate and work clock; per-attempt hook state | ask, park, answer, abandon; export and commit; schedule and retry; purge | engine |
| Event journal and stream (`event_journal.go`, `http.go`) | one append-only file per attempt, offset in the state | append, sync, replay, prune; one stream per consumer | engine, follower |
| Warm environments (`environment.go`) | leases of prepared checkouts | prepare, transfer, release, evict, expire, recover | Start, cleanup, retention |
| Harness plane of the agent (`pkg/agent/harnessplane`, `pkg/agent/runner/supervisor`) | setting, children, supervisors, cache file | observe, reconcile, supervise, reclaim, shut down | hub's edge object, runner processes |
| Dispatch follower and harness turn (`pkg/runner/dispatch`, `providers/agents/backend/harness`, `providers/agents/api`) | cursor and transcript (memory), checkpoint and totals (row), account | start, follow, re-join, park, answer, bill, record, recover | runner's HTTP API, provider store |
| Run queue of the agents provider (`providers/agents/controller/run`, `providers/agents/api`) | row in the store, Run object, claims, live turns | submit, claim, dispatch, hand back, wake, approve, cancel, recover, stop overdue, project | Kubernetes API, harness turn |
| Shared store of the hub (`pkg/hub/sharedstore`, `appauth`, `actionproof`, `pkg/browsersession`) | one Secret per record | put, get, take, create if absent, delete, sweep | Kubernetes API, login handlers |

How they meet: the provider's reconciler claims a run and executes its turn in its own
process; the turn starts an attempt on a runner and follows its events; the runner
journals what its child says and parks on questions; the agent keeps the runner alive;
people who approve, cancel and log in come through the hub, on any replica.

What is hard in it: handlers write memory first and disk second, and may fail in between;
goroutines outlive their handler (adapter run, Git export, permission call, hooks,
fingerprints) and meet the next ones in any order; every request is retried by somebody;
two records of one fact (row and object, row and account, receipt and event, lease and
attempt) are written one after the other; any process may die between any two writes; and
clocks decide about expiry, grace and deadlines. `PROJECT.json` lists the places where this
matters most as hazards, each at its line, with the property that is about it.

What makes the parts correct:

- engine: at most one child; nothing runs that is not on disk; a request is answered
  only when its effect is durable and takes effect once; a terminal receipt is final; a
  cancel fences, is remembered, reaches the adapter and completes; Close returns;
- permissions: a request on the receipt is live; the duration limit bounds work and not
  waiting;
- retention and resources: nothing executing or owed is dropped, nothing left names a
  dropped attempt, no resource is promised twice;
- journal: the committed part is an append-only log; replay from any cursor gives every
  event once, in order; a consumer's stream is that history;
- warm environments: a checkout has one writer, is reused only as it was released, never
  after its stack was torn down, and no stack is left running without somebody who will
  clean it up;
- harness plane: what the hub wants runs and nothing else, without bouncing what works,
  and nothing of an earlier agent answers under this one's name;
- harness turn: the reported transcript is complete, a checkpoint is one cut of it, what
  is charged is what is recorded, an answer reaches its question, the run settles;
- run queue: a run is started once, cannot kill replicas for ever, and settles;
- shared store: a record is granted once, a live one is never reaped, a proof is claimed
  once, what expired goes.

## Modules

- `RunnerAttempts` - attempt engine with store, permission round-trip, cleanup hooks,
  retention and the commit of a Git export; `RunnerAttempts_proofs` its type correctness,
  `RunnerAttempts_safety` the inductive invariants and the safety theorems.
- `EventJournal` - journals, the handlers that append to them, the state file that commits
  their offsets, and the event stream; `EventLog` what the journal promises, as a
  specification it implements.
- `WarmEnvironment` - leases of warm checkouts.
- `HarnessPlane` - the agent's manager, its supervisors and the runner processes.
- `HarnessTurn` - one run of the provider composed with one attempt of a runner: follower,
  billing, parks, answers, recovery.
- `AgentRuns` - the provider's durable queue over several replicas.
- `HubStore` - the shared store with the handlers on it; `OneTimeStore` what it promises, as
  a specification it implements.
- `EventJournal_proofs`, `HubStore_proofs`, `HarnessPlane_proofs`, `HarnessTurn_proofs`,
  `WarmEnvironment_proofs`, `AgentRuns_proofs` - what is proved of each, see Proofs.
- `MC...` - instances for TLC.

The modules are joined by what they assume of each other: `EventJournal` opens the append
that is one step in `RunnerAttempts`; `WarmEnvironment` opens the Start that has one checkout
there; `HarnessTurn` has of the runner what `StreamIsHistory` and the receipts promise a
consumer; `AgentRuns` has of a turn that it ends, parks, is handed back or dies.

### RunnerAttempts and the code

| Variable | Code |
|---|---|
| `att`, `ops` | `Runner.state.Attempts`, `.Operations`; a reservation is the flag `"holds"` of its attempt |
| `dAtt`, `dOps` | the same in `state.json` |
| `exec` | `Runner.running`: `"run"` while `Adapter.Run` is out, `"export"` while the Git export runs without the mutex |
| `ctxDone` | executions whose context is cancelled |
| `gate`, `clock` | `Runner.permissions` and the gate's `workClock` |
| `asker` | the `AskPermission` call of the adapter, one per request |
| `creds`, `shutdown`, `hooks` | `Runner.credentials`, `.shutdown`, `attemptRecord.cleanupRunning` |
| `proc` | the process: up, in `Close`, down |
| `acked`, `spent` | observers, no code: the operations that were answered without an error, and those that launched a turn |

One action is one critical section of `Runner.mu`: `StartAccept` and
`StartRelaunch` are `Start`; `CancelUnseen`, `CancelFinished` and `Cancel` are
`Cancel`; `Resume` and `ResumePermission` are `Resume`; `Replay` is the answer
to a repeated request; `HarnessEvent` and `HarnessEventFails` are the adapter's
callback; `ExecEnd`, `ExportEnd` and `ExportCommit` are `execute` after the
adapter and after the export; `ParkOnPermission` ... `AbandonPermission` are the
permission call; `HookEnds` the cleanup goroutine; `Sweep`, `Close`,
`CloseDone`, `Crash` and `Restart` the process. `Finish` is `finishLocked` with
the `scheduleCleanupLocked` it ends in. A request that is refused changes
nothing and is no action.

Failing writes: a handler with the writes *append, save, second save* picks the
first one that fails (`Ends`), among those that the constant `Faults` allows,
and keeps what the code has changed in memory up to there. `stateStore.save`
replaces the file by rename; with `"landed"` in `Faults` an error may also come
after the rename, so that the caller sees a failure and the disk has the image.

What is abstracted: the content of requests (a fingerprint conflict is a
refusal), clarifications (a resume must name the one on the receipt), artifacts
and event contents, blocker texts, and times: the retention window of an attempt
elapses when `Age` says so, the working budget when `ClockExpires` does. Which
attempts are the oldest is left open, so retention may take any that its rule
allows. The warm-environment path
of Start is in `WarmEnvironment`.

`harness/` is not modelled: an adapter may emit any event at any time while it
runs, return any result, and raise permission calls that overlap with the
abandonment of earlier ones (each call is an HTTP handler of its own, which
ends with its request's context).

### EventJournal and the code

The engine's module treats an append as one step that succeeds or fails; this one
opens it. It shares no state with `RunnerAttempts`: which handler may run when is
reduced to the attempt's phase and whether it executes, so it has every sequence
of appends and saves the engine has, and more.

| Variable | Code |
|---|---|
| `j[a]` | `EventJournalBytes` (`off`), `state.Events` (`cache`), the open writer (`wend`, `dirty`), `eventIndex`, `journalSizes`, and of the receipt the phase and whether there is an error |
| `fs[a]` | the journal file: records, how many of them are synced, whether it still has its name |
| `disk[a]` | the same attempt in `state.json` |
| `at`, `held` | where the holder of `Runner.mu` is, with which attempt, and the cache `finishGitResultLocked` may restore |
| `con` | one `serveEvents` call and its consumer: replay position, cached events, channel, cursor |
| `mode` | the failures a behaviour may have, fixed by `Init` |
| `due`, `born`, `lost` | attempts retention has taken; identity of the next event; observer: events a crash took back |

A handler is several steps here (`HarnessEvent`, `Persist`, `FailHarnessEvent`
...), because the stream reads between its writes and the process may die between
them. `AppendResults` is `appendEvent` with everything it can leave behind: limits,
reopening with truncation, a torn write, an open that fails. `Crash` keeps the
synced part of every file and any part of the rest. `Recover` and `StartSave` are
`runner.New`, which gives up when a write fails. Sizes and offsets count records:
an event is one record and a torn write leaves one unreadable record, so that
positions inside a record do not exist. An attempt that was dropped is not accepted
again under the same identity.

### WarmEnvironment and the code

| Variable | Code |
|---|---|
| `att` | `state.Attempts`: life, checkout, `CleanupDelegated`, `CleanupDone`, `CleanupAttempts`, `cleanupRunning` |
| `env`, `disk` | `state.Environments`; both as `state.json` has them |
| `verify` | `environmentFingerprint` calls in progress (`env.checking`), by a start or by a release |
| `exec` | `execute`: prepare hook, harness, failed prepare |
| `tree` | what a checkout contains; two contents tell changed from unchanged |
| `pending` | attempts whose cleanup `runner.New` has yet to schedule |
| `stack`, `used`, `prepared` | observers: what hooks have done to each stack |

`StartMakesRoom`, `StartCreates`, `StartEvicts` and `StartVerifies` are
`prepareEnvironmentLocked` up to its first return or to the release of the mutex;
`StartRefused`, `StartFindsChange` and `StartTransfers` are what follows the fingerprint, with
the rest of `Start` (`Accept`). `ExecEnds` and `Cancel` end in `scheduleCleanupLocked`
(`Schedule`), which hashes and releases (`Release`, `ReleaseFails`) or starts the hook
(`HookEnds`). `Sweep` is one tick of `startEnvironmentExpiry`, `Drop` retention, `Crash` and
`Boot` a death and `runner.New`. All saves of one handler fail together. A checkout is not
edited by others in the seconds in which it is hashed (`OutsideEdit`).

### HarnessPlane and the code

`set`, `seen`, `enabled`, `kids` are the `Manager`'s fields, `pass` the holder of `reconcileMu`
with what it has read, `sup` and `loop` a child's supervisor and its running loop, `runs` the
process that holds the runner's state lock (of this loop, draining, an orphan, or an orphan whose
reclaim failed and that is therefore `kept`), `cache` the cache file. `Begin`...`Publish` are
`Reconcile` with `ensureSupervisor`; `Boot`, `Tick`, `StopAll`...`AgentExits` are `Run`; `Observe` and
`WriteCache` the informer's handler. A `Command` is what `ensureSupervisor` hashes, as far as it can
change while an agent lives: the executable that detection found (`installed`, read when the pass
begins), the toolchains `detectToolchains` reports for the enrollment (`tools`, read when the child is
ensured), and the limits of the setting, for the harnesses whose command line has them (`Limited`:
claude and not codex). Paths, port and runner ID are the same for every command of a child. `Edit`
is the edge's `spec.harness` and the machine's executables and toolchains changing. `Replace`
reclaims the lock before the first supervisor of a harness; `ReclaimFails` is a holder that cannot
be read or ended, after which the new supervisor is started all the same. `bound` says whether
children die with the agent (Linux) or not (macOS). StopAll does not take `reconcileMu`, here as in
the code. The setting is a list of harnesses (mode explicit).

### HarnessTurn and the code

`log`, `rphase` and `gone` are the runner as its API shows it: events, phase (with the moment
in which subscribers have seen the last event and the receipt has not changed), and events
it no longer holds. `row` is the run in the store (phase, checkpoint, totals, cancel flag,
recoveries), `meter` the agent's account, `t` the turn in the provider's process.
`Open`, `Drain`, `Quiet`, `DrainFails`, `Inspect`, `Reconcile` are `followStream`; `Start`,
`Rejoin`, `Asked`, `Answer` are `Turn` and `Continue` of the harness backend; `Bill`, `Record`,
`ParkFails`, `FinishLost` are `runTurn` after the backend returned; `Crash`, `Recover`, `Approve`,
`RequestCancel` the process, `recoverRun` and people. The normalizer is the sequence of cursors
it consumed, of which text, tools and usage are functions. A failed read that may pass and one
that may not are both possible at every read.

### AgentRuns and the code

`row` is the run in the provider store, `obj` the status of its Run object, `proj` a save whose
projection is still to be written, `rec` the reconcile worker, `exec` and `ctx` the turns on each
replica and the context of the registered one, `user` a cancel being served, `sub` the
submission. `leader` holds the lease: `Elect` takes it, `Dies` ends the process, and `Loses` ends the
term of one that lives on (`leaderelection.go:113`): its turns, saves and claims stay as they are, because
jobs run on the provider's context (`controller_manager.go:78`, `:116`), its reconcile in progress goes
on until its context fails a call (`Quits`), and it may be elected again. `overtaken` records that two
turns may go on: a run was recovered alive, a claim grew old before its process wrote Running
(`GracePasses`), or a hand-back was written over. `Claim`, `Dispatch`, `HandBack` are `claimAndDispatch`; `Abandon`, `Overdue`, `Stamp`,
`Clear` the other branches of `Reconcile`; `Recover` is `RecoverRun`; `Starts`...`Resumes` a turn in
`background.handle` and `runTurn`; `Project` is `writeRunObject`. Times are marks: a claim is fresh
or old, a retry later or due, a start young or old. Assumed of them: a projection (10 s) and a
submission are over before a retry (30 s at least), a claim's grace (2 min) or a limit passes; and,
with `SlowStarts = FALSE`, a claim whose owner is alive and still has the run before Running does not
outlive the grace, which is what the comment of `ClaimGrace` requires ("must exceed the time from
claim to the run turning Running, or a healthy claim looks abandoned and the run is executed
twice", `controller.go:90`). It is not assumed that such an owner still leads. `SlowStarts`, `KeepsName`
and `LateWakes` drop one such assumption each; see Known divergences.

### HubStore and the code

`api` is the Secret under each key (resource version, which stands for UID and value, and
expiry), `req` the call each handler or sweeper is in, `now` true time, `Ahead` how far the clock of
a replica runs ahead. A step is one call of the Kubernetes API (external), which is answered,
fails, or is applied and its answer lost (`Fails`). `Mint`, `Issue`, `Resolve`, `Logout`, `Exchange`,
`IdentityExchange`, `Verify` begin the requests; `Get`/`Reap`, `TakeReads`/`TakeDeletes`/`Answer`,
`Create`/`Update`, `Delete` and `Sweep`... are the store's operations. No operation touches two
collections, so each behaviour is about one of them. The model assumes, as `ProofUsedOnce` needs,
that a request is not held up between `Verify` and its claim for longer than the allowed skew less
the difference of the clocks.

## Runs

All passing runs are exhaustive, and deadlock is checked. Every action and every
alternative of an action fires in some passing run. Where a property is the conjunction
of several that belong together, its parts follow in parentheses.

| Run | Instance | States | Shows |
|---|---|---|---|
| `engine_faults` | 1 limited attempt, 2 permission calls, failing appends and saves (landed or not), crashes | 309 k | `EngineInv` (with `RunningIsLive` and `LaunchIsDurable`), `PermissionIsLive`, `ClockStopsWhileParked` |
| `engine_requests` | 2 successive attempts of one task sharing a resource, windows, cap 1, crashes | 170 k | `TypeOK`, `AckedIsRemembered` (`AckedIsDurable`, `AckedResumeRan`, `CancelIsRemembered`), `HoldingsAreOwed` (`CredentialNotIdle`, `ResourceNotOvercommitted`, `NothingOrphaned`), `OneTurnPerOperation`, `CancelFences`, `DurableTerminalIsFinal` |
| `engine_cancel` | 2 tasks, one attempt with export, one with a duration limit, orderly restarts, fairness | 74 k | `OneChild`, `CancelIsFinal`, `StopsComplete` (`CancelCompletes`, `CloseCompletes`) |
| `journal` | 2 attempts, 1 stream, failing removals and landed saves, with failing writes and retention or with failing saves, crashes | 1398 k | `JournalTypeOK`, `ReplayComplete`, `StreamIsHistory`, `FilesFitState` (`UsageIsExact`, `Restartable`), `LogSpec` (refinement of `EventLog`) |
| `warm` | 3 attempts, 2 environments, 1 failing write or crash, any failing hooks, hashes and resets, 2 hook runs, fairness | 241 k | `WarmTypeOK`, `SomebodyAnswers` (`LeaseHasOwner`, `NoStackAbandoned`), `ExclusiveCheckout`, `HarnessFindsStack` (`TornIsNeverReused`, `PreparedBeforeHarness`), `ReuseIsAsReleased`, `IdleEnds` |
| `turn` | up to 4 events, 1 failed read per outage, 1 recovery, 2 deaths, 1 discarded event, fairness | 624 k | `TurnTypeOK`, `HistoryIsWhole` (`TranscriptIsComplete`, `SavedIsOneCut`), `ChargedAsRecorded`, `AnswerFitsQuestion`, `RunSettles` |
| `plane` | 2 harnesses (1 with limits), 2 executables, 2 sets of toolchains, 3 settings, both platforms, 1 change, 2 faults, fairness | 497 k | `PlaneTypeOK`, `AdvertisedIsOurs`, `WorkingRunnerIsLeftAlone`, `Converges` (`WantedIsServed`, `UnwantedIsStopped`) |
| `hub` | 2 handlers, 1 sweeper one tick ahead, 1 key, 2 writes, 1 failing call, clock to 2, fairness | 200 k | `HubTypeOK`, `ProofUsedOnce`, `GrantedOnce` (refinement of `OneTimeStore`), `ExpiryIsExact` (`LiveIsNeverReaped`, `ExpiredIsReclaimed`) |
| `runs` | 2 replicas, 1 turn each, one of them can lose the lease, 2 claims, 2 attempts, 1 recovery, any deaths, fairness | 681 k | `RunTypeOK`, `KillsAreBounded`, `StartedOnce`, `QueuedRunSettles` |

Why the bounds are enough for the cases that matter. Engine: two attempts give every
conflict between attempts the code has (capacity 1, one resource, the epoch rule, a cap of 1);
one request ID per attempt and kind lets a request be sent, repeated and followed by another
kind. Journal: cache and channel of length 1 and an index entry for every second cursor, so
that three events evict, overflow and use the index; limits of 3 records (4 in total) with a
reserve of 2; `MaxBorn` stops new handlers, crashes and failing starts, never a handler that has
begun. Warm: three attempts let a lease be taken over and the taker be replaced, two
environments let one displace the other; two hook runs let a hook fail, be retried and run out.
Turn: four events hold work, a checkpoint, a park and an end; two deaths let a recovered turn
die. Plane: a crash and one more fault (a failing reclaim after it) around one change of edge or
machine; the safety properties were also checked once with 2 changes and 3 faults (8.8 M states). Hub: one key written twice is what a
replaced record needs, two handlers and a sweeper race for it. Runs: with two replicas one
leads and the other serves people, may lose the lease with a turn of the run going, and take it
again; a claim and its repetition reach `MaxClaims`. The invariants and `StartedOnce` were also checked
once with `SlowStarts = TRUE` and both replicas losing leases (4.5 M states), and
`QueuedRunSettles` with `SlowStarts = TRUE` (1.3 M).

What limits a property:

- `AckedIsDurable` and `AckedResumeRan` are checked and proved without failing writes,
  `DurableTerminalIsFinal` without landed saves (proved without failing ones), `ReplayComplete`
  without a failing export commit. `CredentialNotIdle` and `PermissionIsLive` except an attempt
  whose Git result was committed: see below.
- `StartedOnce` excepts a run that was `overtaken`: recovered while a turn of it was alive (after an
  approval, or after its leader lost the lease; with three or more attempts it leads on to a second
  dispatch), claimed again while the turn of a claim that grew old is still queued or prepared, or
  handed back before the first status of its submission arrived, which then takes the wake-up from
  the object.
- `KillsAreBounded` has two bounds. Each claim that starts anew sets the recoveries back to 0, so
  that a run whose claims all start, two of them at once in two living processes, may take `MaxClaims * (1 + MaxRecovery)` processes per attempt; unless the run was overtaken, it is
  `MaxClaims + MaxRecovery`.
- `WantedIsServed` and `AdvertisedIsOurs` except an orphan whose reclaim was tried and failed, and
  `WorkingRunnerIsLeftAlone` allows a pass to bounce a runner whose executable or toolchains changed,
  although its setting did not.
- `AnswerFitsQuestion` tells parks apart by their place in the journal, the code by their IDs: two
  questions without an ID are one park to `answerTargetsDifferentPark`. Both adapters give IDs;
  claude's is a hash of the question's words, so that a question asked again is the same.
- `StreamIsHistory`: `Connect` is one step from the subscription to the opened journal, while
  `http.go:196` unlocks before `replayEvents` looks the file up; what interleaves there is not checked.
- `CancelIsFinal` and `CancelCompletes` hold while the process is not killed: recovery turns a
  cancelling attempt into a resumable one, as `docs/local-runner.md` says; what survives a kill is
  `CancelIsRemembered`. A needs-input event takes a cancelled attempt out of `cancelling`, which
  is why `CancelIsFinal` speaks of the outcome and not of the phase on the way.
- A behaviour of `journal` has saves that fail without landing, or failing journal writes and
  retention, and not both (`Apart` in `EventJournal_proofs`), because `Restartable` needs it: a failed
  write closes a writer with unsynced records and a save that then succeeds commits them; and
  retention beside a save that failed removes a journal whose attempt is still live on disk. Either
  way `runner.New` can find a journal shorter than its committed prefix and gives up. Type,
  accounting and quota are proved with any combination.
- `LeaseHasOwner` is checked without failing staged inputs, `UnwantedIsStopped` only where
  children die with the agent, `StartedOnce` without late wake-ups, `QueuedRunSettles` with
  replicas that change their name: see below.

Runs that TLC must find violated; each is a finding in `PROJECT.json`, with the line of the
code and the sentence it disagrees with:

| Run | Property | What happens |
|---|---|---|
| `viol_charged_twice` | `NeverChargedTwice` | the provider dies between the account and the row; the recovered turn charges the same usage again |
| `viol_recovered_alive` | `OnlyTheDeadAreRecovered` | a run approved on a replica that does not lead is taken for stranded and executed a second time |
| `viol_resume_expired` | `ResumeIsMeasuredAfresh` | a run that waited for a person past its limit is stopped when it goes on |

### Known divergences

Sequences found while modelling, in which the code does something else than it says. The main
ones are hazards in `PROJECT.json`; the passing runs leave out the fault or choice that leads to them.

- `runner.go:1204`: an event handled after the park makes a parked attempt running again; the
  verdict is then refused as busy (`permission.go:32` "the attempt is needs_input").
- `permission.go:269`: the abandonment of an earlier call closes the gate of the later one,
  whose request stays on the receipt and can no longer be answered.
- `runner.go:557`, `:688`: a cancel or resume whose save failed is recorded in memory, and its
  retry is acknowledged although nothing was saved, cancelled or launched
  (`docs/local-runner.md:670` "A persistence failure never acknowledges cancellation").
- `git_result.go:95`, `:102`: a completed export keeps its credential and a permission request that
  was on its receipt, and the rollback of one leaves its events in the journal, where replay gives them in place of the failure.
- `runner.go:444`: staged inputs that cannot be consumed leave a transferred lease without an
  owner (`LeaseHasOwner` fails with `"inputs"` in `Faults`).
- `controller_manager.go:245`: under `POD_NAME` a container that restarts in its pod finds its own
  claim and never takes it over (`QueuedRunSettles` fails with `KeepsName = TRUE`).
- `runprojection.go:354`: a wake-up projected after the claim for it puts `RetryAt` back, and the run
  is dispatched twice (`StartedOnce` fails with `LateWakes = TRUE`).
- `runprojection.go:117`: a submission whose status write failed deletes the row and leaves the object,
  which nothing can settle (`background.go:903` says the controller does).
- `controller/run/controller.go:234`: a hand-back at the last permitted claim is abandoned, although
  line 371 says "the series starts over".
- `controller.go:93`, `leaderelection.go:113`: a leader that loses the lease and lives on keeps a claimed,
  queued or prepared turn. If it takes longer than `ClaimGrace` from the claim to Running, the next
  leader takes the claim over and the run is executed twice; once it is Running and the grace is over,
  the next leader takes it for stranded and recovers it beside the living turn, as in
  `viol_recovered_alive`.
- `controller.go:423`: a claim that was taken over from a living turn and whose dispatch is refused is
  handed back without an owner; the turn then writes Running on it, and if its process dies nothing
  recovers the run, because a run without an owner is not stranded. Only its deadline ends it.
- `child.go:334`: a reclaim that fails is logged and not repeated, so that the new child finds its
  state lock held for as long as the orphan lives and the harness stays switched on.
- `manager.go:359`, `:620`: an orphan of a harness that is no longer wanted is not reclaimed, and a
  pass under way can start a runner behind StopAll.

### Fairness

Each `FairSpec` assumes what the scheduler, timeouts and tickers of the code give, and nothing
of people or of the outside world.

- `engine_cancel`: an adapter whose context is cancelled returns (adapters kill their child), an
  export and a hook end (both have timeouts), `Close` returns when nothing is left to wait for.
- `warm`: fingerprints and hooks end (time limits), handlers that wait for the mutex get it, time
  passes and the sweep ticks. Harnesses may run for ever.
- `turn`: the attempt goes on until it parks or ends, the provider's goroutines run, the controller
  recovers stranded runs. Parks may never be answered.
- `plane`: the operating system starts and ends processes, the ticker ticks, the informer delivers,
  the service manager restarts the agent; `SF` for `reconcileMu`, which two goroutines take in turn.
- `hub`: API calls return, time passes, the leader's sweep ticks.
- `runs`: time passes, the submission ends, somebody is elected, replicas are replaced again and again;
  `SF` for the reconciler, whose steps are interrupted by those deaths and by lost leases and requeued. Turns, approvals
  and cancels may never happen, and a remote stop may fail any number of times but not for ever.

Every property has a mutant in `PROJECT.json`: a plausible wrong version of one definition (the
operators marked *Variant* or described as such beside it) under which TLC finds it violated.

## Proofs

TLAPS checks every theorem for every value of the constants that satisfies the `ASSUME` of its
module, which TLC evaluates in every run. Each proof has the same form: an inductive invariant,
one lemma per action or group of actions that it is kept, and the property as a consequence.
Where a theorem has a hypothesis about failures, the property is false without it; the sequence
is under Known divergences or in "What limits a property".

**Attempt engine** (`RunnerAttempts_proofs`, `RunnerAttempts_safety`). For any attempts, tasks,
epochs, requests and permission calls, any capacity and cap, any failing writes and crashes:

- `TypeCorrect`: `TypeOK`. `ClockStandsWhileParked`: inductive by itself, since park, failed park,
  verdict, abandonment and expiry move gate and clock together.
- `EngineSafe`: `EngineInv`. `OneChild` is not inductive: a retried start launches an attempt
  that was *accepted*, so the invariant says that an accepted attempt and a running child never
  belong to two attempts (`OneOccupant`); that capacity is free only without an occupant needs
  gate and phase of a running attempt (`RunningIsLive`); nothing executes in a process that is
  down (`DownIsEmpty`); and a launch from memory is durable only because every live attempt has
  its start operation beside it in both images (`LiveIsStarted`). A step touches one attempt
  (`LocalStep`) or drops attempts that do not execute, and `SaveCovers` says what the disk may
  hold afterwards, whether the save succeeded, failed or landed. `AtMostOneChild`,
  `LaunchesAreDurable`, `RunningStaysLive` follow.
- `HoldInvariant`: what attempts hold. The same predicate, `ImageOK`, holds of memory and disk
  (phase, operations, reservation and cancel mark of an attempt fit together, and the reserved
  resources fit the capacity), because a crash replaces the one by the other; `Own` relates an
  attempt to its credential, hook, shutdown mark and permission. `PermissionStaysLive`,
  `HoldingsStayOwed` and `CancelOnDiskIsRemembered` follow.

With `Faults = {}`, that is while every write succeeds, crashes still allowed:

- `SettledInvariant`: between two steps memory and disk agree, an attempt is accepted only during
  its export, and what was acknowledged or launched is among the operations on disk. From it
  `OneTurnPerRequest`, `CancelKeepsFencing`, `TerminalStaysFinal`, `AnswersAreDurable`; and
  `AnswersAreRemembered` without permission calls and exports (a resume that carries a verdict,
  or that meets an export, launches no turn).
- `CancelStaysFinal`: moreover `Crashes = FALSE`. `Doomed` says that a cancelled attempt whose
  adapter is gone is over, or that every way its execution can end makes it so.

**Event journal** (`EventJournal_proofs`). For any attempts, events and limits:

- `JournalInvariant`, with any combination of failures: a writer stands at the offset, which is the
  end of its file; what is accounted to a journal is the size of its file, and the sum is within
  the total limit and its reserve; a reader is within its file. `JournalTypeCorrect` and
  `UsageStaysExact` follow. The lemmas before it say what each outcome of an append leaves
  (`Refused` to `Written`) and count records (`CellsSplit`).
- `HistoryKept`: `HistInv`. Of memory (`MemOK`): the journal up to the offset has consecutive cursors,
  the cache is its end, the index points into it, and what is not synced is marked dirty. Of
  memory and disk (`LinkOK`): the disk's offset is at most the memory's. Of disk and file
  (`DiskOK`): the committed prefix is in the file, in order and synced, because a crash makes the
  disk's image the memory's. Where in a handler nothing is left unsynced, and what of an attempt
  is over on disk as well, is `Settled`: retention may remove only those. An attempt that
  retention has taken (`due`) may come back from the state file after a crash before the save, until the
  purge of the next start takes it again. `FilesAlwaysFit`, `ReplayIsComplete` and
  `CommittedIsLog` (the refinement of `EventLog`, by `CommittedStep`: each step keeps, extends
  or removes the committed prefix of each attempt) follow.
- `StreamStaysHistory`: `StreamInv`. A connection has a place in the history: a replay stands in
  its file behind the consumer's cursor, what came from the cache or waits in the channel goes on
  from it without a gap, and all of it is in the journal. What was delivered is in the journal
  (while the runner is down: in the committed prefix) or in `lost`, the events a crash took back
  before their offset was saved. `StreamIsHistory` follows; its steps rest on `HistInv`.

`HistoryKept` and what follows from it have the hypothesis `ModesApart`, which the run's modes satisfy
and which excludes three combinations under which they are false: failing writes or retention
beside a save that fails without landing ("What limits a property"), and a failing export, whose
rollback restores a cache that is not the end of its journal (`git_result.go:102`).

**Shared store** (`HubStore_proofs`). For any handlers, sweepers, keys, writes and failing calls,
and clocks within the skew of `HubAssumption`: `HubInvariant`, of which the difficult parts are that
what a caller has read was the current version when it read it (`RequestsOK`), that a claim lives
as long as its proof can be verified on any clock (`ClaimsOK`), and that a taken version is in
nobody else's hands (`TakenOK`). From it `HubTypeCorrect`, `ProofIsUsedOnce`, `ReapedHasExpired`,
and `StoreIsOneTime`, the refinement of `OneTimeStore` step by step.

**Harness plane** (`HarnessPlane_proofs`). For any harnesses, executables, toolchains, settings,
platforms and faults, failing reclaims among them: `PlaneInvariant` (the holder of `reconcileMu` and its
decision, loops against supervisors and processes, and what only `StopAll` can change between the
comparison of a hash and the new supervisor: the toolchains of the pass, and that the old
supervisor has another command), `PlaneTypeCorrect`, `AdvertisedRunnerIsOurs`, `WorkingRunnerIsKept`.
The last needs that a process runs the command of its supervisor, and that a command without
limits has none to differ in (`LoopsOK`).

**Harness turn** (`HarnessTurn_proofs`). For any number of events, outages, recoveries and deaths:
`TurnInvariant` (turn and row each describe one cut of the attempt, the last event is that of the
runner's phase, the account is what the row says or is about to say), `TurnTypeCorrect`,
`HistoryIsKept`, `RunIsChargedAsRecorded`, `AnswersFitQuestions`.

**Warm environments** (`WarmEnvironment_proofs`). For any attempts, environments, hook runs, faults
and crashes: `WarmInvariant`, again one predicate, `Sound`, of memory and of `state.json` against
what the hooks have done to the stacks; `WarmTypeCorrect`, `CheckoutIsExclusive`,
`HarnessFindsItsStack`. With staged inputs that can be consumed (`"inputs" \notin Faults`) also
`StacksAreAnsweredFor` and `ReusedAsReleased`: both images name the holder of every stack that is
not clean.

**Run queue** (`AgentRuns_proofs`). For any replicas, turns, limits, lost leases, graces
(`SlowStarts`) and either kind of names `RunTypeCorrect`; and for `LateWakes = FALSE`:

- `RunStartsOnce` and `OnlyOwnerHasRun`: `StartInv`, which is said of a run that was not `overtaken`. One
  pair of hands has a run: the claim of whoever has it from the queue is on the object until the
  turn reports, also when that process lost the lease (`ClaimHeld`, `QueuedOnce`); the object leaves the
  queue before the turn goes on (`OffTheQueue`), a turn that waits for a verdict is alone
  (`ParkedAlone`), and after a hand-back nothing has the run until its wake-up (`Waits`). So a claim that
  is taken over, redelivered or woken finds no turn at work (`ClaimedAlone`): a claim is taken over
  when it is old, and it grows old with a process still before Running only by overtaking the run.
- `RunKillsAreBounded`: its unconditional half, by `AccountOK`. `Weight` (the dead, and what every claim
  in progress, turn and possible recovery may still cost) is at most `Account`: one process and
  `MaxRecovery` recoveries for each claim that the counters in row and object record. Two turns at once
  are turns that two claims have paid for. Its other half, of runs that were not overtaken, by
  `KillInv`: `Spent` (the dead, one more if the run is in somebody's hands, and what a wake-up or a new
  start provides anew) is at most `Allowed`, which is read off the counters.

What the proofs found in the models. `WorkingRunnerIsLeftAlone` failed beyond the bounds of its run:
a supervisor that `StopAll` stopped and a pass started once more leaves a second loop, which is
now `stray`. `StartedOnce` failed with a
third attempt, and with a third claim: the first status of a submission, retried after a
conflict, came after a hand-back and took its wake-up from the object; both make a run
`overtaken`. `SubmitObject` replaced an object that a projected cancel had created. `CredentialNotIdle` and
`PermissionIsLive` failed with Git exports (`CommittedExport`). `SomebodyAnswers` needed the sentinel
of `WarmEnvironment` to be no lease (`NoneAssumption`). A crash of the machine
could lose only files of up to `MaxBorn` records, which left longer journals out of `journal`.

Only model-checked:

- liveness, which is out of the prover's reach: `StopsComplete`, `IdleEnds`, `RunSettles`, `Converges`,
  `QueuedRunSettles`, and `ExpiredIsReclaimed` in `ExpiryIsExact` (its other half is `ReapedHasExpired`);
- the queue with `LateWakes`, where `StartedOnce` is false;
- the violations, which are counterexamples.

## Plan

Done: the engine, journal, warm environments, harness plane, harness turn, run queue and shared
store with their invariants proved, and both refinements (`EventLog`, `OneTimeStore`).

To be proved next: the journal's theorems with a failing export commit, and the settled plane without
failing reclaims.

To be modelled next: the store of the agents provider with conditional writes opened (the wake-up
and the cancel that write a row they read earlier), two attempts of one task under the
dispatcher, subagents, the purge of finished runs.

## Not modelled

- App Studio (assistant, previews, deployment) and the other providers: products of their own, most of
  the repository's lines; their state is in databases and remote clusters.
- The hub's controllers over kcp, bootstrap, tunnel and metering: reconciliation of external APIs
  through client libraries, whose concurrency is the libraries'. Leader election is client-go's.
- Harness adapters, the in-process model loop, chat channels: stream formats and remote APIs. The
  engine's model leaves open every event, result and permission call an adapter may produce.
- Parsing and validation of requests, Git and file-system I/O, HTTP transport, SQL, portal, CLI,
  generated code: no state of their own, or I/O that the models have as a step that may fail.
- Of the modelled parts: version-1 state files, size limits, probes and inventory of the harness plane, its
  ports and mode auto,
  lenient follows, attended turns, the contents of events and records.
