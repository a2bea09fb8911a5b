---------------------------- MODULE HarnessTurn ----------------------------
(***************************************************************************)
(* One run of the agents provider that executes on a runner: the follower   *)
(* of pkg/runner/dispatch (follow.go, read_retry.go), the harness backend   *)
(* that calls it (backend/harness/harness.go), and the part of the run      *)
(* lifecycle that bills and records a turn, parks it, resumes it and        *)
(* recovers it after the provider died (api/run.go, resume.go, recover.go). *)
(*                                                                          *)
(* The provider always follows with the strict, snapshot-carrying calls.    *)
(* The normalizer's state is the sequence of cursors it has consumed, which *)
(* is what its text, its tools and its usage are functions of.              *)
(***************************************************************************)
EXTENDS Integers, Sequences, SequencesExt, FiniteSets, FiniteSetsExt

CONSTANTS
    MaxEvents,      \* bound: events of the attempt
    MaxOutage,      \* failed reads in a row that fit in maxReadOutage
    MaxRecovery,    \* maxRecoveryAttempts
    MaxCrashes,     \* bound: deaths of the provider process
    MaxDrops        \* bound: times the runner discards its oldest event

ASSUME TurnAssumption ==
    {MaxEvents, MaxOutage, MaxRecovery, MaxCrashes, MaxDrops} \subseteq Nat

VARIABLES
    log,       \* the attempt's events; an event's cursor is its index
    rphase,    \* the attempt's phase; "settling": the event is out, the receipt is not
    gone,      \* events the runner no longer holds
    row,       \* the run's row in the provider's store
    meter,     \* usage added to the agent's account
    t,         \* the turn in the provider's process
    answers,   \* observer: <<park the person was shown, park the answer reached>>
    torn,      \* observer: billing and the row were written by halves
    crashes

vars == <<log, rphase, gone, row, meter, t, answers, torn, crashes>>

Kinds == {"work", "mark", "park", "end"}
Closed == {"done", "failed", "aborted"}

Usage(text) == Cardinality({i \in DOMAIN text : log[text[i]] = "work"})

NoPark == 0
Empty  == [cur |-> 0, text |-> <<>>, park |-> NoPark]
Off    == [at |-> "off", cur |-> 0, text |-> <<>>, moved |-> FALSE, caught |-> FALSE,
           wait |-> 0, park |-> NoPark, out |-> "none"]

\* restoreStream
Turn(at, ck) == [Off EXCEPT !.at = at, !.cur = ck.cur, !.text = ck.text]

\* runTurn has saved the Running row and its initial checkpoint, and is about to
\* dispatch.
Init ==
    /\ log = <<>> /\ rphase = "absent" /\ gone = 0
    /\ row = [phase |-> "running", ck |-> Empty, total |-> 0, cancel |-> FALSE, tries |-> 0]
    /\ meter = 0
    /\ t = Turn("start", Empty)
    /\ answers = {} /\ torn = FALSE /\ crashes = 0

-----------------------------------------------------------------------------
(* The runner, as its HTTP API shows it *)

Receipt == [phase |-> IF rphase = "settling" THEN "running" ELSE rphase,
            cur   |-> Len(log),
            park  |-> IF rphase = "parked" THEN Len(log) ELSE NoPark]

\* The harness works; subscribers see the event of a park or of the end before
\* the receipt says so.
Emit(k) ==
    /\ rphase = "running" /\ Len(log) < MaxEvents
    /\ Len(log) = MaxEvents - 1 => k = "end"
    /\ log' = Append(log, k)
    /\ rphase' = IF k \in {"park", "end"} THEN "settling" ELSE "running"
    /\ UNCHANGED <<gone, row, meter, t, answers, torn, crashes>>

Settle ==
    /\ rphase = "settling"
    /\ rphase' = IF Last(log) = "park" THEN "parked" ELSE "over"
    /\ UNCHANGED <<log, gone, row, meter, t, answers, torn, crashes>>

\* The park is answered by somebody else, or its prompt is withdrawn.
MovesOn ==
    /\ rphase = "parked" /\ rphase' = "running"
    /\ UNCHANGED <<log, gone, row, meter, t, answers, torn, crashes>>

\* The attempt has no journal and its cache is full.
Drop ==
    /\ gone < MaxDrops /\ gone + 1 < Len(log) /\ gone' = gone + 1
    /\ UNCHANGED <<log, rphase, row, meter, t, answers, torn, crashes>>

Runner == (\E k \in Kinds : Emit(k)) \/ Settle

-----------------------------------------------------------------------------
(* followStream and drain *)

Returns(turn, out, park) ==
    [turn EXCEPT !.at = "bill", !.out = out, !.park = park, !.moved = FALSE,
                 !.caught = FALSE, !.wait = 0]

Fails(turn) == Returns(turn, "failed", NoPark)

\* Variant of Recorded: the cursor is the head the receipt reports.
RecordedAtHead(r, turn) ==
    IF r.phase = "running"
    THEN {r, [r EXCEPT !.ck = [cur |-> Len(log), text |-> turn.text, park |-> NoPark]]} ELSE {r}

\* checkpointRecorder: only a Running row takes a checkpoint, and a failed write
\* is not an error.
Recorded(r, turn) ==
    IF r.phase = "running"
    THEN {r, [r EXCEPT !.ck = [cur |-> turn.cur, text |-> turn.text, park |-> NoPark]]} ELSE {r}

\* Variant of Waits: one read more than the outage allows.
WaitsOnceMore(turn, at) ==
    IF turn.wait <= MaxOutage THEN [turn EXCEPT !.at = at, !.wait = @ + 1] ELSE Fails(turn)

\* A read failed in a way that may pass: wait, unless the outage is too long.
Waits(turn, at) ==
    IF turn.wait < MaxOutage THEN [turn EXCEPT !.at = at, !.wait = @ + 1] ELSE Fails(turn)

\* The durable cancel is read at the top of the loop and while waiting.
Abort ==
    /\ t.at = "open" /\ row.cancel
    /\ t' = Returns(t, "aborted", NoPark)
    /\ UNCHANGED <<log, rphase, gone, row, meter, answers, torn, crashes>>

\* Variant of Open: a connection ends the outage.
OpenResets ==
    /\ t.at = "open"
    /\ \/ t.cur < gone /\ t' = [t EXCEPT !.at = "reconcile"]
       \/ t.cur >= gone /\ t' = [t EXCEPT !.at = "drain", !.wait = 0]
       \/ t' = Waits(t, "open")
       \/ t' = Fails(t)
    /\ UNCHANGED <<log, rphase, gone, row, meter, answers, torn, crashes>>

\* r.Events: the stream, a cursor the runner no longer holds, or no answer.
Open ==
    /\ t.at = "open"
    /\ \/ t.cur < gone /\ t' = [t EXCEPT !.at = "reconcile"]
       \/ t.cur >= gone /\ t' = [t EXCEPT !.at = "drain"]
       \/ t' = Waits(t, "open")
       \/ t' = Fails(t)
    /\ UNCHANGED <<log, rphase, gone, row, meter, answers, torn, crashes>>

\* stream.observe of the next event.
Observed(turn) == [turn EXCEPT !.cur = @ + 1, !.text = Append(@, turn.cur + 1), !.moved = TRUE]

\* One event of the stream; a checkpoint event is offered to the caller, a park
\* or an end leaves drain.
Drain ==
    /\ t.at = "drain" /\ t.cur < Len(log)
    /\ LET k == log[t.cur + 1]
           s == Observed(t)
       IN  /\ t' = IF k \in {"park", "end"}
                   THEN [s EXCEPT !.at = "inspect", !.caught = FALSE, !.wait = 0, !.moved = FALSE]
                   ELSE s
           /\ row' \in IF k = "mark" THEN Recorded(row, s) ELSE {row}
    /\ UNCHANGED <<log, rphase, gone, meter, answers, torn, crashes>>

\* The runner closed the stream: checkpoint, then ask for the receipt.
Quiet ==
    /\ t.at = "drain"
    /\ t' = [t EXCEPT !.at = "inspect", !.caught = @ /\ ~t.moved, !.wait = 0, !.moved = FALSE]
    /\ row' \in Recorded(row, t)
    /\ UNCHANGED <<log, rphase, gone, meter, answers, torn, crashes>>

\* The connection broke.  Progress ends the previous outage.
DrainFails ==
    /\ t.at = "drain"
    /\ LET s == [t EXCEPT !.wait = IF t.moved THEN 0 ELSE @, !.caught = @ /\ ~t.moved,
                          !.moved = FALSE]
       IN  \/ t' = Waits(s, "open") /\ row' \in IF s.wait = 0 THEN Recorded(row, t) ELSE {row}
           \/ t' = Fails(t) /\ UNCHANGED row
    /\ UNCHANGED <<log, rphase, gone, meter, answers, torn, crashes>>

\* Variant of Concluded: the receipt alone decides.
ConcludedByReceipt(turn, r) ==
    IF r.phase \notin {"parked", "over"} THEN [turn EXCEPT !.at = "open", !.wait = 0]
    ELSE Returns(turn, IF r.phase = "parked" THEN "parked" ELSE "done", r.park)

\* The receipt is the authority.  Behind it, one catch-up pass is allowed.
Concluded(turn, r) ==
    IF r.phase \notin {"parked", "over"} THEN [turn EXCEPT !.at = "open", !.wait = 0]
    ELSE IF r.cur > turn.cur
    THEN IF turn.caught THEN Fails(turn)
         ELSE [turn EXCEPT !.at = "open", !.caught = TRUE, !.wait = 0]
    ELSE Returns(turn, IF r.phase = "parked" THEN "parked" ELSE "done", r.park)

\* Inspect after a park, an end or a quiet stream; inspectWithRetry.
Inspect ==
    /\ t.at = "inspect"
    /\ t' \in {Concluded(t, Receipt), Waits(t, "inspect"), Fails(t)}
    /\ UNCHANGED <<log, rphase, gone, row, meter, answers, torn, crashes>>

\* Inspect after an expired cursor.  The head is past the cursor, as the runner
\* has just discarded an event behind it, so a strict follow cannot go on.
Reconcile ==
    /\ t.at = "reconcile" /\ t' = Fails(t)
    /\ UNCHANGED <<log, rphase, gone, row, meter, answers, torn, crashes>>

-----------------------------------------------------------------------------
(* Turn and Continue of the harness backend *)

\* Runner.Start, accepted, refused, or accepted with its answer lost.
Start ==
    /\ t.at = "start"
    /\ \/ rphase' = "running" /\ t' \in {[t EXCEPT !.at = "open"], Fails(t)}
       \/ UNCHANGED rphase /\ t' = Fails(t)
    /\ UNCHANGED <<log, gone, row, meter, answers, torn, crashes>>

\* RejoinSnapshot: an attempt the runner knows is followed from the cursor.
Rejoin ==
    /\ t.at = "rejoin"
    /\ t' \in {IF rphase = "absent" THEN Fails(t) ELSE [t EXCEPT !.at = "open", !.wait = 0],
               Waits(t, "rejoin"), Fails(t)}
    /\ UNCHANGED <<log, rphase, gone, row, meter, answers, torn, crashes>>

\* Variant of DifferentPark: any park takes the answer.
AnyPark(shown, r) == FALSE

\* answerTargetsDifferentPark, for parks with IDs of their own.
DifferentPark(shown, r) == shown # r.park

\* Continue with a decision: Inspect, once, says whether it is still wanted.
Asked ==
    /\ t.at = "asked"
    /\ \/ t' = IF Receipt.phase # "parked" \/ DifferentPark(row.ck.park, Receipt)
               THEN [t EXCEPT !.at = "rejoin"]
               ELSE [t EXCEPT !.at = "answer", !.park = Receipt.park]
       \/ t' = Fails(t)
    /\ UNCHANGED <<log, rphase, gone, row, meter, answers, torn, crashes>>

\* ResumeSnapshot: the runner takes the answer of the park it is in and refuses
\* any other; the answer to the request may be lost.
Answer ==
    /\ t.at = "answer"
    /\ \/ /\ rphase = "parked" /\ Receipt.park = t.park
          /\ rphase' = "running"
          /\ answers' = answers \cup {<<row.ck.park, t.park>>}
          /\ t' \in {[t EXCEPT !.at = "open", !.park = NoPark], Fails(t)}
       \/ t' = Fails(t) /\ UNCHANGED <<rphase, answers>>
    /\ UNCHANGED <<log, gone, row, meter, torn, crashes>>

Follow == Open \/ Drain \/ Quiet \/ DrainFails \/ Inspect \/ Reconcile \/ Rejoin \/ Asked

-----------------------------------------------------------------------------
(* runTurn after the backend returned *)

\* Variant of Unbilled: what this turn saw, whatever the row says.
UnbilledOfTurn(text, r) == Usage(text) - Usage(r.ck.text)

\* unbilledHarnessUsage: the total less what the row was charged for at a park.
Unbilled(text, r) == Max({0, Usage(text) - r.total})

\* Total of the outcome, never below what the row has.
Total(text, r) == Max({Usage(text), r.total})

\* AddUsage; a failure is logged and the turn goes on.
Bill ==
    /\ t.at = "bill" /\ t' = [t EXCEPT !.at = "record"]
    /\ \/ meter' = meter + Unbilled(t.text, row) /\ UNCHANGED torn
       \/ UNCHANGED meter /\ torn' = (torn \/ Unbilled(t.text, row) > 0)
    /\ UNCHANGED <<log, rphase, gone, row, answers, crashes>>

Finished(r, phase, total) ==
    [r EXCEPT !.phase = phase, !.ck = Empty, !.total = IF total > 0 THEN total ELSE @]

\* parkRun or finishRun.
Record ==
    /\ t.at = "record" /\ t' = Off
    /\ row' = IF t.out = "parked"
              THEN [row EXCEPT !.phase = "parked", !.total = Total(t.text, row),
                               !.ck = [cur |-> t.cur, text |-> t.text, park |-> t.park]]
              ELSE Finished(row, t.out, Total(t.text, row))
    /\ UNCHANGED <<log, rphase, gone, meter, answers, torn, crashes>>

\* The row of the park cannot be saved: failPark stops the attempt and the run
\* is finished as failed.
ParkFails ==
    /\ t.at = "record" /\ t.out = "parked" /\ t' = Off
    /\ row' = Finished(row, "failed", Total(t.text, row))
    /\ \/ rphase = "parked" /\ log' = Append(log, "end") /\ rphase' = "over"
       \/ UNCHANGED <<log, rphase>>
    /\ UNCHANGED <<gone, meter, answers, torn, crashes>>

\* finishRun cannot save the row: it stays Running.
FinishLost ==
    /\ t.at = "record" /\ t' = Off /\ crashes < MaxCrashes /\ crashes' = crashes + 1
    /\ torn' = (torn \/ Unbilled(t.text, row) > 0)
    /\ UNCHANGED <<log, rphase, gone, row, meter, answers>>

Settling == Bill \/ Record

-----------------------------------------------------------------------------
(* The provider's process, its recovery, and people *)

Crash ==
    /\ t.at # "off" /\ crashes < MaxCrashes
    /\ crashes' = crashes + 1 /\ t' = Off
    /\ torn' = (torn \/ (t.at = "record" /\ Unbilled(t.text, row) > 0))
    /\ UNCHANGED <<log, rphase, gone, row, meter, answers>>

\* dispatchSnapshot of the saved state.
RejoinsAt(ck) == Turn("rejoin", ck)

\* recoverRun of a stranded run.
Recover ==
    /\ t.at = "off" /\ row.phase = "running"
    /\ \/ row.cancel /\ row' = Finished(row, "aborted", 0) /\ UNCHANGED t
       \/ ~row.cancel /\ row.tries >= MaxRecovery
          /\ row' = Finished(row, "failed", 0) /\ UNCHANGED t
       \/ ~row.cancel /\ row.tries < MaxRecovery
          /\ row' = [row EXCEPT !.tries = @ + 1] /\ t' = RejoinsAt(row.ck)
    /\ UNCHANGED <<log, rphase, gone, meter, answers, torn, crashes>>

\* The person answers the inbox item: ClaimRun, then Continue with the decision.
Approve ==
    /\ t.at = "off" /\ row.phase = "parked" /\ ~row.cancel
    /\ row' = [row EXCEPT !.phase = "running"] /\ t' = Turn("asked", row.ck)
    /\ UNCHANGED <<log, rphase, gone, meter, answers, torn, crashes>>

RequestCancel ==
    /\ row.phase = "running" /\ ~row.cancel /\ row' = [row EXCEPT !.cancel = TRUE]
    /\ UNCHANGED <<log, rphase, gone, meter, t, answers, torn, crashes>>

\* A settled run: nothing of the system has to move.
Rest == row.phase # "running" /\ t.at = "off" /\ UNCHANGED vars

Next ==
    \/ Runner \/ MovesOn \/ Drop
    \/ Start \/ Follow \/ Abort \/ Answer
    \/ Settling \/ ParkFails \/ FinishLost
    \/ Crash \/ Recover \/ Approve \/ RequestCancel
    \/ Rest

Spec == Init /\ [][Next]_vars

\* The attempt ends or parks; the provider's goroutines run; the controller keeps
\* recovering stranded runs.
FairSpec ==
    /\ Spec
    /\ WF_vars(Runner) /\ WF_vars(Start) /\ WF_vars(Follow) /\ WF_vars(Answer)
    /\ WF_vars(Settling) /\ WF_vars(Recover)

-----------------------------------------------------------------------------
Points == {"off", "start", "rejoin", "asked", "answer", "open", "drain", "inspect",
           "reconcile", "bill", "record"}

\* The types of the follower, of the row and of the runner's answers.
TurnTypeOK ==
    /\ log \in Seq(Kinds) /\ Len(log) <= MaxEvents /\ gone \in 0..Len(log)
    /\ rphase \in {"absent", "running", "settling", "parked", "over"}
    /\ t.at \in Points /\ t.cur \in 0..Len(log) /\ t.wait \in 0..MaxOutage
    /\ t.out \in {"none", "parked"} \cup Closed
    /\ row.phase \in {"running", "parked"} \cup Closed /\ row.tries \in 0..MaxRecovery
    /\ row.ck.cur \in 0..Len(log) /\ meter \in Nat

Exactly(text, n) == text = [i \in 1..n |-> i]

\* A turn that reports an answer or a park has consumed every event of the
\* attempt up to it, once and in order, over reconnects, catch-up passes, parks
\* and re-joins of a provider that died (FollowSnapshot, RejoinSnapshot).
TranscriptIsComplete ==
    t.at \in {"bill", "record"} /\ t.out \in {"parked", "done"} =>
        /\ t.cur >= 1 /\ Exactly(t.text, t.cur)
        /\ t.out = "done" => t.cur = Len(log) /\ log[t.cur] = "end" /\ rphase = "over"
        /\ t.out = "parked" => t.park = t.cur /\ log[t.park] = "park"

\* Whenever the provider dies, the row describes one cut of the attempt: the
\* saved cursor and the saved normalizer state are of the same event.
SavedIsOneCut == Exactly(row.ck.text, row.ck.cur)

\* What a turn reports and what a run saves is the history of the attempt, whole.
HistoryIsWhole == TranscriptIsComplete /\ SavedIsOneCut

\* Unless a failure fell between the two writes of a turn's end, a run that is
\* not executing has been charged for exactly what its row reports, and a
\* finished one for exactly what the attempt consumed (runTurn, parkRun, finishRun).
ChargedAsRecorded ==
    t.at = "off" /\ row.phase # "running" /\ ~torn =>
        /\ meter = row.total
        /\ row.phase = "done" => row.total = Usage([i \in 1..Len(log) |-> i])

\* An answer reaches the park the person was shown and no other (Continue,
\* answerTargetsDifferentPark).
AnswerFitsQuestion == \A a \in answers : a[1] = a[2]

\* A run leaves Running: a follower returns when the attempt ends, when it parks,
\* or when the runner cannot be read for too long, and a run whose provider died
\* is recovered or closed.
RunSettles == row.phase = "running" ~> row.phase # "running"

\* "Only usage persisted on the run at an earlier park has already been charged"
\* (api/harness.go): the account is never charged for more than the attempt used.
NeverChargedTwice == meter <= Usage([i \in 1..Len(log) |-> i])
=============================================================================
