---------------------------- MODULE EventJournal ----------------------------
(***************************************************************************)
(* The event journals of the runner (event_journal.go), the handlers that   *)
(* append to them under the runner mutex (runner.go, git_result.go,         *)
(* retention.go), the state file that commits their offsets (store.go) and  *)
(* the event stream that replays and follows one of them without the mutex  *)
(* (http.go).                                                               *)
(*                                                                          *)
(* A handler is a sequence of writes in one critical section.  Here each    *)
(* write is a step and `at` says where the holder of the mutex is, because  *)
(* the stream reads between the writes and the process may die between      *)
(* them.  Sizes and offsets count records, and a torn write leaves one      *)
(* unreadable record.                                                       *)
(***************************************************************************)
EXTENDS Integers, Sequences, FiniteSets, FiniteSetsExt, SequencesExt

CONSTANTS
    Attempts,
    Followed,          \* the attempt whose events the stream serves
    MaxEvents,         \* Config.MaxEvents: length of the hot cache
    Buffer,            \* capacity of a subscriber's channel (64 in the code)
    Stride,            \* distance of indexed cursors (256 in the code)
    JournalLimit, ControlReserve, TotalLimit, TotalReserve,
    Modes,             \* the sets of events the environment may choose from
    Legacy,            \* caches of the followed attempt at the first start
    MaxBorn            \* bound: events produced in a behaviour

ASSUME JournalAssumption ==
    /\ Followed \in Attempts /\ IsFiniteSet(Attempts)
    /\ {MaxEvents, Buffer, Stride, ControlReserve, TotalReserve} \subseteq Nat \ {0}
    /\ {JournalLimit, TotalLimit, MaxBorn} \subseteq Nat
    /\ \A m \in Modes : m \subseteq {"open", "write", "save", "landed", "remove", "export", "drop"}
    /\ \A old \in Legacy :
          /\ old \in Seq([cur : Nat \ {0}, id : Nat, kind : {"progress", "ask", "end"}])
          /\ \A i \in DOMAIN old : old[i].cur = old[1].cur + i - 1

VARIABLES
    j,        \* Runner.state and stateStore, per attempt: the process's memory
    fs,       \* the journal files
    disk,     \* state.json
    at,       \* where the holder of the mutex is; "free", "starting" or "down"
    held,     \* the attempt of the running handler and what it may restore
    con,      \* the event stream and its consumer
    mode,     \* the failures this behaviour may have
    due,      \* attempts whose retention has run out and was acted on
    born,     \* events produced so far: the identity of the next one
    lost      \* observer: events the consumer got and a crash took back

vars == <<j, fs, disk, at, held, con, mode, due, born, lost>>

NoWriter == -1
Kinds    == {"progress", "ask", "end"}
Control  == {"ask", "end"}
Torn     == [cur |-> 0, id |-> 0, kind |-> "torn"]
Owned    == {"live", "parked", "over"}

\* No attempt: the zero values of attemptRecord and of the store's maps.
Nothing == [phase |-> "none", running |-> FALSE, failed |-> FALSE, off |-> 0, cache |-> <<>>,
            wend |-> NoWriter, dirty |-> FALSE, index |-> {}, size |-> 0]
NoFile  == [data |-> <<>>, synced |-> 0, linked |-> FALSE]
Absent  == [phase |-> "none", failed |-> FALSE, off |-> 0, cache |-> <<>>]

Idle    == [who |-> Followed, prior |-> <<>>]

Closed(c) == [c EXCEPT !.at = "off", !.through = 0, !.bytes = 0, !.pos = 0,
                       !.events = <<>>, !.over = FALSE, !.chan = <<>>]

\* The process is down.  A state written by an older runner has events in its
\* cache and no journal; its consumer has read what that runner discarded.
Init ==
    /\ j = [a \in Attempts |-> Nothing]
    /\ fs = [a \in Attempts |-> NoFile]
    /\ \E old \in Legacy :
          /\ disk = [a \in Attempts |->
                        IF a = Followed /\ old # <<>>
                        THEN [Absent EXCEPT !.phase = "live", !.cache = old] ELSE Absent]
          /\ con = [at |-> "off", last |-> IF old = <<>> THEN 0 ELSE old[1].cur - 1,
                    got |-> <<>>, through |-> 0, bytes |-> 0, pos |-> 0,
                    events |-> <<>>, over |-> FALSE, chan |-> <<>>]
    /\ at = "down"
    /\ held = Idle
    /\ mode \in Modes
    /\ due = {}
    /\ born = 1
    /\ lost = {}

-----------------------------------------------------------------------------
(* event_journal.go: appendEvent and removeEvents *)

Cursor(m) == IF m.cache = <<>> THEN 0 ELSE Last(m.cache).cur

\* Limits: terminal and needs-input events may use the reserve.
Limit(kind)      == JournalLimit + (IF kind \in Control THEN ControlReserve ELSE 0)
TotalQuota(kind) == TotalLimit + (IF kind \in Control THEN TotalReserve ELSE 0)

\* totalJournalBytes: the records accounted to the attempts of A.
Accounted(A) == Cardinality(UNION {{b} \X (1..j[b].size) : b \in A})

OtherBytes(a) == Accounted(Attempts \ {a})

\* closeJournal, and the index that goes with a writer that is not at the offset.
WriterClosed(m) ==
    [m EXCEPT !.wend = NoWriter, !.dirty = FALSE,
              !.index = IF m.wend = NoWriter THEN @ ELSE {}]

\* The file as open with O_CREATE finds it.
FileFound(f) == IF f.linked THEN f ELSE [NoFile EXCEPT !.linked = TRUE]

\* Variant of Reopened: the truncation is not accounted.
ReopenedUnaccounted(m, f) ==
    [m |-> [WriterClosed(m) EXCEPT !.wend = m.off],
     f |-> [FileFound(f) EXCEPT !.data = SubSeq(@, 1, m.off), !.synced = Min({@, m.off})]]

\* Variant of Reopened: the tail of an uncommitted append stays in the file.
ReopenedUntruncated(m, f) ==
    [m |-> [WriterClosed(m) EXCEPT !.wend = m.off, !.size = m.off], f |-> FileFound(f)]

\* A journal is reopened at the committed offset: what lies behind it is the
\* tail of an append that was never committed.
Reopened(m, f) ==
    [m |-> [WriterClosed(m) EXCEPT !.wend = m.off, !.size = m.off],
     f |-> [FileFound(f) EXCEPT !.data = SubSeq(@, 1, m.off), !.synced = Min({@, m.off})]]

\* Variant of Indexed: the offset of the last record before the event.
IndexedBefore(index, cur, off) ==
    IF cur % Stride # 1 % Stride \/ \E p \in index : p[1] = cur
    THEN index ELSE index \cup {<<cur, off - 1>>}

\* indexEvent: the first event of every Stride cursors.
Indexed(index, cur, off) ==
    IF cur % Stride # 1 % Stride \/ \E p \in index : p[1] = cur
    THEN index ELSE index \cup {<<cur, off>>}

\* What one call of appendEvent may leave behind, ok or not.
AppendResults(m, f, others, ev, outs) ==
    LET recs   == Append(IF m.off = 0 THEN m.cache ELSE <<>>, ev)
        n      == Len(recs)
        reopen == m.wend # m.off
        r      == IF reopen THEN Reopened(m, f) ELSE [m |-> m, f |-> f]
        Fails(m2, f2) == [ok |-> FALSE, m |-> m2, f |-> f2]
    IN  IF m.off + n > Limit(ev.kind)
        THEN {Fails(m, f)}
        ELSE IF reopen /\ Len(FileFound(f).data) < m.off
        THEN {Fails(WriterClosed(m), FileFound(f))}
        ELSE {Fails(WriterClosed(m), f) : x \in {"open"} \cap (IF reopen THEN outs ELSE {})}
             \cup
             IF others + r.m.size + n > TotalQuota(ev.kind)
             THEN {Fails(r.m, r.f)}
             ELSE {Fails([r.m EXCEPT !.wend = NoWriter, !.dirty = FALSE, !.size = m.off + k + 1],
                         [r.f EXCEPT !.data = @ \o Append(SubSeq(recs, 1, k), Torn)]) :
                      k \in IF "write" \in outs THEN 0..(n - 1) ELSE {}}
                  \cup
                  {[ok |-> TRUE,
                    m  |-> [r.m EXCEPT !.wend = m.off + n, !.dirty = TRUE, !.size = m.off + n,
                                       !.off = m.off + n,
                                       !.cache = LET all == Append(@, ev) IN
                                                 SubSeq(all, Max({1, Len(all) - MaxEvents + 1}), Len(all)),
                                       !.index = IF n = 1 THEN Indexed(@, ev.cur, m.off) ELSE @],
                    f  |-> [r.f EXCEPT !.data = @ \o recs]]}

\* appendEventLocked of runner.go: the next cursor follows the last cached event.
Results(a, m, kind, outs) ==
    AppendResults(m, fs[a], OtherBytes(a),
                  [cur |-> Cursor(m) + 1, id |-> born, kind |-> kind], outs)

\* The subscriber is served before the save, and not at all when its channel is full.
Wrote(a, r) ==
    /\ fs' = [fs EXCEPT ![a] = r.f]
    /\ born' = IF r.ok THEN born + 1 ELSE born
    /\ con' = IF r.ok /\ a = Followed /\ con.at # "off" /\ Len(con.chan) < Buffer
              THEN [con EXCEPT !.chan = Append(@, Last(r.m.cache))] ELSE con

\* removeEvents; open readers keep the file they have.
Removed(m, f, outs) ==
    {[m |-> [WriterClosed(m) EXCEPT !.index = {}, !.size = 0], f |-> [f EXCEPT !.linked = FALSE]]}
    \cup {[m |-> [WriterClosed(m) EXCEPT !.index = {}], f |-> f] : x \in {"remove"} \cap outs}

-----------------------------------------------------------------------------
(* store.go: save, and persistLocked *)

\* The last cached event is enough once there is a journal.
Image ==
    [a \in Attempts |->
        [phase |-> j[a].phase, failed |-> j[a].failed, off |-> j[a].off,
         cache |-> IF j[a].off > 0 /\ Len(j[a].cache) > 1 THEN <<Last(j[a].cache)>> ELSE j[a].cache]]

\* Variant of SyncedFiles: offsets are committed without a sync.
UnsyncedFiles == fs

\* syncJournals
SyncedFiles ==
    [a \in Attempts |-> IF j[a].wend # NoWriter /\ j[a].dirty
                        THEN [fs[a] EXCEPT !.synced = Len(fs[a].data)] ELSE fs[a]]

\* persistLocked closes the writers of attempts that wait or are over.  Start and
\* Resume launch the harness once their save is done.
AfterSave ==
    [a \in Attempts |->
        [j[a] EXCEPT !.dirty = FALSE,
                     !.running = @ \/ (at = "launch" /\ a = held.who),
                     !.wend = IF j[a].phase = "live" THEN @ ELSE NoWriter]]

SaveOk ==
    /\ fs' = SyncedFiles /\ disk' = Image /\ j' = AfterSave

\* Before the rename nothing is on disk; after it, everything is.
SaveFails(after) ==
    \/ "save" \in mode /\ UNCHANGED <<fs, disk>> /\ j' = after
    \/ /\ "landed" \in mode
       /\ fs' = SyncedFiles /\ disk' = Image
       /\ j' = [a \in Attempts |-> [after[a] EXCEPT !.dirty = FALSE]]

-----------------------------------------------------------------------------
(* Handlers *)

\* The bound on the events of a behaviour: it stops new handlers, crashes
\* and failing starts.
Room == born < MaxBorn

Patch(a, m)  == j' = [j EXCEPT ![a] = m]
Take(a, pc)  == at' = pc /\ held' = IF pc = "free" THEN Idle ELSE [who |-> a, prior |-> <<>>]

\* Start of a new attempt, in the section of a purge or of its own.  When the
\* append fails, the record and the journal go.
Accept(a) ==
    /\ at \in {"free", "purge"} /\ Room /\ j[a].phase = "none"
    /\ \E r \in Results(a, [j[a] EXCEPT !.phase = "live"], "progress", mode) :
          \/ r.ok /\ Wrote(a, r) /\ Patch(a, r.m) /\ Take(a, "launch")
          \/ /\ ~r.ok
             /\ \E q \in Removed(r.m, r.f, mode) :
                   /\ fs' = [fs EXCEPT ![a] = q.f]
                   /\ Patch(a, [Nothing EXCEPT !.size = q.m.size])
             /\ at' = "free" /\ UNCHANGED <<held, con, born>>
    /\ UNCHANGED <<disk, mode, due, lost>>

\* A repeated Start of an attempt that was accepted and not launched.
Relaunch(a) ==
    /\ at = "free" /\ j[a].phase = "live" /\ ~j[a].running
    /\ Take(a, "launch")
    /\ UNCHANGED <<j, fs, disk, con, mode, due, born, lost>>

\* handleHarnessEvent up to its save.
HarnessEvent(a, kind) ==
    /\ at = "free" /\ Room /\ j[a].phase \in {"live", "parked"} /\ j[a].running /\ ~j[a].failed
    /\ \E r \in Results(a, j[a], kind, mode) :
          /\ Wrote(a, r)
          /\ \/ /\ r.ok /\ Take(a, "eventsave")
                /\ Patch(a, [r.m EXCEPT !.phase = IF kind = "ask" THEN "parked" ELSE "live"])
             \/ ~r.ok /\ Take(a, "failing") /\ Patch(a, r.m)
    /\ UNCHANGED <<disk, mode, due, lost>>

\* failHarnessEventLocked: one more event, and a save whether it was written or not.
FailHarnessEvent ==
    LET a == held.who IN
    /\ at = "failing"
    /\ \E r \in Results(a, [j[a] EXCEPT !.phase = "live", !.failed = TRUE], "progress", mode) :
          Wrote(a, r) /\ Patch(a, r.m) /\ Take(a, "save")
    /\ UNCHANGED <<disk, mode, due, lost>>

\* Cancel, Resume and the permission calls: they give up when the append fails.
Request(a, kind) ==
    /\ at = "free" /\ Room /\ j[a].phase \in {"live", "parked"}
    /\ kind = "ask" => j[a].running
    /\ \E r \in Results(a, [j[a] EXCEPT !.phase = IF kind = "ask" THEN "parked" ELSE "live",
                                        !.failed = FALSE], kind, mode) :
          /\ Wrote(a, r) /\ Patch(a, r.m)
          /\ Take(a, IF ~r.ok THEN "free" ELSE IF j[a].running THEN "save" ELSE "launch")
    /\ UNCHANGED <<disk, mode, due, lost>>

\* finishLocked: a needs-input event that was just recorded is not repeated.
AlreadyRecorded(m, phase) == phase = "parked" /\ m.cache # <<>> /\ Last(m.cache).kind = "ask"

Finishes(a, phase) ==
    LET m == [j[a] EXCEPT !.phase = phase, !.running = FALSE] IN
    /\ \/ AlreadyRecorded(m, phase) /\ Patch(a, m) /\ UNCHANGED <<fs, con, born>>
       \/ /\ ~AlreadyRecorded(m, phase)
          /\ \E r \in Results(a, m, IF phase = "parked" THEN "ask" ELSE "end", mode) :
                Wrote(a, r) /\ Patch(a, r.m)
    /\ Take(a, "save")
    /\ UNCHANGED <<disk, mode, due, lost>>

Finish(a, phase) ==
    /\ at = "free" /\ Room /\ j[a].phase \in {"live", "parked"}
    /\ Finishes(a, phase)

\* finishGitResultLocked: the artifact's event, the terminal event, one save.
\* A failure restores receipt and cache, but not the offset, and the attempt
\* finishes as failed.
ExportFaults == IF "export" \in mode THEN mode ELSE {}

Restored(m) == [m EXCEPT !.cache = held.prior, !.phase = "live"]

Export(a) ==
    /\ at = "free" /\ Room /\ j[a].phase = "live" /\ j[a].running
    /\ \E r \in Results(a, [j[a] EXCEPT !.running = FALSE], "progress", ExportFaults) :
          /\ Wrote(a, r) /\ Patch(a, r.m)
          /\ at' = IF r.ok THEN "export" ELSE "exportfailed"
          /\ held' = [who |-> a, prior |-> j[a].cache]
    /\ UNCHANGED <<disk, mode, due, lost>>

ExportCompletes ==
    LET a == held.who IN
    /\ at = "export"
    /\ \E r \in Results(a, [j[a] EXCEPT !.phase = "over"], "end", ExportFaults) :
          /\ Wrote(a, r)
          /\ Patch(a, IF r.ok THEN r.m ELSE Restored(r.m))
          /\ at' = IF r.ok THEN "exportsave" ELSE "exportfailed"
    /\ UNCHANGED <<disk, held, mode, due, lost>>

ExportFailed == at = "exportfailed" /\ Finishes(held.who, "over")

\* Retention: a record and its journal are dropped, then the state is saved.  An
\* attempt the start has just recovered is the youngest one and is kept.
Drop(a) ==
    /\ at \in {"free", "purge", "startsave"} /\ "drop" \in mode
    /\ j[a].phase \in {"parked", "over"} /\ ~j[a].running
    /\ at = "startsave" => disk[a].phase # "live"
    /\ \E q \in Removed(j[a], fs[a], mode) :
          /\ Patch(a, [Nothing EXCEPT !.phase = "gone", !.size = q.m.size])
          /\ fs' = [fs EXCEPT ![a] = q.f]
    /\ at' = IF at = "startsave" THEN at ELSE "purge"
    /\ due' = due \cup {a}
    /\ UNCHANGED <<disk, held, con, mode, born, lost>>

\* The save at the end of a handler.
Persist ==
    /\ at \in {"purge", "launch", "save", "eventsave", "exportsave"}
    /\ SaveOk
    /\ at' = "free" /\ held' = Idle
    /\ UNCHANGED <<con, mode, due, born, lost>>

\* A failed save of an event fails the attempt, one of an export is rolled back.
PersistFails ==
    /\ at \in {"purge", "launch", "save", "eventsave", "exportsave"}
    /\ at = "exportsave" => "export" \in mode
    /\ SaveFails(IF at = "exportsave" THEN [j EXCEPT ![held.who] = Restored(@)] ELSE j)
    /\ at' = CASE at = "eventsave"  -> "failing"
               [] at = "exportsave" -> "exportfailed"
               [] OTHER             -> "free"
    /\ held' = IF at' = "free" THEN Idle ELSE held
    /\ UNCHANGED <<con, mode, due, born, lost>>

-----------------------------------------------------------------------------
(* The process: runner.New, and its death at any point *)

\* The part of the journals that the state file commits.
Committed ==
    [a \in Attempts |->
        IF disk[a].phase \in Owned /\ fs[a].linked
        THEN SubSeq(fs[a].data, 1, Min({disk[a].off, Len(fs[a].data)})) ELSE <<>>]

\* Records behind the last sync may be lost, those before it are not.  What the
\* consumer got of an uncommitted event is taken back.
Crash ==
    /\ at # "down" /\ Room
    /\ \E keep \in [Attempts -> 0..Max({Len(fs[a].data) : a \in Attempts})] :
          /\ \A a \in Attempts : keep[a] \in fs[a].synced..Len(fs[a].data)
          /\ fs' = [a \in Attempts |->
                       IF fs[a].linked
                       THEN [fs[a] EXCEPT !.data = SubSeq(@, 1, keep[a]), !.synced = keep[a]]
                       ELSE NoFile]
    /\ j' = [a \in Attempts |-> Nothing]
    /\ at' = "down" /\ held' = Idle /\ con' = Closed(con)
    /\ lost' = lost \cup (ToSet(con.got) \ ToSet(Committed[Followed]))
    /\ UNCHANGED <<disk, mode, due, born>>

\* loadJournalUsage, load and pruneJournals.
Restart ==
    /\ at = "down"
    /\ fs' = [a \in Attempts |-> IF disk[a].phase \in Owned /\ fs[a].linked THEN fs[a] ELSE NoFile]
    /\ j' = [a \in Attempts |->
                [Nothing EXCEPT !.phase = disk[a].phase, !.failed = disk[a].failed,
                                !.off = disk[a].off, !.cache = disk[a].cache,
                                !.size = Len(fs'[a].data)]]
    /\ at' = "starting"
    /\ UNCHANGED <<disk, held, con, mode, due, born, lost>>

\* recoverLocked: a live attempt is parked; New fails when the append does.
Recover(a) ==
    /\ at = "starting" /\ j[a].phase = "live"
    /\ \E r \in Results(a, [j[a] EXCEPT !.phase = "parked"], "ask", IF Room THEN mode ELSE {}) :
          /\ Wrote(a, r)
          /\ \/ r.ok /\ Patch(a, r.m) /\ at' = at
             \/ ~r.ok /\ at' = "down" /\ j' = [b \in Attempts |-> Nothing]
    /\ UNCHANGED <<disk, held, mode, due, lost>>

Recovered ==
    /\ at = "starting" /\ \A a \in Attempts : j[a].phase # "live"
    /\ at' = "startsave"
    /\ UNCHANGED <<j, fs, disk, held, con, mode, due, born, lost>>

\* The purge of New takes again what a purge took before a crash.
StartSave ==
    /\ at = "startsave"
    /\ \A a \in due : j[a].phase \in {"parked", "over"} => disk[a].phase = "live"
    /\ \/ SaveOk /\ at' = "free"
       \/ Room /\ SaveFails([a \in Attempts |-> Nothing]) /\ at' = "down"
    /\ UNCHANGED <<held, con, mode, due, born, lost>>

-----------------------------------------------------------------------------
(* http.go: serveEvents, and replayEvents of event_journal.go *)

Mine == j[Followed]
File == fs[Followed].data

\* cursorGap
Ahead(m, after)   == m.cache # <<>> /\ after > Cursor(m)
Expired(m, after) == m.cache # <<>> /\ after + 1 < m.cache[1].cur

\* Variant of ScanStart: the index entry may be one cursor too late.
ScanStartLate(m, after) ==
    LET before == {p \in m.index : \A q \in m.index :
                      q[1] <= p[1] => q[1] <= after + 2 /\ q[2] < m.off}
    IN  IF before = {} THEN 0 ELSE (CHOOSE p \in before : \A q \in before : q[1] <= p[1])[2]

\* replayEvents: the scan starts at the last index entry that is not behind the
\* cursor, and reads up to the first record after it.
ScanStart(m, after) ==
    LET before == {p \in m.index : \A q \in m.index :
                      q[1] <= p[1] => q[1] <= after + 1 /\ q[2] < m.off}
    IN  IF before = {} THEN 0 ELSE (CHOOSE p \in before : \A q \in before : q[1] <= p[1])[2]

Scanned(m, data, after) ==
    LET ends == {p \in (ScanStart(m, after) + 1)..Min({m.off, Len(data)}) : data[p].cur > after}
    IN  IF ends = {} THEN {} ELSE (ScanStart(m, after) + 1)..Min(ends)

\* The record the replay starts with, 0 when it is refused.
ReplayFrom(m, data, after) ==
    LET read == Scanned(m, data, after) IN
    IF read # {} /\ Torn \notin {data[p] : p \in read} /\ data[Max(read)].cur = after + 1
    THEN Max(read) ELSE 0

Learned(m, data, read) ==
    m.index \cup {<<data[p].cur, p - 1>> : p \in {p \in read :
                     /\ data[p].cur % Stride = 1 % Stride
                     /\ \A q \in m.index : q[1] # data[p].cur}}

\* A request for the events after the consumer's cursor: replayed when they have
\* left the cache, refused when the cursor is ahead or not in the journal.
Replays == Expired(Mine, con.last) /\ Mine.off > 0 /\ fs[Followed].linked

FirstRecord == IF Replays THEN ReplayFrom(Mine, File, con.last) ELSE 0

Admitted ==
    /\ Mine.phase \in Owned /\ ~Ahead(Mine, con.last)
    /\ Expired(Mine, con.last) => FirstRecord # 0

Connect ==
    /\ at = "free" /\ con.at = "off" /\ Admitted
    /\ con' = [con EXCEPT !.at = IF FirstRecord # 0 THEN "replay" ELSE "cache",
                          !.through = Cursor(Mine), !.bytes = Mine.off, !.pos = FirstRecord,
                          !.events = Mine.cache, !.over = Mine.phase = "over"]
    /\ Patch(Followed, IF Replays
                       THEN [Mine EXCEPT !.index = Learned(Mine, File, Scanned(Mine, File, con.last))]
                       ELSE Mine)
    /\ UNCHANGED <<fs, disk, at, held, mode, due, born, lost>>

ConnectRefused ==
    /\ at = "free" /\ con.at = "off" /\ ~Admitted
    /\ UNCHANGED vars

Deliver(c, e) == [c EXCEPT !.last = e.cur, !.got = Append(@, e)]

\* eventReplay.next: an event is sent when the one after it is the next cursor.
ReplayNext ==
    LET e == File[con.pos]
        n == con.pos + 1
    IN
    /\ con.at = "replay"
    /\ con' = IF e.cur = con.through
              THEN [Deliver(con, e) EXCEPT !.at = "cache"]
              ELSE IF n <= con.bytes /\ n <= Len(File) /\ File[n].cur = e.cur + 1
              THEN [Deliver(con, e) EXCEPT !.pos = n]
              ELSE Closed(con)
    /\ UNCHANGED <<j, fs, disk, at, held, mode, due, born, lost>>

\* The cached events, then the channel unless the attempt was over.
CachedNext ==
    LET rest == {i \in DOMAIN con.events : con.events[i].cur > con.last} IN
    /\ con.at = "cache"
    /\ con' = IF rest # {} THEN Deliver(con, con.events[Min(rest)])
              ELSE IF con.over THEN Closed(con) ELSE [con EXCEPT !.at = "live"]
    /\ UNCHANGED <<j, fs, disk, at, held, mode, due, born, lost>>

\* Variant of LiveResult: a gap left by a full channel is passed on.
LiveResultWithGap(e) ==
    LET c == [con EXCEPT !.chan = Tail(@)] IN
    IF e.cur <= con.last THEN c ELSE Deliver(c, e)

\* A live event that does not follow the last one ends the stream.
LiveResult(e) ==
    LET c == [con EXCEPT !.chan = Tail(@)] IN
    IF e.cur <= con.last THEN c
    ELSE IF e.cur = con.last + 1 THEN Deliver(c, e) ELSE Closed(con)

LiveNext ==
    /\ con.at = "live" /\ con.chan # <<>>
    /\ con' = LiveResult(Head(con.chan))
    /\ UNCHANGED <<j, fs, disk, at, held, mode, due, born, lost>>

\* The page is full, the timer fires, or the consumer goes away.
Disconnect ==
    /\ con.at # "off"
    /\ con' = Closed(con)
    /\ UNCHANGED <<j, fs, disk, at, held, mode, due, born, lost>>

Next ==
    \/ \E a \in Attempts :
          \/ Accept(a) \/ Relaunch(a)
          \/ \E kind \in Kinds : HarnessEvent(a, kind)
          \/ \E kind \in {"progress", "ask"} : Request(a, kind)
          \/ \E phase \in {"parked", "over"} : Finish(a, phase)
          \/ Export(a)
          \/ Drop(a)
          \/ Recover(a)
    \/ FailHarnessEvent \/ ExportCompletes \/ ExportFailed
    \/ Persist \/ PersistFails
    \/ Crash \/ Restart \/ Recovered \/ StartSave
    \/ Connect \/ ConnectRefused \/ ReplayNext \/ CachedNext \/ LiveNext \/ Disconnect

Spec == Init /\ [][Next]_vars

-----------------------------------------------------------------------------
(* Properties *)

Serving == at \notin {"down", "starting", "startsave"}

Events == [cur : Nat, id : Nat, kind : Kinds \cup {"torn"}]

\* Every variable has the type its declaration says.
JournalTypeOK ==
    /\ j \in [Attempts -> [phase : Owned \cup {"none", "gone"}, running : BOOLEAN, failed : BOOLEAN,
                           off : Nat, cache : Seq(Events), wend : Nat \cup {NoWriter}, dirty : BOOLEAN,
                           index : SUBSET (Nat \X Nat), size : Nat]]
    /\ fs \in [Attempts -> [data : Seq(Events), synced : Nat, linked : BOOLEAN]]
    /\ disk \in [Attempts -> [phase : Owned \cup {"none", "gone"}, failed : BOOLEAN,
                              off : Nat, cache : Seq(Events)]]
    /\ at \in {"down", "starting", "startsave", "free", "purge", "launch", "save", "eventsave", "failing",
               "export", "exportsave", "exportfailed"}
    /\ held \in [who : Attempts, prior : Seq(Events)]
    /\ con \in [at : {"off", "replay", "cache", "live"}, last : Nat, got : Seq(Events),
                through : Nat, bytes : Nat, pos : Nat, events : Seq(Events),
                over : BOOLEAN, chan : Seq(Events)]
    /\ mode \in Modes /\ due \subseteq Attempts /\ born \in Nat /\ lost \subseteq Events

\* A replay from any cursor the journal still holds gives every later event
\* once, in order, up to the receipt's cursor, and agrees with the cache:
\* replayEvents and next never fail on what appendEvent wrote.
ReplayComplete ==
    \A a \in Attempts :
        (Serving /\ j[a].phase \in Owned) =>
        LET m == j[a]  d == fs[a].data IN
        \A after \in (d[1].cur - 1)..(Cursor(m) - 1) :
            LET p == ReplayFrom(m, d, after) IN
            /\ p # 0
            /\ \A i \in 0..(Cursor(m) - after - 1) :
                  /\ p + i <= m.off /\ d[p + i].cur = after + 1 + i
                  /\ \A k \in DOMAIN m.cache : m.cache[k].cur = d[p + i].cur => m.cache[k] = d[p + i]

\* What the consumer has got, over any number of connections, has consecutive
\* cursors, and every event of it is in the journal at its cursor; the only
\* exception are events that a crash took back before their offset was saved.
StreamIsHistory ==
    LET got == con.got IN
    /\ \A i \in 1..(Len(got) - 1) : got[i + 1].cur = got[i].cur + 1
    /\ (Serving /\ Mine.phase \in Owned) =>
          \A i \in DOMAIN got :
              got[i] \in lost \/ \E p \in 1..Mine.off : File[p] = got[i]

\* The bytes accounted to a journal are the bytes of its file, through failed
\* writes, truncation, removal and restart, so the aggregate limit is real.
UsageIsExact ==
    at # "down" =>
    /\ \A a \in Attempts : j[a].size = IF fs[a].linked THEN Len(fs[a].data) ELSE 0
    /\ Accounted(Attempts) <= TotalLimit + TotalReserve

\* Every journal a start has to append to has its committed prefix, whatever
\* was lost with the machine: the runner can start again.
Restartable ==
    \A a \in Attempts : disk[a].phase = "live" => fs[a].synced >= disk[a].off

\* The files fit the engine's state at every step: the quota counts what is there
\* and a start finds what it needs.
FilesFitState == UsageIsExact /\ Restartable

\* The committed part of the journals implements the abstract log: no crash,
\* failed write or reopened journal changes an event whose offset was saved, and
\* recorded events have consecutive cursors.
Log == INSTANCE EventLog WITH log <- Committed

LogSpec == Log!Spec

=============================================================================
