------------------------- MODULE HarnessTurn_proofs -------------------------
(***************************************************************************)
(* What is proved of a run that executes on a runner, for any number of    *)
(* events, outages, recoveries, crashes and dropped events.                *)
(*                                                                         *)
(* The invariant has four parts: the types; what the runner's phase says   *)
(* about the last event of the attempt; that the turn and the row each     *)
(* describe one cut of the attempt; and what the account has been charged. *)
(***************************************************************************)
EXTENDS HarnessTurn, FiniteSetTheorems, TLAPS

Turns == [at : Points, cur : Nat, text : Seq(Nat), moved : BOOLEAN, caught : BOOLEAN,
          wait : 0..MaxOutage, park : Nat, out : {"none", "parked"} \cup Closed]
Checkpoints == [cur : Nat, text : Seq(Nat), park : Nat]
Rows == [phase : {"running", "parked"} \cup Closed, ck : Checkpoints, total : Nat,
         cancel : BOOLEAN, tries : 0..MaxRecovery]

Typed ==
    /\ log \in Seq(Kinds) /\ Len(log) <= MaxEvents /\ gone \in 0..Len(log)
    /\ rphase \in {"absent", "running", "settling", "parked", "over"}
    /\ t \in Turns /\ row \in Rows /\ meter \in Nat /\ torn \in BOOLEAN

\* The last event is that of the runner's phase; a park leaves room for the end.
RunnerSound ==
    /\ rphase = "absent" => log = <<>>
    /\ rphase = "parked" => Len(log) > 0 /\ log[Len(log)] = "park" /\ Len(log) < MaxEvents
    /\ rphase = "settling" => /\ Len(log) > 0 /\ log[Len(log)] \in {"park", "end"}
                              /\ log[Len(log)] = "park" => Len(log) < MaxEvents
    /\ rphase = "over" => Len(log) > 0 /\ log[Len(log)] = "end"

\* A state of the normalizer is the one that belongs to its cursor.
Cut(c) == c.cur <= Len(log) /\ Exactly(c.text, c.cur)

\* A turn that has returned an answer or a park has consumed what led to it.
Complete(u) ==
    /\ u.out # "none"
    /\ u.out = "done" => u.cur = Len(log) /\ rphase = "over"
    /\ u.out = "parked" => u.cur > 0 /\ u.park = u.cur /\ log[u.cur] = "park"

CutSound ==
    /\ Cut(t) /\ Cut(row.ck)
    /\ t.at # "off" => row.phase = "running"
    /\ t.at = "start" => rphase = "absent"
    /\ t.at \in {"bill", "record"} => Complete(t)
    /\ t.at = "answer" => t.park = row.ck.park
    /\ AnswerFitsQuestion

\* The usage of the first n events of l.
Work(l, n) == Cardinality({i \in 1..n : l[i] = "work"})

Larger(m, n) == IF m >= n THEN m ELSE n

\* Unless it was torn, the account is what the row says, and between billing and
\* recording what the row is about to say.
MeterSound ==
    /\ ~torn => meter = IF t.at = "record" THEN Larger(Work(log, t.cur), row.total) ELSE row.total
    /\ row.total <= Work(log, Len(log))
    /\ row.phase = "done" => rphase = "over" /\ row.total = Work(log, Len(log))

TurnInv == Typed /\ RunnerSound /\ CutSound /\ MeterSound

-----------------------------------------------------------------------------
(* Usage                                                                   *)

LEMMA MaxOf2 ==
    ASSUME NEW m \in Int, NEW n \in Int PROVE Max({m, n}) = Larger(m, n)
<1> DEFINE r == Larger(m, n)
<1>1. r \in {m, n} /\ \A y \in {m, n} : r >= y  BY DEF Larger
<1>2. \A x \in {m, n} : (\A y \in {m, n} : x >= y) => x = r  BY DEF Larger
<1> HIDE DEF r
<1>3. Max({m, n}) = r  BY <1>1, <1>2, Zenon DEF Max
<1>4. QED  BY <1>3 DEF r

LEMMA WorkType ==
    ASSUME NEW l, NEW n \in Nat PROVE Work(l, n) \in Nat
<1>1. IsFiniteSet(1..n)  BY FS_Interval
<1>2. IsFiniteSet({i \in 1..n : l[i] = "work"})  BY <1>1, FS_Subset
<1>3. QED  BY <1>2, FS_CardinalityType DEF Work

\* More events have used no less.
LEMMA WorkGrows ==
    ASSUME NEW l, NEW n \in Nat, NEW m \in 0..n PROVE Work(l, m) <= Work(l, n)
<1>1. IsFiniteSet(1..n)  BY FS_Interval
<1>2. IsFiniteSet({i \in 1..n : l[i] = "work"})  BY <1>1, FS_Subset
<1>3. {i \in 1..m : l[i] = "work"} \subseteq {i \in 1..n : l[i] = "work"}  OBVIOUS
<1>4. QED  BY <1>2, <1>3, FS_Subset DEF Work

\* What the first events have used does not change.
LEMMA WorkSame ==
    ASSUME NEW l, NEW l2, NEW n \in Nat, \A i \in 1..n : l2[i] = l[i]
    PROVE  Work(l2, n) = Work(l, n)
<1>1. {i \in 1..n : l2[i] = "work"} = {i \in 1..n : l[i] = "work"}  OBVIOUS
<1>2. QED  BY <1>1 DEF Work

LEMMA UsageIs ==
    ASSUME NEW text, NEW n \in Nat, Exactly(text, n) PROVE Usage(text) = Work(log, n)
<1>1. DOMAIN text = 1..n /\ \A i \in 1..n : text[i] = i  BY DEF Exactly
<1>2. {i \in DOMAIN text : log[text[i]] = "work"} = {i \in 1..n : log[i] = "work"}
  BY <1>1
<1>3. QED  BY <1>2 DEF Usage, Work

\* What a turn is billed, and what its row will say.
LEMMA BillIs ==
    ASSUME TurnInv
    PROVE  LET w == Work(log, t.cur)
           IN  /\ w \in Nat /\ w <= Work(log, Len(log))
               /\ Unbilled(t.text, row) = IF w >= row.total THEN w - row.total ELSE 0
               /\ Total(t.text, row) = Larger(w, row.total)
<1> DEFINE w == Work(log, t.cur)
<1>1. t.cur \in Nat /\ Exactly(t.text, t.cur) /\ row.total \in Nat /\ Len(log) \in Nat
      /\ t.cur <= Len(log)
  BY DEF TurnInv, Typed, Turns, Rows, CutSound, Cut
<1>2. Usage(t.text) = w  BY <1>1, UsageIs
<1>3. w \in Nat  BY <1>1, WorkType
<1>4. w <= Work(log, Len(log))  BY <1>1, WorkGrows
<1> HIDE DEF w
<1>5. Total(t.text, row) = Larger(w, row.total)  BY <1>1, <1>2, <1>3, MaxOf2 DEF Total
<1>6. Max({0, w - row.total}) = Larger(0, w - row.total)  BY <1>1, <1>3, MaxOf2
<1>7. Unbilled(t.text, row) = IF w >= row.total THEN w - row.total ELSE 0
  BY <1>1, <1>2, <1>3, <1>6 DEF Unbilled, Larger
<1>8. QED  BY <1>3, <1>4, <1>5, <1>7 DEF w

-----------------------------------------------------------------------------
(* The states of a turn                                                    *)

LEMMA CutGrows ==
    ASSUME NEW text, NEW n \in Nat, Exactly(text, n)
    PROVE  Append(text, n + 1) \in Seq(Nat) /\ Exactly(Append(text, n + 1), n + 1)
<1>1. text \in Seq(Nat) /\ Len(text) = n  BY DEF Exactly
<1>2. Append(text, n + 1) \in Seq(Nat) /\ Len(Append(text, n + 1)) = n + 1
  BY <1>1
<1>3. \A i \in 1..(n + 1) : Append(text, n + 1)[i] = i  BY <1>1 DEF Exactly
<1>4. DOMAIN Append(text, n + 1) = 1..(n + 1)  BY <1>1, <1>2
<1>5. Append(text, n + 1) = [i \in DOMAIN Append(text, n + 1) |-> Append(text, n + 1)[i]]
  BY <1>2
<1>6. QED  BY <1>2, <1>3, <1>4, <1>5 DEF Exactly

\* A turn that has returned.
LEMMA ReturnsOf ==
    ASSUME NEW u \in Turns, NEW o \in {"parked"} \cup Closed, NEW p \in Nat,
           NEW r, r = Returns(u, o, p)
    PROVE  /\ r \in Turns /\ r.at = "bill" /\ r.cur = u.cur /\ r.text = u.text
           /\ r.out = o /\ r.park = p
<1>1. 0 \in 0..MaxOutage  BY TurnAssumption
<1>2. QED  BY <1>1 DEF Returns, Turns, Points, Closed

LEMMA FailsOf ==
    ASSUME NEW u \in Turns
    PROVE  /\ Fails(u) \in Turns /\ Fails(u).at = "bill" /\ Fails(u).cur = u.cur
           /\ Fails(u).text = u.text /\ Fails(u).out = "failed"
<1>1. "failed" \in {"parked"} \cup Closed /\ NoPark \in Nat  BY DEF Closed, NoPark
<1>2. QED  BY <1>1, ReturnsOf DEF Fails

LEMMA WaitsOf ==
    ASSUME NEW u \in Turns, NEW p \in Points
    PROVE  LET r == Waits(u, p)
           IN  /\ r \in Turns /\ r.cur = u.cur /\ r.text = u.text
               /\ r.at = p \/ (r.at = "bill" /\ r.out = "failed")
<1>1. CASE u.wait < MaxOutage
  <2>1. u.wait + 1 \in 0..MaxOutage  BY <1>1, TurnAssumption DEF Turns
  <2>2. Waits(u, p) = [u EXCEPT !.at = p, !.wait = u.wait + 1]  BY <1>1 DEF Waits
  <2>3. QED  BY <2>1, <2>2 DEF Turns
<1>2. CASE ~(u.wait < MaxOutage)  BY <1>2, FailsOf DEF Waits
<1>3. QED  BY <1>1, <1>2

LEMMA OffTyped ==
    ASSUME NEW p \in Points, NEW ck \in Checkpoints
    PROVE  /\ Off \in Turns /\ Off.at = "off" /\ Off.cur = 0 /\ Off.text = <<>>
           /\ Turn(p, ck) \in Turns /\ Turn(p, ck).at = p
           /\ Turn(p, ck).cur = ck.cur /\ Turn(p, ck).text = ck.text
<1>1. 0 \in 0..MaxOutage /\ <<>> \in Seq(Nat)  BY TurnAssumption
<1>2. Off \in Turns /\ Off.at = "off" /\ Off.cur = 0 /\ Off.text = <<>>
  BY <1>1 DEF Off, Turns, Points, NoPark
<1>3. ck.cur \in Nat /\ ck.text \in Seq(Nat)  BY DEF Checkpoints
<1>4. /\ Turn(p, ck) \in Turns /\ Turn(p, ck).at = p
      /\ Turn(p, ck).cur = ck.cur /\ Turn(p, ck).text = ck.text
  BY <1>1, <1>3 DEF Turn, Off, Turns, Points, NoPark
<1>5. QED  BY <1>2, <1>4

LEMMA EmptyCut == Exactly(<<>>, 0) /\ Empty \in Checkpoints /\ Empty.cur = 0 /\ Empty.text = <<>>
BY DEF Exactly, Empty, Checkpoints, NoPark

-----------------------------------------------------------------------------
(* Shapes of steps                                                         *)

\* A step of the turn that neither bills, records nor ends it.
LEMMA Moves ==
    ASSUME TurnInv, UNCHANGED <<log, gone, meter, torn>>,
           rphase' \in {"absent", "running", "settling", "parked", "over"},
           RunnerSound', AnswerFitsQuestion',
           row' \in Rows, row'.phase = row.phase, row'.total = row.total,
           row'.ck.cur <= Len(log), Exactly(row'.ck.text, row'.ck.cur),
           t' \in Turns, t'.cur <= Len(log), Exactly(t'.text, t'.cur),
           t.at \notin {"off", "record"}, t'.at \notin {"off", "start", "record"},
           t'.at = "bill" => Complete(t)',
           t'.at = "answer" => t'.park = row'.ck.park
    PROVE  TurnInv'
<1>1. Typed'  BY DEF TurnInv, Typed
<1>2. row.phase = "running"  BY DEF TurnInv, CutSound
<1>3. CutSound'  BY <1>2 DEF CutSound, Cut
<1>4. MeterSound'
  <2>1. ~torn => meter = row.total  BY DEF TurnInv, MeterSound
  <2>2. ~torn' => meter' = row'.total  BY <2>1
  <2>3. row'.total <= Work(log', Len(log'))  BY DEF TurnInv, MeterSound
  <2>4. row'.phase # "done"  BY <1>2
  <2>5. QED  BY <2>2, <2>3, <2>4 DEF MeterSound
<1>5. QED  BY <1>1, <1>3, <1>4 DEF TurnInv

\* A step of the attempt: what has happened in it stays.
LEMMA AttemptMoves ==
    ASSUME TurnInv, UNCHANGED <<row, meter, t, answers, torn>>,
           Typed', RunnerSound',
           Len(log) <= Len(log'), \A i \in 1..Len(log) : log'[i] = log[i],
           rphase = "over" => UNCHANGED <<log, rphase>>,
           rphase = "absent" => rphase' = "absent"
    PROVE  TurnInv'
<1>1. Len(log) \in Nat /\ Len(log') \in Nat /\ t.cur \in Nat /\ row.ck.cur \in Nat
      /\ row.total \in Nat
  BY DEF TurnInv, Typed, Turns, Rows, Checkpoints
<1>2. Cut(t) /\ Cut(row.ck)  BY DEF TurnInv, CutSound
<1>3. Cut(t)' /\ Cut(row.ck)'  BY <1>1, <1>2 DEF Cut
<1>4. t.at \in {"bill", "record"} => Complete(t)'
  <2>1. SUFFICES ASSUME t.at \in {"bill", "record"} PROVE Complete(t)'  OBVIOUS
  <2>2. Complete(t)  BY <2>1 DEF TurnInv, CutSound
  <2>3. t.cur > 0 => log'[t.cur] = log[t.cur]  BY <1>1, <1>2 DEF Cut
  <2>4. QED  BY <2>2, <2>3 DEF Complete
<1>5. CutSound'  BY <1>3, <1>4 DEF TurnInv, CutSound, AnswerFitsQuestion
<1>6. Work(log', t.cur) = Work(log, t.cur)
  <2>1. \A i \in 1..t.cur : log'[i] = log[i]  BY <1>1, <1>2 DEF Cut
  <2>2. QED  BY <1>1, <2>1, WorkSame
<1>7. row.total <= Work(log', Len(log'))
  <2>1. Work(log', Len(log)) = Work(log, Len(log))  BY <1>1, WorkSame
  <2>2. Work(log', Len(log)) <= Work(log', Len(log'))  BY <1>1, WorkGrows
  <2>3. row.total <= Work(log, Len(log))  BY DEF TurnInv, MeterSound
  <2>4. Work(log', Len(log')) \in Nat /\ Work(log, Len(log)) \in Nat  BY <1>1, WorkType
  <2>5. QED  BY <1>1, <2>1, <2>2, <2>3, <2>4
<1>8. MeterSound'
  <2>1. ~torn' => meter' = IF t'.at = "record" THEN Larger(Work(log', t'.cur), row'.total)
                           ELSE row'.total
    BY <1>6 DEF TurnInv, MeterSound
  <2>2. row'.phase = "done" => rphase' = "over" /\ row'.total = Work(log', Len(log'))
    BY DEF TurnInv, MeterSound
  <2>3. QED  BY <1>7, <2>1, <2>2 DEF MeterSound
<1>9. QED  BY <1>5, <1>8 DEF TurnInv

\* A turn ends, and the row is left or written.
LEMMA TurnEnds ==
    ASSUME TurnInv, UNCHANGED answers, t' = Off, Typed', RunnerSound',
           row'.ck.cur <= Len(log'), Exactly(row'.ck.text, row'.ck.cur),
           ~torn' => meter' = row'.total,
           row'.total <= Work(log', Len(log')),
           row'.phase = "done" => rphase' = "over" /\ row'.total = Work(log', Len(log'))
    PROVE  TurnInv'
<1>1. t'.at = "off" /\ t'.cur = 0 /\ t'.text = <<>>  BY DEF Off
<1>2. Len(log') \in Nat  BY DEF Typed
<1>3. Cut(t)'  BY <1>1, <1>2, EmptyCut DEF Cut
<1>4. AnswerFitsQuestion'  BY DEF TurnInv, CutSound, AnswerFitsQuestion
<1>5. CutSound'  BY <1>1, <1>3, <1>4 DEF CutSound, Cut
<1>6. MeterSound'  BY <1>1 DEF MeterSound
<1>7. QED  BY <1>5, <1>6 DEF TurnInv

\* A step that only moves the turn to another point, without an answer.
LEMMA TurnMoves ==
    ASSUME TurnInv, UNCHANGED <<log, rphase, gone, row, meter, answers, torn>>,
           t' \in Turns, t'.cur = t.cur, t'.text = t.text,
           t.at \notin {"off", "record"}, t'.at \notin {"off", "start", "record", "answer"},
           t'.at = "bill" => t'.out \in {"failed", "aborted"}
    PROVE  TurnInv'
<1>1. row \in Rows /\ rphase \in {"absent", "running", "settling", "parked", "over"}
  BY DEF TurnInv, Typed
<1>2. RunnerSound'  BY DEF TurnInv, RunnerSound
<1>3. AnswerFitsQuestion'  BY DEF TurnInv, CutSound, AnswerFitsQuestion
<1>4. t'.at = "bill" => Complete(t)'  BY DEF Complete
<1>5. Cut(t) /\ Cut(row.ck)  BY DEF TurnInv, CutSound
<1>6. QED  BY <1>1, <1>2, <1>3, <1>4, <1>5, Moves DEF Cut

\* The row after a checkpoint was offered to it.
LEMMA RowSaved ==
    ASSUME TurnInv, NEW u, u.cur \in Nat, u.text \in Seq(Nat), u.cur <= Len(log),
           Exactly(u.text, u.cur), NEW r \in Recorded(row, u)
    PROVE  /\ r \in Rows /\ r.phase = row.phase /\ r.total = row.total
           /\ r.ck.cur <= Len(log) /\ Exactly(r.ck.text, r.ck.cur)
<1>1. row \in Rows /\ Cut(row.ck)  BY DEF TurnInv, Typed, CutSound
<1>2. CASE r = row  BY <1>1, <1>2 DEF Cut
<1>3. CASE r # row
  <2> DEFINE ck == [cur |-> u.cur, text |-> u.text, park |-> NoPark]
  <2>1. r = [row EXCEPT !.ck = ck]  BY <1>3 DEF Recorded
  <2>2. ck \in Checkpoints /\ ck.cur = u.cur /\ ck.text = u.text
    BY DEF Checkpoints, NoPark
  <2> HIDE DEF ck
  <2>3. /\ r \in Rows /\ r.phase = row.phase /\ r.total = row.total /\ r.ck = ck
    BY <1>1, <2>1, <2>2 DEF Rows
  <2>4. QED  BY <2>2, <2>3
<1>4. QED  BY <1>2, <1>3

-----------------------------------------------------------------------------
(* Every action preserves the invariant                                    *)

LEMMA TurnInit == ASSUME Init PROVE TurnInv
<1>1. Len(log) = 0 /\ log = <<>> /\ log \in Seq(Kinds)  BY DEF Init
<1>2. t = Turn("start", Empty)  BY DEF Init
<1>3. "start" \in Points  BY DEF Points
<1>4. /\ t \in Turns /\ t.at = "start" /\ t.cur = 0 /\ t.text = <<>>
  BY <1>2, <1>3, OffTyped, EmptyCut
<1>5. row = [phase |-> "running", ck |-> Empty, total |-> 0, cancel |-> FALSE, tries |-> 0]
  BY DEF Init
<1>6. 0 \in 0..MaxRecovery /\ 0 <= MaxEvents  BY TurnAssumption
<1>7. row \in Rows /\ row.phase = "running" /\ row.ck = Empty /\ row.total = 0
  BY <1>5, <1>6, EmptyCut DEF Rows
<1>8. rphase = "absent" /\ gone = 0 /\ meter = 0 /\ answers = {} /\ torn = FALSE
  BY DEF Init
<1>9. Typed
  <2>1. log \in Seq(Kinds) /\ Len(log) <= MaxEvents /\ gone \in 0..Len(log)
    BY <1>1, <1>6, <1>8
  <2>2. torn \in BOOLEAN /\ meter \in Nat
        /\ rphase \in {"absent", "running", "settling", "parked", "over"}
    BY <1>8
  <2>3. QED  BY <1>4, <1>7, <2>1, <2>2, Zenon DEF Typed
<1>10. RunnerSound  BY <1>1, <1>8 DEF RunnerSound
<1>11. Cut(t) /\ Cut(row.ck)  BY <1>1, <1>4, <1>7, EmptyCut DEF Cut
<1>12. CutSound  BY <1>4, <1>7, <1>8, <1>11 DEF CutSound, AnswerFitsQuestion
<1>13. Work(log, Len(log)) \in Nat  BY <1>1, WorkType
<1>14. MeterSound  BY <1>4, <1>7, <1>8, <1>13 DEF MeterSound
<1>15. QED  BY <1>9, <1>10, <1>12, <1>14 DEF TurnInv

\* The runner.
LEMMA RunnerKeeps ==
    ASSUME TurnInv, (\E k \in Kinds : Emit(k)) \/ Settle \/ MovesOn \/ Drop
    PROVE  TurnInv'
<1>1. /\ log \in Seq(Kinds) /\ Len(log) \in Nat /\ Len(log) <= MaxEvents /\ gone \in 0..Len(log)
      /\ rphase \in {"absent", "running", "settling", "parked", "over"}
      /\ t \in Turns /\ row \in Rows /\ meter \in Nat /\ torn \in BOOLEAN /\ MaxEvents \in Nat
  BY TurnAssumption DEF TurnInv, Typed
<1>2. RunnerSound  BY DEF TurnInv
<1>3. ASSUME NEW k \in Kinds, Emit(k) PROVE TurnInv'
  <2>1. /\ rphase = "running" /\ log' = Append(log, k) /\ Len(log) < MaxEvents
        /\ Len(log) = MaxEvents - 1 => k = "end"
        /\ rphase' = IF k \in {"park", "end"} THEN "settling" ELSE "running"
        /\ UNCHANGED <<gone, row, meter, t, answers, torn>>
    BY <1>3 DEF Emit
  <2>2. /\ log' \in Seq(Kinds) /\ Len(log') = Len(log) + 1 /\ log'[Len(log')] = k
        /\ \A i \in 1..Len(log) : log'[i] = log[i]
    BY <1>1, <2>1
  <2>3. Typed'  BY <1>1, <2>1, <2>2 DEF Typed
  <2>4. RunnerSound'
    <3>1. CASE k \in {"park", "end"}
      <4>1. rphase' = "settling" /\ Len(log') > 0  BY <1>1, <2>1, <2>2, <3>1
      <4>2. k = "park" => Len(log') < MaxEvents  BY <1>1, <2>1, <2>2
      <4>3. QED  BY <2>2, <3>1, <4>1, <4>2 DEF RunnerSound
    <3>2. CASE k \notin {"park", "end"}  BY <2>1, <3>2 DEF RunnerSound
    <3>3. QED  BY <3>1, <3>2
  <2>5. Len(log) <= Len(log')  BY <1>1, <2>2
  <2>6. QED  BY <2>1, <2>2, <2>3, <2>4, <2>5, AttemptMoves
<1>4. CASE Settle
  <2>1. /\ rphase = "settling" /\ UNCHANGED <<log, gone, row, meter, t, answers, torn>>
        /\ rphase' = IF log[Len(log)] = "park" THEN "parked" ELSE "over"
    BY <1>4 DEF Settle, Last
  <2>2. Typed'  BY <1>1, <2>1 DEF Typed
  <2>3. RunnerSound'  BY <1>2, <2>1 DEF RunnerSound
  <2>4. QED  BY <1>1, <2>1, <2>2, <2>3, AttemptMoves
<1>5. CASE MovesOn
  <2>1. /\ rphase = "parked" /\ UNCHANGED <<log, gone, row, meter, t, answers, torn>>
        /\ rphase' = "running"
    BY <1>5 DEF MovesOn
  <2>2. Typed'  BY <1>1, <2>1 DEF Typed
  <2>3. RunnerSound'  BY <1>2, <2>1 DEF RunnerSound
  <2>4. QED  BY <1>1, <2>1, <2>2, <2>3, AttemptMoves
<1>6. CASE Drop
  <2>1. /\ gone' = gone + 1 /\ gone + 1 < Len(log)
        /\ UNCHANGED <<log, rphase, row, meter, t, answers, torn>>
    BY <1>6 DEF Drop
  <2>2. Typed'  BY <1>1, <2>1 DEF Typed
  <2>3. RunnerSound'  BY <1>2, <2>1 DEF RunnerSound
  <2>4. QED  BY <1>1, <2>1, <2>2, <2>3, AttemptMoves
<1>7. QED  BY <1>3, <1>4, <1>5, <1>6

\* The turn moves, by any of the follower's steps that leave the row alone.
LEMMA FollowerKeeps ==
    ASSUME TurnInv, Open \/ Abort \/ Reconcile \/ Rejoin
    PROVE  TurnInv'
<1>1. t \in Turns /\ MaxOutage \in Nat /\ 0 \in 0..MaxOutage
  BY TurnAssumption DEF TurnInv, Typed
<1>2. /\ Fails(t) \in Turns /\ Fails(t).at = "bill" /\ Fails(t).cur = t.cur
      /\ Fails(t).text = t.text /\ Fails(t).out = "failed"
  BY <1>1, FailsOf
<1>3. CASE Open
  <2>1. t.at = "open" /\ UNCHANGED <<log, rphase, gone, row, meter, answers, torn>>
    BY <1>3 DEF Open
  <2>2. CASE t' = [t EXCEPT !.at = "reconcile"]
    <3>1. t' \in Turns /\ t'.cur = t.cur /\ t'.text = t.text /\ t'.at = "reconcile"
      BY <1>1, <2>2 DEF Turns, Points
    <3>2. QED  BY <2>1, <3>1, TurnMoves
  <2>3. CASE t' = [t EXCEPT !.at = "drain"]
    <3>1. t' \in Turns /\ t'.cur = t.cur /\ t'.text = t.text /\ t'.at = "drain"
      BY <1>1, <2>3 DEF Turns, Points
    <3>2. QED  BY <2>1, <3>1, TurnMoves
  <2>4. CASE t' = Waits(t, "open")
    <3>1. "open" \in Points  BY DEF Points
    <3>2. /\ t' \in Turns /\ t'.cur = t.cur /\ t'.text = t.text
          /\ t'.at = "open" \/ (t'.at = "bill" /\ t'.out = "failed")
      BY <1>1, <2>4, <3>1, WaitsOf
    <3>3. QED  BY <2>1, <3>2, TurnMoves
  <2>5. CASE t' = Fails(t)  BY <1>2, <2>1, <2>5, TurnMoves
  <2>6. QED  BY <1>3, <2>2, <2>3, <2>4, <2>5 DEF Open
<1>4. CASE Abort
  <2>1. /\ t.at = "open" /\ UNCHANGED <<log, rphase, gone, row, meter, answers, torn>>
        /\ t' = Returns(t, "aborted", NoPark)
    BY <1>4 DEF Abort
  <2>2. "aborted" \in {"parked"} \cup Closed /\ NoPark \in Nat  BY DEF Closed, NoPark
  <2>3. /\ t' \in Turns /\ t'.at = "bill" /\ t'.cur = t.cur /\ t'.text = t.text
        /\ t'.out = "aborted"
    BY <1>1, <2>1, <2>2, ReturnsOf
  <2>4. QED  BY <2>1, <2>3, TurnMoves
<1>5. CASE Reconcile
  <2>1. /\ t.at = "reconcile" /\ UNCHANGED <<log, rphase, gone, row, meter, answers, torn>>
        /\ t' = Fails(t)
    BY <1>5 DEF Reconcile
  <2>2. QED  BY <1>2, <2>1, TurnMoves
<1>6. CASE Rejoin
  <2>1. t.at = "rejoin" /\ UNCHANGED <<log, rphase, gone, row, meter, answers, torn>>
    BY <1>6 DEF Rejoin
  <2>2. CASE t' = [t EXCEPT !.at = "open", !.wait = 0]
    <3>1. t' \in Turns /\ t'.cur = t.cur /\ t'.text = t.text /\ t'.at = "open"
      BY <1>1, <2>2 DEF Turns, Points
    <3>2. QED  BY <2>1, <3>1, TurnMoves
  <2>3. CASE t' = Waits(t, "rejoin")
    <3>1. "rejoin" \in Points  BY DEF Points
    <3>2. /\ t' \in Turns /\ t'.cur = t.cur /\ t'.text = t.text
          /\ t'.at = "rejoin" \/ (t'.at = "bill" /\ t'.out = "failed")
      BY <1>1, <2>3, <3>1, WaitsOf
    <3>3. QED  BY <2>1, <3>2, TurnMoves
  <2>4. CASE t' = Fails(t)  BY <1>2, <2>1, <2>4, TurnMoves
  <2>5. QED  BY <1>6, <2>2, <2>3, <2>4 DEF Rejoin
<1>7. QED  BY <1>3, <1>4, <1>5, <1>6

\* The steps of drain: an event is consumed, or the stream ends, and the row may
\* take a checkpoint of the turn.
LEMMA DrainKeeps ==
    ASSUME TurnInv, Drain \/ Quiet \/ DrainFails
    PROVE  TurnInv'
<1>1. /\ t \in Turns /\ row \in Rows /\ MaxOutage \in Nat /\ 0 \in 0..MaxOutage
      /\ t.cur \in Nat /\ t.text \in Seq(Nat) /\ Len(log) \in Nat
      /\ rphase \in {"absent", "running", "settling", "parked", "over"}
  BY TurnAssumption DEF TurnInv, Typed, Turns
<1>2. /\ t.cur <= Len(log) /\ Exactly(t.text, t.cur)
      /\ row.ck.cur <= Len(log) /\ Exactly(row.ck.text, row.ck.cur)
  BY DEF TurnInv, CutSound, Cut
<1>3. /\ t.at = "drain" /\ UNCHANGED <<log, rphase, gone, meter, answers, torn>>
  BY DEF Drain, Quiet, DrainFails
<1>4. RunnerSound' /\ AnswerFitsQuestion'
  BY <1>3 DEF TurnInv, RunnerSound, CutSound, AnswerFitsQuestion
<1>5. ASSUME row' = row \/ row' \in Recorded(row, t)
      PROVE  /\ row' \in Rows /\ row'.phase = row.phase /\ row'.total = row.total
             /\ row'.ck.cur <= Len(log) /\ Exactly(row'.ck.text, row'.ck.cur)
  BY <1>1, <1>2, <1>5, RowSaved
<1>6. ASSUME row' = row \/ row' \in Recorded(row, t), t' \in Turns,
             t'.cur = t.cur, t'.text = t.text, t'.at \in {"open", "inspect", "bill"},
             t'.at = "bill" => t'.out = "failed"
      PROVE  TurnInv'
  <2>1. t'.at = "bill" => Complete(t)'  BY <1>6 DEF Complete
  <2>2. t'.at \notin {"off", "start", "record", "answer"}  BY <1>6
  <2>3. QED  BY <1>1, <1>2, <1>3, <1>4, <1>5, <1>6, <2>1, <2>2, Moves
<1>7. CASE Drain
  <2> DEFINE k == log[t.cur + 1]
             u == Observed(t)
  <2>1. t.cur < Len(log)  BY <1>7 DEF Drain
  <2>2. /\ Append(t.text, t.cur + 1) \in Seq(Nat)
        /\ Exactly(Append(t.text, t.cur + 1), t.cur + 1)
    BY <1>1, <1>2, CutGrows
  <2>3. /\ u \in Turns /\ u.cur = t.cur + 1 /\ u.text = Append(t.text, t.cur + 1)
        /\ u.at = "drain"
    <3> DEFINE c == t.cur + 1
               x == Append(t.text, t.cur + 1)
    <3>1. u = [t EXCEPT !.cur = c, !.text = x, !.moved = TRUE]  BY DEF Observed
    <3>2. c \in Nat /\ x \in Seq(Nat)  BY <1>1, <2>2
    <3> HIDE DEF c, x, u
    <3>3. u \in Turns /\ u.cur = c /\ u.text = x /\ u.at = "drain"
      BY <1>1, <1>3, <3>1, <3>2 DEF Turns
    <3>4. QED  BY <3>3 DEF c, x
  <2>4. /\ t' = IF k \in {"park", "end"}
                THEN [u EXCEPT !.at = "inspect", !.caught = FALSE, !.wait = 0, !.moved = FALSE]
                ELSE u
        /\ row' \in IF k = "mark" THEN Recorded(row, u) ELSE {row}
    BY <1>7 DEF Drain
  <2> HIDE DEF u, k
  <2>5. /\ t' \in Turns /\ t'.cur = u.cur /\ t'.text = u.text /\ t'.at \in {"drain", "inspect"}
    BY <1>1, <2>3, <2>4 DEF Turns, Points
  <2>6. u.cur \in Nat /\ u.text \in Seq(Nat) /\ u.cur <= Len(log) /\ Exactly(u.text, u.cur)
    BY <1>1, <2>1, <2>2, <2>3
  <2>7. /\ row' \in Rows /\ row'.phase = row.phase /\ row'.total = row.total
        /\ row'.ck.cur <= Len(log) /\ Exactly(row'.ck.text, row'.ck.cur)
    BY <1>1, <1>2, <2>4, <2>6, RowSaved
  <2>8. QED  BY <1>1, <1>3, <1>4, <2>5, <2>6, <2>7, Moves
<1>8. CASE Quiet
  <2> DEFINE b == t.caught /\ ~t.moved
  <2>1. b \in BOOLEAN  OBVIOUS
  <2>2. t' = [t EXCEPT !.at = "inspect", !.caught = b, !.wait = 0, !.moved = FALSE]
    BY <1>8 DEF Quiet
  <2> HIDE DEF b
  <2>3. t' \in Turns /\ t'.cur = t.cur /\ t'.text = t.text /\ t'.at = "inspect"
    BY <1>1, <2>1, <2>2 DEF Turns, Points
  <2>4. row' \in Recorded(row, t)  BY <1>8 DEF Quiet
  <2>5. QED  BY <1>6, <2>3, <2>4
<1>9. CASE DrainFails
  <2>1. CASE t' = Fails(t) /\ UNCHANGED row
    <3>1. /\ t' \in Turns /\ t'.at = "bill" /\ t'.cur = t.cur /\ t'.text = t.text
          /\ t'.out = "failed"
      BY <1>1, <2>1, FailsOf
    <3>2. QED  BY <1>6, <2>1, <3>1
  <2>2. CASE ~(t' = Fails(t) /\ UNCHANGED row)
    <3> DEFINE b == t.caught /\ ~t.moved
               w == IF t.moved THEN 0 ELSE t.wait
               u == [t EXCEPT !.wait = w, !.caught = b, !.moved = FALSE]
    <3>1. b \in BOOLEAN  OBVIOUS
    <3>2. w \in 0..MaxOutage  BY <1>1 DEF Turns
    <3>3. t' = Waits(u, "open") /\ row' \in IF u.wait = 0 THEN Recorded(row, t) ELSE {row}
      BY <1>9, <2>2 DEF DrainFails
    <3> HIDE DEF b, w
    <3>4. u \in Turns /\ u.cur = t.cur /\ u.text = t.text
      BY <1>1, <3>1, <3>2 DEF Turns
    <3> HIDE DEF u
    <3>5. "open" \in Points  BY DEF Points
    <3>6. /\ t' \in Turns /\ t'.cur = t.cur /\ t'.text = t.text
          /\ t'.at = "open" \/ (t'.at = "bill" /\ t'.out = "failed")
      BY <3>3, <3>4, <3>5, WaitsOf
    <3>7. row' = row \/ row' \in Recorded(row, t)  BY <3>3
    <3>8. QED  BY <1>6, <3>6, <3>7
  <2>3. QED  BY <2>1, <2>2
<1>10. QED  BY <1>7, <1>8, <1>9

\* The receipt decides: a turn returns a park or an answer only when it has
\* consumed every event the receipt speaks of.
LEMMA InspectKeeps == ASSUME TurnInv, Inspect PROVE TurnInv'
<1>1. /\ t \in Turns /\ row \in Rows /\ MaxOutage \in Nat /\ 0 \in 0..MaxOutage
      /\ t.cur \in Nat /\ t.text \in Seq(Nat) /\ Len(log) \in Nat
      /\ rphase \in {"absent", "running", "settling", "parked", "over"}
  BY TurnAssumption DEF TurnInv, Typed, Turns
<1>2. /\ t.cur <= Len(log) /\ Exactly(t.text, t.cur)
      /\ row.ck.cur <= Len(log) /\ Exactly(row.ck.text, row.ck.cur)
  BY DEF TurnInv, CutSound, Cut
<1>3. /\ t.at = "inspect" /\ UNCHANGED <<log, rphase, gone, row, meter, answers, torn>>
      /\ t' \in {Concluded(t, Receipt), Waits(t, "inspect"), Fails(t)}
  BY DEF Inspect
<1>4. CASE t' = Fails(t)
  <2>1. /\ t' \in Turns /\ t'.at = "bill" /\ t'.cur = t.cur /\ t'.text = t.text
        /\ t'.out = "failed"
    BY <1>1, <1>4, FailsOf
  <2>2. QED  BY <1>3, <2>1, TurnMoves
<1>5. CASE t' = Waits(t, "inspect")
  <2>1. "inspect" \in Points  BY DEF Points
  <2>2. /\ t' \in Turns /\ t'.cur = t.cur /\ t'.text = t.text
        /\ t'.at = "inspect" \/ (t'.at = "bill" /\ t'.out = "failed")
    BY <1>1, <1>5, <2>1, WaitsOf
  <2>3. QED  BY <1>3, <2>2, TurnMoves
<1>6. CASE t' = Concluded(t, Receipt) /\ t' # Fails(t)
  <2>1. /\ Receipt.phase = IF rphase = "settling" THEN "running" ELSE rphase
        /\ Receipt.cur = Len(log)
        /\ Receipt.park = IF rphase = "parked" THEN Len(log) ELSE NoPark
    BY DEF Receipt
  <2>2. CASE \/ t' = [t EXCEPT !.at = "open", !.wait = 0]
             \/ t' = [t EXCEPT !.at = "open", !.caught = TRUE, !.wait = 0]
    <3>1. t' \in Turns /\ t'.cur = t.cur /\ t'.text = t.text /\ t'.at = "open"
      BY <1>1, <2>2 DEF Turns, Points
    <3>2. QED  BY <1>3, <3>1, TurnMoves
  <2>3. CASE ~(\/ t' = [t EXCEPT !.at = "open", !.wait = 0]
               \/ t' = [t EXCEPT !.at = "open", !.caught = TRUE, !.wait = 0])
    <3> DEFINE o == IF Receipt.phase = "parked" THEN "parked" ELSE "done"
    <3>1. /\ Receipt.phase \in {"parked", "over"} /\ ~(Receipt.cur > t.cur)
          /\ t' = Returns(t, o, Receipt.park)
      BY <1>6, <2>3 DEF Concluded
    <3>2. t.cur = Len(log) /\ rphase \in {"parked", "over"}
      BY <1>1, <1>2, <2>1, <3>1
    <3>3. Receipt.park \in Nat /\ o \in {"parked"} \cup Closed
      BY <1>1, <2>1 DEF Closed, NoPark
    <3>4. /\ t' \in Turns /\ t'.at = "bill" /\ t'.cur = t.cur /\ t'.text = t.text
          /\ t'.out = o /\ t'.park = Receipt.park
      <4> DEFINE q == Receipt.park
      <4>1. t' = Returns(t, o, q) /\ q \in Nat /\ o \in {"parked"} \cup Closed
        BY <3>1, <3>3
      <4> HIDE DEF o, q
      <4>2. /\ t' \in Turns /\ t'.at = "bill" /\ t'.cur = t.cur /\ t'.text = t.text
            /\ t'.out = o /\ t'.park = q
        BY <1>1, <4>1 DEF Returns, Turns, Points, Closed
      <4>3. QED  BY <4>2 DEF q
    <3>5. Complete(t)'
      <4>1. CASE rphase = "parked"
        <5>1. o = "parked" /\ Receipt.park = Len(log)  BY <2>1, <4>1
        <5>2. Len(log) > 0 /\ log[Len(log)] = "park"  BY <4>1 DEF TurnInv, RunnerSound
        <5>3. QED  BY <1>3, <3>2, <3>4, <5>1, <5>2 DEF Complete
      <4>2. CASE rphase = "over"
        <5>1. o = "done"  BY <2>1, <4>2
        <5>2. QED  BY <1>3, <3>2, <3>4, <4>2, <5>1 DEF Complete
      <4>3. QED  BY <3>2, <4>1, <4>2
    <3>6. RunnerSound' /\ AnswerFitsQuestion'
      BY <1>3 DEF TurnInv, RunnerSound, CutSound, AnswerFitsQuestion
    <3> HIDE DEF o
    <3>7. QED  BY <1>1, <1>2, <1>3, <3>4, <3>5, <3>6, Moves
  <2>4. QED  BY <2>2, <2>3
<1>7. QED  BY <1>3, <1>4, <1>5, <1>6

\* The steps of the backend that change the runner or what it is told.
LEMMA BackendKeeps == ASSUME TurnInv, Start \/ Asked \/ Answer PROVE TurnInv'
<1>1. /\ t \in Turns /\ row \in Rows /\ MaxOutage \in Nat /\ 0 \in 0..MaxOutage
      /\ t.cur \in Nat /\ t.text \in Seq(Nat) /\ Len(log) \in Nat
      /\ rphase \in {"absent", "running", "settling", "parked", "over"}
  BY TurnAssumption DEF TurnInv, Typed, Turns
<1>2. /\ t.cur <= Len(log) /\ Exactly(t.text, t.cur)
      /\ row.ck.cur <= Len(log) /\ Exactly(row.ck.text, row.ck.cur)
  BY DEF TurnInv, CutSound, Cut
<1>3. RunnerSound /\ AnswerFitsQuestion  BY DEF TurnInv, CutSound
<1>4. /\ Fails(t) \in Turns /\ Fails(t).at = "bill" /\ Fails(t).cur = t.cur
      /\ Fails(t).text = t.text /\ Fails(t).out = "failed"
  BY <1>1, FailsOf
<1>5. t'.at = "bill" /\ t'.out = "failed" => Complete(t)'  BY DEF Complete
<1>6. CASE Start
  <2>1. /\ t.at = "start" /\ UNCHANGED <<log, gone, row, meter, answers, torn>>
        /\ rphase' = "running" \/ rphase' = rphase
        /\ t' = [t EXCEPT !.at = "open"] \/ t' = Fails(t)
    BY <1>6 DEF Start
  <2>2. [t EXCEPT !.at = "open"] \in Turns  BY <1>1 DEF Turns, Points
  <2>3. /\ t' \in Turns /\ t'.cur = t.cur /\ t'.text = t.text
        /\ t'.at = "open" \/ (t'.at = "bill" /\ t'.out = "failed")
    BY <1>1, <1>4, <2>1, <2>2 DEF Turns
  <2>4. RunnerSound' /\ AnswerFitsQuestion'
    BY <1>3, <2>1 DEF RunnerSound, AnswerFitsQuestion
  <2>5. rphase' \in {"absent", "running", "settling", "parked", "over"}
    BY <1>1, <2>1
  <2>6. t'.at \notin {"off", "start", "record", "answer"}  BY <2>3
  <2>7. t'.at = "bill" => Complete(t)'  BY <1>5, <2>3
  <2>8. QED  BY <1>1, <1>2, <2>1, <2>3, <2>4, <2>5, <2>6, <2>7, Moves
<1>7. CASE Asked
  <2>1. t.at = "asked" /\ UNCHANGED <<log, rphase, gone, row, meter, answers, torn>>
    BY <1>7 DEF Asked
  <2>2. CASE t' = Fails(t)  BY <1>4, <2>1, <2>2, TurnMoves
  <2>3. CASE t' = [t EXCEPT !.at = "rejoin"]
    <3>1. t' \in Turns /\ t'.cur = t.cur /\ t'.text = t.text /\ t'.at = "rejoin"
      BY <1>1, <2>3 DEF Turns, Points
    <3>2. QED  BY <2>1, <3>1, TurnMoves
  <2>4. CASE t' # Fails(t) /\ t' # [t EXCEPT !.at = "rejoin"]
    <3>1. row.ck.park = Receipt.park /\ t' = [t EXCEPT !.at = "answer", !.park = Receipt.park]
      BY <1>7, <2>4 DEF Asked, DifferentPark
    <3>2. Receipt.park \in Nat  BY <1>1 DEF Receipt, NoPark
    <3>3. /\ t' \in Turns /\ t'.cur = t.cur /\ t'.text = t.text /\ t'.at = "answer"
          /\ t'.park = row.ck.park
      BY <1>1, <3>1, <3>2 DEF Turns, Points
    <3>4. RunnerSound' /\ AnswerFitsQuestion'
      BY <1>3, <2>1 DEF RunnerSound, AnswerFitsQuestion
    <3>5. QED  BY <1>1, <1>2, <2>1, <3>3, <3>4, Moves
  <2>5. QED  BY <2>2, <2>3, <2>4
<1>8. CASE Answer
  <2>1. t.at = "answer" /\ UNCHANGED <<log, gone, row, meter, torn>>  BY <1>8 DEF Answer
  <2>2. t.park = row.ck.park  BY <2>1 DEF TurnInv, CutSound
  <2>3. \/ /\ rphase' = "running" /\ answers' = answers \cup {<<row.ck.park, t.park>>}
           /\ t' \in {[t EXCEPT !.at = "open", !.park = NoPark], Fails(t)}
        \/ t' = Fails(t) /\ UNCHANGED <<rphase, answers>>
    BY <1>8 DEF Answer
  <2>4. AnswerFitsQuestion'  BY <1>3, <2>2, <2>3 DEF AnswerFitsQuestion
  <2>5. RunnerSound'  BY <1>3, <2>1, <2>3 DEF RunnerSound
  <2>6. [t EXCEPT !.at = "open", !.park = NoPark] \in Turns
    BY <1>1 DEF Turns, Points, NoPark
  <2>7. /\ t' \in Turns /\ t'.cur = t.cur /\ t'.text = t.text
        /\ t'.at = "open" \/ (t'.at = "bill" /\ t'.out = "failed")
    BY <1>1, <1>4, <2>3, <2>6 DEF Turns
  <2>8. rphase' \in {"absent", "running", "settling", "parked", "over"}
    BY <1>1, <2>3
  <2>9. t'.at \notin {"off", "start", "record", "answer"}  BY <2>7
  <2>10. t'.at = "bill" => Complete(t)'  BY <1>5, <2>7
  <2>11. QED  BY <1>1, <1>2, <2>1, <2>4, <2>5, <2>7, <2>8, <2>9, <2>10, Moves
<1>9. QED  BY <1>6, <1>7, <1>8

\* Billing: what is added to the account is what the row does not have yet.
LEMMA BillKeeps == ASSUME TurnInv, Bill PROVE TurnInv'
<1> DEFINE w == Work(log, t.cur)
           d == Unbilled(t.text, row)
<1>1. /\ t \in Turns /\ row \in Rows /\ row.total \in Nat /\ meter \in Nat /\ torn \in BOOLEAN
      /\ t.at = "bill" /\ t' = [t EXCEPT !.at = "record"]
      /\ UNCHANGED <<log, rphase, gone, row, answers>>
  BY DEF TurnInv, Typed, Rows, Bill
<1>2. /\ w \in Nat /\ d = IF w >= row.total THEN w - row.total ELSE 0
  BY BillIs
<1>3. \/ meter' = meter + d /\ torn' = torn
      \/ meter' = meter /\ torn' = (torn \/ d > 0)
  BY DEF Bill
<1>4. ~torn => meter = row.total  BY <1>1 DEF TurnInv, MeterSound
<1>5. /\ t' \in Turns /\ t'.at = "record" /\ t'.cur = t.cur /\ t'.text = t.text
      /\ t'.out = t.out /\ t'.park = t.park
  BY <1>1 DEF Turns, Points
<1> HIDE DEF w, d
<1>6. meter' \in Nat  BY <1>1, <1>2, <1>3
<1>7. torn' \in BOOLEAN  BY <1>1, <1>3
<1>8. Typed'  BY <1>1, <1>5, <1>6, <1>7 DEF TurnInv, Typed
<1>9. RunnerSound'  BY <1>1 DEF TurnInv, RunnerSound
<1>10. CutSound'
  <2>1. Cut(t) /\ Cut(row.ck) /\ row.phase = "running" /\ Complete(t) /\ AnswerFitsQuestion
    BY <1>1 DEF TurnInv, CutSound
  <2>2. Cut(t)' /\ Cut(row.ck)' /\ Complete(t)' /\ AnswerFitsQuestion'
    BY <1>1, <1>5, <2>1 DEF Cut, Complete, AnswerFitsQuestion
  <2>3. QED  BY <1>1, <1>5, <2>1, <2>2 DEF CutSound
<1>11. ~torn' => meter' = Larger(w, row.total)
  <2>1. CASE meter' = meter + d /\ torn' = torn
    BY <1>1, <1>2, <1>4, <2>1 DEF Larger
  <2>2. CASE meter' = meter /\ torn' = (torn \/ d > 0)
    <3>1. ~torn' => ~torn /\ ~(d > 0)  BY <2>2
    <3>2. ~(d > 0) => Larger(w, row.total) = row.total  BY <1>1, <1>2 DEF Larger
    <3>3. QED  BY <1>4, <2>2, <3>1, <3>2
  <2>3. QED  BY <1>3, <2>1, <2>2
<1>12. MeterSound'
  <2>1. ~torn' => meter' = IF t'.at = "record" THEN Larger(Work(log', t'.cur), row'.total)
                           ELSE row'.total
    BY <1>1, <1>5, <1>11 DEF w
  <2>2. /\ row'.total <= Work(log', Len(log'))
        /\ row'.phase = "done" => rphase' = "over" /\ row'.total = Work(log', Len(log'))
    BY <1>1 DEF TurnInv, MeterSound
  <2>3. QED  BY <2>1, <2>2 DEF MeterSound
<1>13. QED  BY <1>8, <1>9, <1>10, <1>12 DEF TurnInv

\* The row of the turn's end is written, or is not.
LEMMA RecordKeeps ==
    ASSUME TurnInv, Record \/ ParkFails \/ FinishLost PROVE TurnInv'
<1> DEFINE w == Work(log, t.cur)
           m == Larger(w, row.total)
           d == Unbilled(t.text, row)
<1>1. /\ log \in Seq(Kinds) /\ Len(log) \in Nat /\ Len(log) <= MaxEvents /\ gone \in 0..Len(log)
      /\ rphase \in {"absent", "running", "settling", "parked", "over"}
      /\ t \in Turns /\ row \in Rows /\ meter \in Nat /\ torn \in BOOLEAN /\ MaxEvents \in Nat
      /\ t.cur \in Nat /\ t.text \in Seq(Nat) /\ t.park \in Nat /\ row.total \in Nat
      /\ t.out \in {"none", "parked"} \cup Closed
  BY TurnAssumption DEF TurnInv, Typed, Turns, Rows
<1>2. /\ w \in Nat /\ w <= Work(log, Len(log)) /\ Total(t.text, row) = m
      /\ d = IF w >= row.total THEN w - row.total ELSE 0
  BY BillIs
<1>3. /\ t.at = "record" /\ t' = Off /\ UNCHANGED <<gone, meter, answers>>
  BY DEF Record, ParkFails, FinishLost
<1>4. /\ ~torn => meter = m
      /\ row.total <= Work(log, Len(log))
  BY <1>3 DEF TurnInv, MeterSound
<1>5. Complete(t) /\ Cut(t) /\ Cut(row.ck) /\ row.phase = "running" /\ RunnerSound
  BY <1>3 DEF TurnInv, CutSound
<1>6. Off \in Turns
  <2>1. "off" \in Points  BY DEF Points
  <2>2. QED  BY <2>1, OffTyped, EmptyCut
<1>7. Work(log, Len(log)) \in Nat  BY <1>1, WorkType
<1>8. m \in Nat /\ m <= Work(log, Len(log)) /\ m >= w /\ m >= row.total
      /\ (IF m > 0 THEN m ELSE row.total) = m
  BY <1>1, <1>2, <1>4, <1>7 DEF Larger
<1>9. t.out = "done" => rphase = "over" /\ m = Work(log, Len(log))
  BY <1>1, <1>2, <1>4, <1>5, <1>7 DEF Complete, Larger
<1> HIDE DEF w, m, d
<1>10. CASE Record
  <2>1. UNCHANGED <<log, rphase, torn>>  BY <1>10 DEF Record
  <2>2. RunnerSound'  BY <1>5, <2>1 DEF RunnerSound
  <2>3. /\ row' \in Rows /\ row'.total = m
        /\ row'.ck.cur <= Len(log) /\ Exactly(row'.ck.text, row'.ck.cur)
        /\ row'.phase = "done" => t.out = "done"
    <3>1. CASE t.out = "parked"
      <4> DEFINE ck == [cur |-> t.cur, text |-> t.text, park |-> t.park]
      <4>1. row' = [row EXCEPT !.phase = "parked", !.total = m, !.ck = ck]
        BY <1>2, <1>10, <3>1 DEF Record
      <4>2. ck \in Checkpoints /\ ck.cur = t.cur /\ ck.text = t.text
        BY <1>1 DEF Checkpoints
      <4> HIDE DEF ck
      <4>3. row' \in Rows /\ row'.total = m /\ row'.ck = ck /\ row'.phase = "parked"
        BY <1>1, <1>8, <4>1, <4>2 DEF Rows
      <4>4. QED  BY <1>5, <4>2, <4>3 DEF Cut
    <3>2. CASE t.out # "parked"
      <4>1. row' = Finished(row, t.out, m)  BY <1>2, <1>10, <3>2 DEF Record
      <4>2. t.out \in Closed  BY <1>1, <1>5, <3>2 DEF Complete
      <4>3. /\ row' \in Rows /\ row'.phase = t.out /\ row'.ck = Empty
            /\ row'.total = IF m > 0 THEN m ELSE row.total
        BY <1>1, <1>8, <4>1, <4>2, EmptyCut DEF Finished, Rows
      <4>4. QED  BY <1>1, <1>8, <4>3, EmptyCut
    <3>3. QED  BY <3>1, <3>2
  <2>4. Typed'  BY <1>1, <1>3, <1>6, <2>1, <2>3 DEF Typed
  <2>5. QED  BY <1>3, <1>4, <1>8, <1>9, <2>1, <2>2, <2>3, <2>4, TurnEnds
<1>11. CASE ParkFails
  <2>1. row' = Finished(row, "failed", m) /\ UNCHANGED torn
    BY <1>2, <1>11 DEF ParkFails
  <2>2. /\ row' \in Rows /\ row'.phase = "failed" /\ row'.ck = Empty
        /\ row'.total = IF m > 0 THEN m ELSE row.total
    <3>1. "failed" \in Closed  BY DEF Closed
    <3>2. QED  BY <1>1, <1>8, <2>1, <3>1, EmptyCut DEF Finished, Rows
  <2>3. /\ log' \in Seq(Kinds) /\ Len(log') <= MaxEvents /\ Len(log) <= Len(log')
        /\ \A i \in 1..Len(log) : log'[i] = log[i]
        /\ rphase' \in {"absent", "running", "settling", "parked", "over"}
        /\ RunnerSound'
    <3>1. CASE rphase = "parked" /\ log' = Append(log, "end") /\ rphase' = "over"
      <4>1. Len(log) < MaxEvents  BY <1>5, <3>1 DEF RunnerSound
      <4>2. /\ log' \in Seq(Kinds) /\ Len(log') = Len(log) + 1 /\ log'[Len(log')] = "end"
            /\ \A i \in 1..Len(log) : log'[i] = log[i]
        BY <1>1, <3>1 DEF Kinds
      <4>3. RunnerSound'  BY <1>1, <3>1, <4>2 DEF RunnerSound
      <4>4. QED  BY <1>1, <3>1, <4>1, <4>2, <4>3
    <3>2. CASE UNCHANGED <<log, rphase>>
      <4>1. RunnerSound'  BY <1>5, <3>2 DEF RunnerSound
      <4>2. QED  BY <1>1, <3>2, <4>1
    <3>3. QED  BY <1>11, <3>1, <3>2 DEF ParkFails
  <2>4. Len(log') \in Nat  BY <2>3
  <2>5. gone' \in 0..Len(log')  BY <1>1, <1>3, <2>3, <2>4
  <2>6. Typed'  BY <1>1, <1>3, <1>6, <2>1, <2>2, <2>3, <2>5 DEF Typed
  <2>7. row'.total <= Work(log', Len(log'))
    <3>1. Work(log', Len(log)) = Work(log, Len(log))  BY <1>1, <2>3, WorkSame
    <3>2. Work(log', Len(log)) <= Work(log', Len(log'))  BY <1>1, <2>3, <2>4, WorkGrows
    <3>3. Work(log', Len(log')) \in Nat  BY <2>4, WorkType
    <3>4. QED  BY <1>7, <1>8, <2>2, <3>1, <3>2, <3>3
  <2>8. ~torn' => meter' = row'.total  BY <1>3, <1>4, <1>8, <2>1, <2>2
  <2>9. row'.ck.cur <= Len(log') /\ Exactly(row'.ck.text, row'.ck.cur)
    BY <2>2, <2>4, EmptyCut
  <2>10. QED  BY <1>3, <2>2, <2>3, <2>6, <2>7, <2>8, <2>9, TurnEnds
<1>12. CASE FinishLost
  <2>1. /\ UNCHANGED <<log, rphase, row>> /\ torn' = (torn \/ d > 0)
    BY <1>12 DEF FinishLost, d
  <2>2. RunnerSound'  BY <1>5, <2>1 DEF RunnerSound
  <2>3. torn' \in BOOLEAN  BY <1>1, <2>1
  <2>4. Typed'  BY <1>1, <1>3, <1>6, <2>1, <2>3 DEF Typed
  <2>5. ~torn' => meter' = row'.total
    <3>1. ~(d > 0) => m = row.total  BY <1>1, <1>2 DEF m, Larger
    <3>2. QED  BY <1>3, <1>4, <2>1, <3>1
  <2>6. QED  BY <1>3, <1>4, <1>5, <2>1, <2>2, <2>4, <2>5, TurnEnds DEF Cut
<1>13. QED  BY <1>10, <1>11, <1>12

\* The process dies; the row stays what it was.
LEMMA CrashKeeps == ASSUME TurnInv, Crash PROVE TurnInv'
<1> DEFINE w == Work(log, t.cur)
           m == Larger(w, row.total)
           d == Unbilled(t.text, row)
<1>1. Typed /\ RunnerSound /\ row.total \in Nat /\ torn \in BOOLEAN
  BY DEF TurnInv, Typed, Rows
<1>2. w \in Nat /\ d = IF w >= row.total THEN w - row.total ELSE 0  BY BillIs
<1>3. /\ t' = Off /\ UNCHANGED <<log, rphase, gone, row, meter, answers>>
      /\ torn' = (torn \/ (t.at = "record" /\ d > 0))
  BY DEF Crash
<1>4. /\ ~torn => meter = IF t.at = "record" THEN m ELSE row.total
      /\ row.total <= Work(log, Len(log))
      /\ row.phase = "done" => rphase = "over" /\ row.total = Work(log, Len(log))
  BY DEF TurnInv, MeterSound
<1>5. ~(d > 0) => m = row.total  BY <1>1, <1>2 DEF Larger
<1>6. Off \in Turns
  <2>1. "off" \in Points  BY DEF Points
  <2>2. QED  BY <2>1, OffTyped, EmptyCut
<1> HIDE DEF w, m, d
<1>7. torn' \in BOOLEAN  BY <1>1, <1>3
<1>8. Typed'  BY <1>1, <1>3, <1>6, <1>7 DEF Typed
<1>9. RunnerSound'  BY <1>1, <1>3 DEF RunnerSound
<1>10. ~torn' => meter' = row'.total
  <2>1. ~torn' => ~torn /\ (t.at = "record" => ~(d > 0))  BY <1>3
  <2>2. QED  BY <1>3, <1>4, <1>5, <2>1
<1>11. Cut(row.ck)  BY DEF TurnInv, CutSound
<1>12. QED  BY <1>3, <1>4, <1>8, <1>9, <1>10, <1>11, TurnEnds DEF Cut

\* A step of the row while no turn executes, which may start one from what is saved.
LEMMA RowMoves ==
    ASSUME TurnInv, t.at = "off", UNCHANGED <<log, rphase, gone, meter, answers, torn>>,
           row' \in Rows, row'.total = row.total, row'.phase # "done",
           \/ row'.ck = row.ck
           \/ row'.ck = Empty,
           \/ t' = t
           \/ t' \in Turns /\ t'.at \in {"rejoin", "asked"} /\ row'.phase = "running"
              /\ t'.cur = row.ck.cur /\ t'.text = row.ck.text
    PROVE  TurnInv'
<1>1. Len(log) \in Nat /\ Typed /\ RunnerSound  BY DEF TurnInv, Typed
<1>2. Typed'  BY <1>1 DEF Typed
<1>3. RunnerSound'  BY <1>1 DEF RunnerSound
<1>4. Cut(row.ck) /\ Cut(t) /\ AnswerFitsQuestion  BY DEF TurnInv, CutSound
<1>5. Cut(row.ck)' /\ Cut(t)' /\ AnswerFitsQuestion'
  BY <1>1, <1>4, EmptyCut DEF Cut, AnswerFitsQuestion
<1>6. CutSound'  BY <1>5 DEF CutSound
<1>7. MeterSound'  BY DEF TurnInv, MeterSound
<1>8. QED  BY <1>2, <1>3, <1>6, <1>7 DEF TurnInv

\* Recovery and the person's answer.
LEMMA RecoveryKeeps == ASSUME TurnInv, Recover \/ Approve PROVE TurnInv'
<1>1. /\ t.at = "off" /\ UNCHANGED <<log, rphase, gone, meter, answers, torn>>
      /\ row \in Rows /\ row.ck \in Checkpoints /\ MaxRecovery \in Nat
  BY TurnAssumption DEF Recover, Approve, TurnInv, Typed, Rows
<1>2. ASSUME NEW p \in {"aborted", "failed"}, row' = Finished(row, p, 0), UNCHANGED t
      PROVE  TurnInv'
  <2>1. p \in Closed  BY DEF Closed
  <2>2. row' \in Rows /\ row'.phase = p /\ row'.ck = Empty /\ row'.total = row.total
    <3>1. row' = [row EXCEPT !.phase = p, !.ck = Empty, !.total = row.total]
      BY <1>2 DEF Finished
    <3>2. QED  BY <1>1, <2>1, <3>1, EmptyCut DEF Rows
  <2>3. QED  BY <1>1, <1>2, <2>2, RowMoves
<1>3. CASE row.tries < MaxRecovery /\ row' = [row EXCEPT !.tries = @ + 1] /\ t' = RejoinsAt(row.ck)
           /\ row.phase = "running"
  <2>1. row.tries + 1 \in 0..MaxRecovery  BY <1>1, <1>3 DEF Rows
  <2>2. /\ row' \in Rows /\ row'.phase = "running" /\ row'.ck = row.ck /\ row'.total = row.total
    BY <1>1, <1>3, <2>1 DEF Rows
  <2>3. "rejoin" \in Points  BY DEF Points
  <2>4. t' \in Turns /\ t'.at = "rejoin" /\ t'.cur = row.ck.cur /\ t'.text = row.ck.text
    BY <1>1, <1>3, <2>3, OffTyped DEF RejoinsAt
  <2>5. QED  BY <1>1, <2>2, <2>4, RowMoves
<1>4. CASE Approve
  <2>1. row' = [row EXCEPT !.phase = "running"] /\ t' = Turn("asked", row.ck)
    BY <1>4 DEF Approve
  <2>2. /\ row' \in Rows /\ row'.phase = "running" /\ row'.ck = row.ck /\ row'.total = row.total
    BY <1>1, <2>1 DEF Rows
  <2>3. "asked" \in Points  BY DEF Points
  <2>4. t' \in Turns /\ t'.at = "asked" /\ t'.cur = row.ck.cur /\ t'.text = row.ck.text
    BY <1>1, <2>1, <2>3, OffTyped
  <2>5. QED  BY <1>1, <2>2, <2>4, RowMoves
<1>5. QED  BY <1>2, <1>3, <1>4 DEF Recover

LEMMA CancelKeeps == ASSUME TurnInv, RequestCancel PROVE TurnInv'
<1>1. /\ UNCHANGED <<log, rphase, gone, meter, t, answers, torn>>
      /\ row \in Rows /\ row' = [row EXCEPT !.cancel = TRUE]
  BY DEF RequestCancel, TurnInv, Typed
<1>2. /\ row' \in Rows /\ row'.phase = row.phase /\ row'.ck = row.ck /\ row'.total = row.total
  BY <1>1 DEF Rows
<1>3. Typed'  BY <1>1, <1>2 DEF TurnInv, Typed
<1>4. RunnerSound'  BY <1>1 DEF TurnInv, RunnerSound
<1>5. CutSound'
  BY <1>1, <1>2 DEF TurnInv, CutSound, Cut, Complete, AnswerFitsQuestion
<1>6. MeterSound'  BY <1>1, <1>2 DEF TurnInv, MeterSound
<1>7. QED  BY <1>3, <1>4, <1>5, <1>6 DEF TurnInv

LEMMA TurnNext == ASSUME TurnInv, [Next]_vars PROVE TurnInv'
<1>1. CASE UNCHANGED vars
  BY <1>1 DEF vars, TurnInv, Typed, RunnerSound, CutSound, Cut, Complete, MeterSound,
              AnswerFitsQuestion
<1>2. CASE (\E k \in Kinds : Emit(k)) \/ Settle \/ MovesOn \/ Drop  BY <1>2, RunnerKeeps
<1>3. CASE Open \/ Abort \/ Reconcile \/ Rejoin  BY <1>3, FollowerKeeps
<1>4. CASE Drain \/ Quiet \/ DrainFails  BY <1>4, DrainKeeps
<1>5. CASE Inspect  BY <1>5, InspectKeeps
<1>6. CASE Start \/ Asked \/ Answer  BY <1>6, BackendKeeps
<1>7. CASE Bill  BY <1>7, BillKeeps
<1>8. CASE Record \/ ParkFails \/ FinishLost  BY <1>8, RecordKeeps
<1>9. CASE Crash  BY <1>9, CrashKeeps
<1>10. CASE Recover \/ Approve  BY <1>10, RecoveryKeeps
<1>11. CASE RequestCancel  BY <1>11, CancelKeeps
<1>12. QED
  BY <1>1, <1>2, <1>3, <1>4, <1>5, <1>6, <1>7, <1>8, <1>9, <1>10, <1>11
     DEF Next, Runner, Follow, Settling, Rest

-----------------------------------------------------------------------------
(* Theorems                                                                *)

\* The inductive invariant of a run that executes on a runner.
THEOREM TurnInvariant == Spec => []TurnInv
<1>1. Init => TurnInv  BY TurnInit
<1>2. TurnInv /\ [Next]_vars => TurnInv'  BY TurnNext
<1>3. QED  BY <1>1, <1>2, PTL DEF Spec

\* The follower, the row and the runner's answers stay in their types.
THEOREM TurnTypeCorrect == Spec => []TurnTypeOK
<1>1. TurnInv => TurnTypeOK
  <2>1. SUFFICES ASSUME TurnInv PROVE TurnTypeOK  OBVIOUS
  <2>2. /\ t.cur \in Nat /\ row.ck.cur \in Nat /\ t.wait \in 0..MaxOutage
        /\ t.at \in Points /\ t.out \in {"none", "parked"} \cup Closed
        /\ row.phase \in {"running", "parked"} \cup Closed /\ row.tries \in 0..MaxRecovery
    BY <2>1 DEF TurnInv, Typed, Turns, Rows, Checkpoints
  <2>3. t.cur <= Len(log) /\ row.ck.cur <= Len(log) /\ Len(log) \in Nat
    BY <2>1 DEF TurnInv, CutSound, Cut, Typed
  <2>4. t.cur \in 0..Len(log) /\ row.ck.cur \in 0..Len(log)  BY <2>2, <2>3
  <2>5. QED  BY <2>1, <2>2, <2>4 DEF TurnInv, Typed, TurnTypeOK
<1>2. QED  BY <1>1, TurnInvariant, PTL

\* Over reconnects, catch-up passes, parks, re-joins and deaths of the provider,
\* for any number of each, what a turn reports and what the row saves is the
\* attempt's history up to its cursor, every event once and in order.
THEOREM HistoryIsKept == Spec => []HistoryIsWhole
<1>1. TurnInv => HistoryIsWhole
  <2>1. SUFFICES ASSUME TurnInv PROVE HistoryIsWhole  OBVIOUS
  <2>2. SavedIsOneCut  BY <2>1 DEF TurnInv, CutSound, Cut, SavedIsOneCut
  <2>3. TranscriptIsComplete
    <3>1. SUFFICES ASSUME t.at \in {"bill", "record"}, t.out \in {"parked", "done"}
                   PROVE  /\ t.cur >= 1 /\ Exactly(t.text, t.cur)
                          /\ t.out = "done" => t.cur = Len(log) /\ log[t.cur] = "end"
                                               /\ rphase = "over"
                          /\ t.out = "parked" => t.park = t.cur /\ log[t.park] = "park"
      BY DEF TranscriptIsComplete
    <3>2. Complete(t) /\ Exactly(t.text, t.cur) /\ t.cur \in Nat /\ Len(log) \in Nat
      BY <2>1, <3>1 DEF TurnInv, CutSound, Cut, Typed, Turns
    <3>3. rphase = "over" => Len(log) > 0 /\ log[Len(log)] = "end"
      BY <2>1 DEF TurnInv, RunnerSound
    <3>4. QED  BY <3>1, <3>2, <3>3 DEF Complete
  <2>4. QED  BY <2>2, <2>3 DEF HistoryIsWhole
<1>2. QED  BY <1>1, TurnInvariant, PTL

\* Unless a failure fell between the account and the row, a run that is not
\* executing has been charged what its row reports, and a finished one what the
\* whole attempt used.
THEOREM RunIsChargedAsRecorded == Spec => []ChargedAsRecorded
<1>1. TurnInv => ChargedAsRecorded
  <2>1. SUFFICES ASSUME TurnInv, t.at = "off", row.phase # "running", ~torn
                 PROVE  /\ meter = row.total
                        /\ row.phase = "done" => row.total = Usage([i \in 1..Len(log) |-> i])
    BY DEF ChargedAsRecorded
  <2>2. Len(log) \in Nat /\ Exactly([i \in 1..Len(log) |-> i], Len(log))
    BY <2>1 DEF TurnInv, Typed, Exactly
  <2>3. Usage([i \in 1..Len(log) |-> i]) = Work(log, Len(log))  BY <2>2, UsageIs
  <2>4. QED  BY <2>1, <2>3 DEF TurnInv, MeterSound
<1>2. QED  BY <1>1, TurnInvariant, PTL

\* An answer reaches the park the person was shown and no other.
THEOREM AnswersFitQuestions == Spec => []AnswerFitsQuestion
<1>1. TurnInv => AnswerFitsQuestion  BY DEF TurnInv, CutSound
<1>2. QED  BY <1>1, TurnInvariant, PTL
=============================================================================
