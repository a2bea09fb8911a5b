------------------------ MODULE EventJournal_proofs ------------------------
(***************************************************************************)
(* What is proved of the event journals, for any number of attempts and    *)
(* events and any limits.                                                  *)
(***************************************************************************)
EXTENDS EventJournal, FiniteSetTheorems, SequenceTheorems, WellFoundedInduction, TLAPS

-----------------------------------------------------------------------------
(* Least and greatest numbers                                              *)

LEMMA NatMin ==
    ASSUME NEW T, T \subseteq Nat, T # {}
    PROVE  Min(T) \in T /\ \A y \in T : Min(T) <= y
<1> DEFINE R == {ss \in Nat \X Nat : ss[1] < ss[2]}
<1>1. IsWellFoundedOn(R, Nat)  BY NatLessThanWellFounded DEF OpToRel
<1> HIDE DEF R
<1>2. PICK x \in T : \A y \in T : ~ (<<y, x>> \in R)  BY <1>1, WFMin
<1>3. ASSUME NEW y \in T PROVE x <= y
  <2>1. CASE y < x
    <3>1. <<y, x>> \in R  BY <2>1 DEF R
    <3>2. QED  BY <1>2, <3>1
  <2>2. QED  BY <2>1
<1>4. QED  BY <1>3 DEF Min

LEMMA Min2 ==
    ASSUME NEW m \in Int, NEW n \in Int PROVE Min({m, n}) = IF m <= n THEN m ELSE n
<1> DEFINE r == IF m <= n THEN m ELSE n
<1>1. r \in {m, n} /\ \A y \in {m, n} : r =< y  OBVIOUS
<1>2. \A x \in {m, n} : (\A y \in {m, n} : x =< y) => x = r  OBVIOUS
<1> HIDE DEF r
<1>3. Min({m, n}) = r  BY <1>1, <1>2, Zenon DEF Min
<1>4. QED  BY <1>3 DEF r

LEMMA Max2 ==
    ASSUME NEW m \in Int, NEW n \in Int PROVE Max({m, n}) = IF m >= n THEN m ELSE n
<1> DEFINE r == IF m >= n THEN m ELSE n
<1>1. r \in {m, n} /\ \A y \in {m, n} : r >= y  OBVIOUS
<1>2. \A x \in {m, n} : (\A y \in {m, n} : x >= y) => x = r  OBVIOUS
<1> HIDE DEF r
<1>3. Max({m, n}) = r  BY <1>1, <1>2, Zenon DEF Max
<1>4. QED  BY <1>3 DEF r

LEMMA MaxInterval ==
    ASSUME NEW m \in Int, NEW n \in Int, m <= n PROVE Max(m..n) = n
<1>1. n \in m..n /\ \A y \in m..n : n >= y  OBVIOUS
<1>2. \A x \in m..n : (\A y \in m..n : x >= y) => x = n  OBVIOUS
<1>3. QED  BY <1>1, <1>2, Zenon DEF Max

-----------------------------------------------------------------------------
(* The space the journals take                                             *)

\* One element for each of the sz[a] records of the attempts in A.
Cells(sz, A) == UNION {{a} \X (1..sz[a]) : a \in A}

Sizes == [Attempts -> Nat]

LEMMA CellsFinite ==
    ASSUME NEW sz \in Sizes, NEW A \in SUBSET Attempts
    PROVE  IsFiniteSet(Cells(sz, A)) /\ Cardinality(Cells(sz, A)) \in Nat
<1> DEFINE f == [a \in A |-> {a} \X (1..sz[a])]
           T == {{a} \X (1..sz[a]) : a \in A}
<1>1. IsFiniteSet(A)  BY FS_Subset, JournalAssumption
<1>2. f \in Surjection(A, T)  BY DEF Surjection
<1>3. IsFiniteSet(T)  BY <1>1, <1>2, FS_Surjection
<1>4. ASSUME NEW a \in A PROVE IsFiniteSet({a} \X (1..sz[a]))
  <2>1. IsFiniteSet(1..sz[a])  BY FS_Interval DEF Sizes
  <2>2. QED  BY <2>1, FS_Singleton, FS_Product
<1>5. IsFiniteSet(UNION T)  BY <1>3, <1>4, FS_UNION
<1>6. QED  BY <1>5, FS_CardinalityType DEF Cells

\* The records of one attempt come on top of those of the others.
LEMMA CellsSplit ==
    ASSUME NEW sz \in Sizes, NEW a \in Attempts
    PROVE  Cardinality(Cells(sz, Attempts)) = Cardinality(Cells(sz, Attempts \ {a})) + sz[a]
<1> DEFINE O == Cells(sz, Attempts \ {a})
           M == {a} \X (1..sz[a])
<1>1. Cells(sz, Attempts) = O \cup M  BY DEF Cells
<1>2. O \cap M = {}  BY DEF Cells
<1>3. IsFiniteSet(O) /\ Cardinality(O) \in Nat  BY CellsFinite
<1>4. IsFiniteSet(M) /\ Cardinality(M) = sz[a]
  <2>1. sz[a] \in Nat  BY DEF Sizes
  <2>2. IsFiniteSet(1..sz[a]) /\ Cardinality(1..sz[a]) = sz[a]  BY <2>1, FS_Interval
  <2>3. IsFiniteSet({a}) /\ Cardinality({a}) = 1  BY FS_Singleton
  <2>4. Cardinality(M) = 1 * sz[a] /\ IsFiniteSet(M)  BY <2>2, <2>3, FS_Product
  <2>5. QED  BY <2>1, <2>4
<1> HIDE DEF O, M
<1>5. Cardinality(O \cup M) = Cardinality(O) + Cardinality(M) - Cardinality(O \cap M)
  BY <1>3, <1>4, FS_Union
<1>6. Cardinality(O \cap M) = 0  BY <1>2, FS_EmptySet
<1>7. QED  BY <1>1, <1>3, <1>4, <1>5, <1>6 DEF Sizes, O

LEMMA CellsMonotone ==
    ASSUME NEW sz \in Sizes, NEW ts \in Sizes, \A a \in Attempts : sz[a] <= ts[a]
    PROVE  Cardinality(Cells(sz, Attempts)) <= Cardinality(Cells(ts, Attempts))
<1>1. Cells(sz, Attempts) \subseteq Cells(ts, Attempts)
  <2> SUFFICES ASSUME NEW a \in Attempts, NEW x \in {a} \X (1..sz[a])
               PROVE  x \in Cells(ts, Attempts)
    BY DEF Cells
  <2>1. sz[a] \in Nat /\ ts[a] \in Nat /\ sz[a] <= ts[a]  BY DEF Sizes
  <2>2. x \in {a} \X (1..ts[a])  BY <2>1
  <2>3. QED  BY <2>2 DEF Cells
<1>2. QED  BY <1>1, CellsFinite, FS_Subset

LEMMA CellsSame ==
    ASSUME NEW sz, NEW ts, NEW A, \A a \in A : sz[a] = ts[a]
    PROVE  Cells(sz, A) = Cells(ts, A)
BY DEF Cells

-----------------------------------------------------------------------------
(* What an append leaves behind                                            *)

Phases == Owned \cup {"none", "gone"}

Mems == [phase : Phases, running : BOOLEAN, failed : BOOLEAN, off : Nat, cache : Seq(Events),
         wend : Nat \cup {NoWriter}, dirty : BOOLEAN, index : SUBSET (Nat \X Nat), size : Nat]

Files == [data : Seq(Events), synced : Nat, linked : BOOLEAN]

FileSize(f) == IF f.linked THEN Len(f.data) ELSE 0

\* A writer stands at the offset, which is the end of its file, and what is
\* accounted to a journal is the size of its file.
WriterOK(m, f) ==
    /\ m.wend # NoWriter => m.wend = m.off /\ f.linked /\ Len(f.data) = m.off
    /\ m.dirty => m.wend # NoWriter
    /\ m.size = FileSize(f)

\* The records one append writes, and the journal it writes them to.
Recs(m, ev) == Append(IF m.off = 0 THEN m.cache ELSE <<>>, ev)

Opened(m, f) == IF m.wend # m.off THEN Reopened(m, f) ELSE [m |-> m, f |-> f]

CanOpen(m, f) == m.wend # m.off => Len(FileFound(f).data) >= m.off

\* The outcomes of an append: the journal is full, is too short, cannot be opened,
\* there is no space, the write is torn, the records are written.
Refused(m, f, r) == ~r.ok /\ r.m = m /\ r.f = f

TooShort(m, f, r) ==
    /\ ~r.ok /\ r.m = WriterClosed(m) /\ r.f = FileFound(f)
    /\ m.wend # m.off /\ Len(FileFound(f).data) < m.off

NotOpened(m, f, r) == ~r.ok /\ r.m = WriterClosed(m) /\ r.f = f /\ m.wend # m.off

NoSpace(m, f, r) == ~r.ok /\ r.m = Opened(m, f).m /\ r.f = Opened(m, f).f

HasSpace(m, f, others, ev) ==
    /\ m.off + Len(Recs(m, ev)) <= Limit(ev.kind)
    /\ others + Opened(m, f).m.size + Len(Recs(m, ev)) <= TotalQuota(ev.kind)

TornWrite(m, f, ev, r) ==
    \E k \in 0..(Len(Recs(m, ev)) - 1) :
        /\ ~r.ok
        /\ r.m = [Opened(m, f).m EXCEPT !.wend = NoWriter, !.dirty = FALSE, !.size = m.off + k + 1]
        /\ r.f = [Opened(m, f).f EXCEPT !.data = @ \o Append(SubSeq(Recs(m, ev), 1, k), Torn)]

Hot(c, ev) ==
    LET all == Append(c, ev) IN SubSeq(all, Max({1, Len(all) - MaxEvents + 1}), Len(all))

Written(m, f, ev, r) ==
    LET n == Len(Recs(m, ev))
        o == Opened(m, f)
    IN  /\ r.ok
        /\ r.m = [o.m EXCEPT !.wend = m.off + n, !.dirty = TRUE, !.size = m.off + n,
                             !.off = m.off + n, !.cache = Hot(@, ev),
                             !.index = IF n = 1 THEN Indexed(@, ev.cur, m.off) ELSE @]
        /\ r.f = [o.f EXCEPT !.data = @ \o Recs(m, ev)]

LEMMA AppendCases ==
    ASSUME NEW m, NEW f, NEW others, NEW ev, NEW outs,
           NEW r \in AppendResults(m, f, others, ev, outs),
           m.off \in Nat, Len(Recs(m, ev)) \in Nat, others \in Nat, Opened(m, f).m.size \in Nat,
           Limit(ev.kind) \in Nat, TotalQuota(ev.kind) \in Nat, Len(FileFound(f).data) \in Nat
    PROVE  \/ Refused(m, f, r) /\ m.off + Len(Recs(m, ev)) > Limit(ev.kind)
           \/ TooShort(m, f, r)
           \/ "open" \in outs /\ NotOpened(m, f, r)
           \/ /\ CanOpen(m, f)
              /\ \/ /\ NoSpace(m, f, r)
                    /\ others + Opened(m, f).m.size + Len(Recs(m, ev)) > TotalQuota(ev.kind)
                 \/ /\ HasSpace(m, f, others, ev)
                    /\ \/ "write" \in outs /\ TornWrite(m, f, ev, r)
                       \/ Written(m, f, ev, r)
<1> DEFINE n == Len(Recs(m, ev))
           o == Opened(m, f)
           Fails(m2, f2) == [ok |-> FALSE, m |-> m2, f |-> f2]
           Full == m.off + n > Limit(ev.kind)
           Short == m.wend # m.off /\ Len(FileFound(f).data) < m.off
           Over == others + o.m.size + n > TotalQuota(ev.kind)
           NotOpen == {Fails(WriterClosed(m), f) :
                         x \in {"open"} \cap (IF m.wend # m.off THEN outs ELSE {})}
           Tears == {Fails([o.m EXCEPT !.wend = NoWriter, !.dirty = FALSE, !.size = m.off + k + 1],
                           [o.f EXCEPT !.data = @ \o Append(SubSeq(Recs(m, ev), 1, k), Torn)]) :
                       k \in IF "write" \in outs THEN 0..(n - 1) ELSE {}}
           Done == [ok |-> TRUE,
                    m  |-> [o.m EXCEPT !.wend = m.off + n, !.dirty = TRUE, !.size = m.off + n,
                                       !.off = m.off + n, !.cache = Hot(@, ev),
                                       !.index = IF n = 1 THEN Indexed(@, ev.cur, m.off) ELSE @],
                    f  |-> [o.f EXCEPT !.data = @ \o Recs(m, ev)]]
<1>1. AppendResults(m, f, others, ev, outs) =
        IF Full THEN {Fails(m, f)}
        ELSE IF Short THEN {Fails(WriterClosed(m), FileFound(f))}
        ELSE NotOpen \cup (IF Over THEN {Fails(o.m, o.f)} ELSE Tears \cup {Done})
  BY Zenon DEF AppendResults, Recs, Opened, Hot
<1>2. CASE Full  BY <1>1, <1>2 DEF Refused
<1>3. CASE ~Full /\ Short  BY <1>1, <1>3 DEF TooShort
<1>4. CASE ~Full /\ ~Short
  <2>1. CanOpen(m, f)  BY <1>4 DEF CanOpen
  <2>0. ~Over => HasSpace(m, f, others, ev)  BY <1>4 DEF HasSpace
  <2>2. CASE r \in NotOpen  BY <2>2 DEF NotOpened
  <2>3. CASE Over /\ r = Fails(o.m, o.f)  BY <2>1, <2>3 DEF NoSpace
  <2>4. CASE ~Over /\ r \in Tears
    <3>1. PICK k \in (IF "write" \in outs THEN 0..(n - 1) ELSE {}) :
            r = Fails([o.m EXCEPT !.wend = NoWriter, !.dirty = FALSE, !.size = m.off + k + 1],
                      [o.f EXCEPT !.data = @ \o Append(SubSeq(Recs(m, ev), 1, k), Torn)])
      BY <2>4, Zenon
    <3>2. "write" \in outs /\ k \in 0..(n - 1)  BY <3>1
    <3>3. TornWrite(m, f, ev, r)  BY <3>1, <3>2, Zenon DEF TornWrite
    <3>4. HasSpace(m, f, others, ev)  BY <1>4, <2>4, <2>0
    <3>5. QED  BY <2>1, <3>2, <3>3, <3>4
  <2>5. CASE ~Over /\ r = Done
    <3>1. Written(m, f, ev, r)  BY <2>5 DEF Written
    <3>2. QED  BY <2>1, <2>5, <2>0, <3>1
  <2>6. QED  BY <1>1, <1>4, <2>2, <2>3, <2>4, <2>5
<1>5. QED  BY <1>2, <1>3, <1>4

\* A journal that is open ends at the offset and has what was before it.
LEMMA OpenedOK ==
    ASSUME NEW m \in Mems, NEW f \in Files, WriterOK(m, f), CanOpen(m, f)
    PROVE  LET o == Opened(m, f) IN
           /\ o.m \in Mems /\ o.f \in Files
           /\ o.f.linked /\ Len(o.f.data) = m.off /\ o.m.size = m.off /\ o.m.wend = m.off
           /\ o.m.phase = m.phase /\ o.m.running = m.running /\ o.m.failed = m.failed
           /\ o.m.off = m.off /\ o.m.cache = m.cache /\ o.m.index \subseteq m.index
           /\ o.m.dirty = m.dirty
           /\ f.linked => \A i \in 1..m.off : o.f.data[i] = f.data[i]
           /\ f.linked => \A k \in 0..m.off : f.synced >= k => o.f.synced >= k
<1>1. CASE m.wend = m.off
  <2>1. Opened(m, f) = [m |-> m, f |-> f]  BY <1>1 DEF Opened
  <2>2. m.off \in Nat /\ m.wend # NoWriter  BY <1>1 DEF Mems, NoWriter
  <2>3. QED  BY <1>1, <2>1, <2>2 DEF WriterOK, FileSize, Files, Mems
<1>2. CASE m.wend # m.off
  <2> DEFINE g == FileFound(f)
  <2>1. Opened(m, f) = Reopened(m, f)  BY <1>2 DEF Opened
  <2>2. m.wend = NoWriter /\ ~m.dirty /\ m.off \in Nat  BY <1>2 DEF WriterOK, Mems
  <2>3. g \in Files /\ g.linked /\ Len(g.data) >= m.off /\ (f.linked => g = f)
    <3>1. Len(g.data) >= m.off  BY <1>2 DEF CanOpen
    <3>2. CASE f.linked  BY <3>1, <3>2 DEF FileFound
    <3>3. CASE ~f.linked
      <4>1. g = [data |-> <<>>, synced |-> 0, linked |-> TRUE]  BY <3>3 DEF FileFound, NoFile
      <4>2. QED  BY <3>1, <3>3, <4>1 DEF Files
    <3>4. QED  BY <3>2, <3>3
  <2>4. /\ SubSeq(g.data, 1, m.off) \in Seq(Events)
        /\ Len(SubSeq(g.data, 1, m.off)) = m.off
        /\ \A i \in 1..m.off : SubSeq(g.data, 1, m.off)[i] = g.data[i]
    BY <2>2, <2>3 DEF Files
  <2>5. Min({g.synced, m.off}) = IF g.synced <= m.off THEN g.synced ELSE m.off
    BY <2>2, <2>3, Min2 DEF Files
  <2> HIDE DEF g
  <2>6. /\ Reopened(m, f).m = [WriterClosed(m) EXCEPT !.wend = m.off, !.size = m.off]
        /\ Reopened(m, f).f = [g EXCEPT !.data = SubSeq(g.data, 1, m.off),
                                        !.synced = Min({g.synced, m.off})]
    BY DEF Reopened, g
  <2>7. [WriterClosed(m) EXCEPT !.wend = m.off, !.size = m.off] =
        [m EXCEPT !.wend = m.off, !.size = m.off]
    BY <2>2 DEF WriterClosed, Mems
  <2> DEFINE mm == [m EXCEPT !.wend = m.off, !.size = m.off]
             gg == [g EXCEPT !.data = SubSeq(g.data, 1, m.off), !.synced = Min({g.synced, m.off})]
  <2>8. /\ mm \in Mems /\ mm.size = m.off /\ mm.wend = m.off
        /\ mm.phase = m.phase /\ mm.running = m.running /\ mm.failed = m.failed
        /\ mm.off = m.off /\ mm.cache = m.cache /\ mm.index = m.index /\ mm.dirty = m.dirty
    BY <2>2 DEF Mems
  <2>9. /\ gg \in Files /\ gg.linked /\ gg.data = SubSeq(g.data, 1, m.off)
        /\ gg.synced = IF g.synced <= m.off THEN g.synced ELSE m.off
    BY <2>2, <2>3, <2>4, <2>5 DEF Files
  <2> HIDE DEF mm, gg
  <2>10. Opened(m, f).m = mm /\ Opened(m, f).f = gg  BY <2>1, <2>6, <2>7 DEF mm, gg
  <2>11. /\ Len(gg.data) = m.off
         /\ f.linked => \A i \in 1..m.off : gg.data[i] = f.data[i]
         /\ f.linked => \A k \in 0..m.off : f.synced >= k => gg.synced >= k
    BY <2>2, <2>3, <2>4, <2>9 DEF Files
  <2>12. QED  BY <2>8, <2>9, <2>10, <2>11
<1>3. QED  BY <1>1, <1>2

LEMMA RecsOK ==
    ASSUME NEW m \in Mems, NEW ev \in Events
    PROVE  LET c == IF m.off = 0 THEN m.cache ELSE <<>> IN
           /\ Recs(m, ev) \in Seq(Events) /\ Len(Recs(m, ev)) = Len(c) + 1 /\ Len(c) \in Nat
           /\ \A i \in 1..Len(c) : Recs(m, ev)[i] = c[i]
           /\ Recs(m, ev)[Len(c) + 1] = ev
<1> DEFINE c == IF m.off = 0 THEN m.cache ELSE <<>>
<1>1. c \in Seq(Events)  BY DEF Mems
<1> HIDE DEF c
<1>2. Recs(m, ev) = Append(c, ev)  BY DEF Recs, c
<1>3. QED  BY <1>1, <1>2, AppendProperties, LenProperties DEF c

\* The cache after an append is the end of the longer history.
LEMMA HotOK ==
    ASSUME NEW c \in Seq(Events), NEW ev \in Events
    PROVE  /\ Hot(c, ev) \in Seq(Events)
           /\ Len(Hot(c, ev)) \in 1..(Len(c) + 1)
           /\ \A k \in 1..Len(Hot(c, ev)) :
                 Hot(c, ev)[k] = Append(c, ev)[(Len(c) + 1) - Len(Hot(c, ev)) + k]
           /\ Hot(c, ev)[Len(Hot(c, ev))] = ev
<1> DEFINE all == Append(c, ev)
           n == Len(c) + 1
           s == IF 1 >= n - MaxEvents + 1 THEN 1 ELSE n - MaxEvents + 1
<1>1. all \in Seq(Events) /\ Len(all) = n /\ all[n] = ev /\ Len(c) \in Nat
  BY AppendProperties, LenProperties
<1>2. MaxEvents \in Nat /\ MaxEvents >= 1  BY JournalAssumption
<1>3. Max({1, Len(all) - MaxEvents + 1}) = s  BY <1>1, <1>2, Max2
<1>4. s \in 1..n  BY <1>1, <1>2
<1> HIDE DEF all, s
<1>5. Hot(c, ev) = SubSeq(all, s, n)  BY <1>1, <1>3 DEF Hot, all
<1>6. \A i \in s..n : all[i] \in Events  BY <1>1, <1>4, ElementOfSeq
<1>7. /\ SubSeq(all, s, n) \in Seq(Events)
      /\ Len(SubSeq(all, s, n)) = n - s + 1
      /\ \A i \in 1..(n - s + 1) : SubSeq(all, s, n)[i] = all[s + i - 1]
  BY <1>1, <1>4, <1>6, SubSeqProperties
<1>8. n - s + 1 \in 1..n /\ n - (n - s + 1) = s - 1  BY <1>1, <1>4
<1>9. \A k \in 1..(n - s + 1) : SubSeq(all, s, n)[k] = all[n - (n - s + 1) + k]
  BY <1>1, <1>4, <1>7
<1>10. SubSeq(all, s, n)[n - s + 1] = ev  BY <1>1, <1>4, <1>7
<1> DEFINE h == SubSeq(all, s, n)
           l == n - s + 1
<1>11. /\ h \in Seq(Events) /\ Len(h) = l /\ l \in 1..n
       /\ \A k \in 1..l : h[k] = all[n - l + k]
       /\ h[l] = ev
  BY <1>7, <1>8, <1>9, <1>10
<1>12. Hot(c, ev) = h  BY <1>5
<1> HIDE DEF h, l, n
<1>13. \A k \in 1..Len(h) : h[k] = all[n - Len(h) + k]  BY <1>11
<1>14. \A k \in 1..Len(h) : h[k] = Append(c, ev)[(Len(c) + 1) - Len(h) + k]
  BY <1>13, Zenon DEF n, all
<1>15. Len(h) \in 1..n /\ h[Len(h)] = ev /\ h \in Seq(Events)  BY <1>11
<1>16. Len(h) \in 1..(Len(c) + 1)  BY <1>15 DEF n
<1>17. QED  BY <1>12, <1>14, <1>15, <1>16, Zenon

\* What every append keeps: a record stays where it is up to the offset, the
\* accounting is exact, and no file grows beyond the space there is.
Extends(m, f, others, ev, r) ==
    /\ r.ok \in BOOLEAN /\ r.m \in Mems /\ r.f \in Files /\ WriterOK(r.m, r.f)
    /\ r.m.phase = m.phase /\ r.m.running = m.running /\ r.m.failed = m.failed
    /\ m.off <= r.m.off
    /\ ~r.ok => /\ r.m.off = m.off /\ r.m.cache = m.cache /\ r.m.index \subseteq m.index
                /\ r.m.dirty => m.dirty
    /\ r.ok => r.m.cache = Hot(m.cache, ev)
    /\ f.linked /\ m.off <= Len(f.data) =>
          /\ r.f.linked /\ r.m.off <= Len(r.f.data)
          /\ \A i \in 1..m.off : r.f.data[i] = f.data[i]
          /\ \A k \in 0..m.off : f.synced >= k => r.f.synced >= k
    /\ FileSize(r.f) <= FileSize(f) \/ others + FileSize(r.f) <= TotalLimit + TotalReserve

LEMMA FileFoundOK ==
    ASSUME NEW f \in Files
    PROVE  /\ FileFound(f) \in Files /\ FileFound(f).linked /\ FileSize(FileFound(f)) = FileSize(f)
           /\ f.linked => FileFound(f) = f
           /\ Len(FileFound(f).data) \in Nat
<1>1. CASE f.linked
  <2>1. FileFound(f) = f  BY <1>1 DEF FileFound
  <2>2. QED  BY <1>1, <2>1 DEF Files
<1>2. CASE ~f.linked
  <2>1. FileFound(f) = [data |-> <<>>, synced |-> 0, linked |-> TRUE]
    BY <1>2 DEF FileFound, NoFile
  <2>2. FileFound(f) \in Files /\ FileFound(f).linked /\ Len(FileFound(f).data) = 0
    BY <2>1 DEF Files
  <2>3. FileSize(f) = 0 /\ FileSize(FileFound(f)) = 0  BY <1>2, <2>2 DEF FileSize
  <2>4. QED  BY <1>2, <2>2, <2>3
<1>3. QED  BY <1>1, <1>2

LEMMA WriterClosedOK ==
    ASSUME NEW m \in Mems, NEW f \in Files, WriterOK(m, f)
    PROVE  LET c == WriterClosed(m) IN
           /\ c \in Mems /\ c.phase = m.phase /\ c.running = m.running /\ c.failed = m.failed
           /\ c.off = m.off /\ c.cache = m.cache /\ c.wend = NoWriter /\ ~c.dirty
           /\ c.index = (IF m.wend = NoWriter THEN m.index ELSE {}) /\ c.size = m.size
           /\ WriterOK(c, f)
BY DEF WriterClosed, Mems, WriterOK

LEMMA LimitsOK ==
    ASSUME NEW kind
    PROVE  /\ Limit(kind) \in Nat /\ TotalQuota(kind) \in Nat
           /\ TotalQuota(kind) <= TotalLimit + TotalReserve
BY JournalAssumption DEF Limit, TotalQuota

LEMMA RefusedExtends ==
    ASSUME NEW m \in Mems, NEW f \in Files, WriterOK(m, f), NEW others, NEW ev, NEW r,
           Refused(m, f, r) \/ TooShort(m, f, r) \/ NotOpened(m, f, r), r.ok \in BOOLEAN
    PROVE  Extends(m, f, others, ev, r)
<1>1. FileSize(f) \in Nat /\ m.off \in Nat  BY DEF FileSize, Files, Mems
<1>2. CASE Refused(m, f, r)  BY <1>1, <1>2 DEF Refused, Extends
<1>3. CASE NotOpened(m, f, r)
  <2>1. ~r.ok /\ r.m = WriterClosed(m) /\ r.f = f  BY <1>3 DEF NotOpened
  <2>2. QED  BY <1>1, <2>1, WriterClosedOK DEF Extends
<1>4. CASE TooShort(m, f, r)
  <2>1. /\ ~r.ok /\ r.m = WriterClosed(m) /\ r.f = FileFound(f)
        /\ Len(FileFound(f).data) < m.off
    BY <1>4 DEF TooShort
  <2>2. ~(f.linked /\ m.off <= Len(f.data))  BY <1>1, <2>1, FileFoundOK
  <2>3. WriterOK(r.m, r.f)
    <3>1. r.m.wend = NoWriter /\ ~r.m.dirty /\ r.m.size = m.size  BY <2>1, WriterClosedOK
    <3>2. QED  BY <2>1, <3>1, FileFoundOK DEF WriterOK
  <2>4. QED  BY <1>1, <2>1, <2>2, <2>3, WriterClosedOK, FileFoundOK DEF Extends
<1>5. QED  BY <1>2, <1>3, <1>4

LEMMA NoSpaceExtends ==
    ASSUME NEW m \in Mems, NEW f \in Files, WriterOK(m, f), NEW others, NEW ev, NEW r,
           CanOpen(m, f), NoSpace(m, f, r), r.ok \in BOOLEAN
    PROVE  Extends(m, f, others, ev, r)
<1> DEFINE o == Opened(m, f)
<1>1. ~r.ok /\ r.m = o.m /\ r.f = o.f  BY DEF NoSpace
<1>2. WriterOK(o.m, o.f)
  <2>1. /\ o.m.wend = m.off /\ o.m.off = m.off /\ o.m.size = m.off
        /\ o.f.linked /\ Len(o.f.data) = m.off
    BY OpenedOK
  <2>2. m.off # NoWriter  BY DEF Mems, NoWriter
  <2> HIDE DEF o
  <2>3. QED  BY <2>1, <2>2 DEF WriterOK, FileSize
<1>3. FileSize(o.f) = m.off /\ m.off \in Nat  BY OpenedOK DEF FileSize, Mems
<1>4. m.off <= FileSize(f)
  <2>1. CASE m.wend # m.off
    <3>1. Len(FileFound(f).data) >= m.off  BY <2>1 DEF CanOpen
    <3>2. FileSize(FileFound(f)) = Len(FileFound(f).data)  BY FileFoundOK DEF FileSize
    <3>3. QED  BY <3>1, <3>2, FileFoundOK
  <2>2. CASE m.wend = m.off
    <3>1. m.wend # NoWriter  BY <1>3, <2>2 DEF NoWriter
    <3>2. QED  BY <1>3, <3>1 DEF WriterOK, FileSize
  <2>3. QED  BY <2>1, <2>2
<1>5. QED  BY <1>1, <1>2, <1>3, <1>4, OpenedOK DEF Extends

\* Records t written behind the offset.
LEMMA WrittenBehind ==
    ASSUME NEW m \in Mems, NEW f \in Files, WriterOK(m, f), CanOpen(m, f), NEW t \in Seq(Events)
    PROVE  LET d == Opened(m, f).f.data \o t IN
           /\ d \in Seq(Events) /\ Len(d) = m.off + Len(t)
           /\ \A i \in 1..m.off : d[i] = Opened(m, f).f.data[i]
           /\ \A i \in 1..Len(t) : d[m.off + i] = t[i]
           /\ f.linked => \A i \in 1..m.off : d[i] = f.data[i]
<1> DEFINE s == Opened(m, f).f.data
<1>1. s \in Seq(Events) /\ Len(s) = m.off /\ m.off \in Nat /\ Len(t) \in Nat
  BY OpenedOK, LenProperties DEF Files, Mems
<1>2. f.linked => \A i \in 1..m.off : s[i] = f.data[i]  BY OpenedOK
<1> HIDE DEF s
<1> DEFINE d == s \o t
<1>a. /\ d \in Seq(Events) /\ Len(d) = Len(s) + Len(t)
      /\ \A i \in 1..Len(s) + Len(t) : d[i] = IF i <= Len(s) THEN s[i] ELSE t[i - Len(s)]
  BY <1>1, ConcatProperties, Zenon
<1> HIDE DEF d
<1>3. /\ d \in Seq(Events) /\ Len(d) = m.off + Len(t)
      /\ \A i \in 1..(m.off + Len(t)) : d[i] = IF i <= m.off THEN s[i] ELSE t[i - m.off]
  BY <1>1, <1>a
<1>4. \A i \in 1..m.off : d[i] = s[i]  BY <1>1, <1>3
<1>5. \A i \in 1..Len(t) : d[m.off + i] = t[i]
  <2> TAKE i \in 1..Len(t)
  <2>1. m.off + i \in 1..(m.off + Len(t)) /\ ~(m.off + i <= m.off) /\ (m.off + i) - m.off = i
    BY <1>1
  <2>2. QED  BY <1>3, <2>1
<1>6. f.linked => \A i \in 1..m.off : d[i] = f.data[i]  BY <1>2, <1>4
<1>7. QED  BY <1>3, <1>4, <1>5, <1>6 DEF d, s

LEMMA TornExtends ==
    ASSUME NEW m \in Mems, NEW f \in Files, WriterOK(m, f), NEW others \in Nat, NEW ev \in Events,
           NEW r, CanOpen(m, f), HasSpace(m, f, others, ev), TornWrite(m, f, ev, r),
           r.ok \in BOOLEAN
    PROVE  Extends(m, f, others, ev, r)
<1> DEFINE o == Opened(m, f)
           n == Len(Recs(m, ev))
<1>1. PICK k \in 0..(n - 1) :
        /\ ~r.ok
        /\ r.m = [o.m EXCEPT !.wend = NoWriter, !.dirty = FALSE, !.size = m.off + k + 1]
        /\ r.f = [o.f EXCEPT !.data = @ \o Append(SubSeq(Recs(m, ev), 1, k), Torn)]
  BY DEF TornWrite
<1> DEFINE t == Append(SubSeq(Recs(m, ev), 1, k), Torn)
<1>2. n \in Nat /\ Recs(m, ev) \in Seq(Events)  BY RecsOK
<1>3. t \in Seq(Events) /\ Len(t) = k + 1
  <2>1. Torn \in Events  BY DEF Torn, Events
  <2>2. SubSeq(Recs(m, ev), 1, k) \in Seq(Events) /\ Len(SubSeq(Recs(m, ev), 1, k)) = k
    <3>1. \A i \in 1..k : Recs(m, ev)[i] \in Events  BY <1>1, <1>2, ElementOfSeq
    <3>2. QED  BY <1>1, <1>2, <3>1, SubSeqProperties
  <2>3. QED  BY <2>1, <2>2, AppendProperties
<1> DEFINE d == o.f.data \o t
<1> HIDE DEF t
<1>a. /\ d \in Seq(Events) /\ Len(d) = m.off + Len(t)
      /\ f.linked => \A i \in 1..m.off : d[i] = f.data[i]
  BY <1>3, WrittenBehind, Zenon
<1>4. /\ d \in Seq(Events) /\ Len(d) = m.off + (k + 1)
      /\ f.linked => \A i \in 1..m.off : d[i] = f.data[i]
  BY <1>3, <1>a
<1>5. /\ o.m \in Mems /\ o.f \in Files /\ o.f.linked /\ o.m.off = m.off /\ o.m.cache = m.cache
      /\ o.m.phase = m.phase /\ o.m.running = m.running /\ o.m.failed = m.failed
      /\ o.m.size = m.off /\ m.off \in Nat /\ o.m.index \subseteq m.index
      /\ f.linked => \A i \in 0..m.off : f.synced >= i => o.f.synced >= i
  BY OpenedOK DEF Mems
<1> HIDE DEF d, o, t
<1>6. r.f = [o.f EXCEPT !.data = d]  BY <1>1 DEF d, t
<1>7. r.f \in Files /\ r.f.linked /\ r.f.data = d /\ r.f.synced = o.f.synced
  BY <1>4, <1>5, <1>6 DEF Files
<1> DEFINE mm == [o.m EXCEPT !.wend = NoWriter, !.dirty = FALSE, !.size = m.off + k + 1]
<1>b. k \in Nat /\ m.off + k + 1 \in Nat /\ m.off + k + 1 = m.off + (k + 1)  BY <1>1, <1>5
<1>c. mm \in Mems  BY <1>5, <1>b DEF Mems
<1>d. /\ mm.off = o.m.off /\ mm.index = o.m.index /\ mm.cache = o.m.cache /\ mm.wend = NoWriter
      /\ ~mm.dirty /\ mm.size = m.off + k + 1
      /\ mm.phase = o.m.phase /\ mm.running = o.m.running /\ mm.failed = o.m.failed
  BY <1>5 DEF Mems
<1> HIDE DEF mm
<1>8. /\ r.m \in Mems /\ r.m.index \subseteq m.index /\ r.m.off = m.off /\ r.m.cache = m.cache /\ r.m.wend = NoWriter
      /\ ~r.m.dirty /\ r.m.size = m.off + (k + 1)
      /\ r.m.phase = m.phase /\ r.m.running = m.running /\ r.m.failed = m.failed
  <2>1. r.m = mm  BY <1>1 DEF mm
  <2>2. QED  BY <1>5, <1>b, <1>c, <1>d, <2>1
<1>9. FileSize(r.f) = m.off + (k + 1)  BY <1>4, <1>7 DEF FileSize
<1>10. WriterOK(r.m, r.f)  BY <1>8, <1>9 DEF WriterOK
<1>11. others + (m.off + (k + 1)) <= TotalLimit + TotalReserve
  <2>1. others + m.off + n <= TotalQuota(ev.kind)  BY <1>5 DEF HasSpace, o
  <2>2. /\ TotalQuota(ev.kind) \in Nat /\ TotalLimit + TotalReserve \in Nat
        /\ TotalQuota(ev.kind) <= TotalLimit + TotalReserve
    BY LimitsOK, JournalAssumption
  <2> HIDE DEF n
  <2>3. QED  BY <1>1, <1>2, <1>5, <2>1, <2>2
<1>e. ~r.ok  BY <1>1
<1>f. r.m.off <= Len(r.f.data) /\ m.off <= r.m.off  BY <1>4, <1>5, <1>7, <1>8, <1>b
<1>12. QED  BY <1>4, <1>5, <1>7, <1>8, <1>9, <1>10, <1>11, <1>e, <1>f DEF Extends

LEMMA WrittenExtends ==
    ASSUME NEW m \in Mems, NEW f \in Files, WriterOK(m, f), NEW others \in Nat, NEW ev \in Events,
           NEW r, CanOpen(m, f), HasSpace(m, f, others, ev), Written(m, f, ev, r),
           r.ok \in BOOLEAN
    PROVE  /\ Extends(m, f, others, ev, r)
           /\ r.m.off = m.off + Len(Recs(m, ev)) /\ r.f.linked /\ Len(r.f.data) = r.m.off
           /\ r.m.dirty /\ r.m.wend = r.m.off
           /\ \A i \in 1..m.off : r.f.data[i] = Opened(m, f).f.data[i]
           /\ \A i \in 1..Len(Recs(m, ev)) : r.f.data[m.off + i] = Recs(m, ev)[i]
           /\ r.m.index = IF Len(Recs(m, ev)) = 1
                          THEN Indexed(Opened(m, f).m.index, ev.cur, m.off)
                          ELSE Opened(m, f).m.index
<1> DEFINE o == Opened(m, f)
           n == Len(Recs(m, ev))
           t == Recs(m, ev)
           d == o.f.data \o t
           ix == IF n = 1 THEN Indexed(o.m.index, ev.cur, m.off) ELSE o.m.index
<1>1. n \in Nat /\ t \in Seq(Events)  BY RecsOK
<1>2. /\ d \in Seq(Events) /\ Len(d) = m.off + n
      /\ \A i \in 1..m.off : d[i] = o.f.data[i]
      /\ \A i \in 1..n : d[m.off + i] = t[i]
      /\ f.linked => \A i \in 1..m.off : d[i] = f.data[i]
  BY <1>1, WrittenBehind
<1>3. /\ o.m \in Mems /\ o.f \in Files /\ o.f.linked /\ o.m.off = m.off /\ o.m.cache = m.cache
      /\ o.m.phase = m.phase /\ o.m.running = m.running /\ o.m.failed = m.failed
      /\ o.m.size = m.off /\ m.off \in Nat /\ m.cache \in Seq(Events)
      /\ f.linked => \A i \in 0..m.off : f.synced >= i => o.f.synced >= i
  BY OpenedOK DEF Mems
<1>4. ix \in SUBSET (Nat \X Nat)
  <2>1. ev.cur \in Nat /\ o.m.index \in SUBSET (Nat \X Nat)  BY <1>3 DEF Events, Mems
  <2>2. QED  BY <1>3, <2>1 DEF Indexed
<1>5. Hot(m.cache, ev) \in Seq(Events)  BY <1>3, HotOK
<1>6. /\ r.ok
      /\ r.m = [o.m EXCEPT !.wend = m.off + n, !.dirty = TRUE, !.size = m.off + n,
                           !.off = m.off + n, !.cache = Hot(m.cache, ev), !.index = ix]
      /\ r.f = [o.f EXCEPT !.data = d]
  BY <1>3 DEF Written
<1> HIDE DEF o, n, t, d, ix
<1>7. r.f \in Files /\ r.f.linked /\ r.f.data = d /\ r.f.synced = o.f.synced
  BY <1>2, <1>3, <1>6 DEF Files
<1> DEFINE mm == [o.m EXCEPT !.wend = m.off + n, !.dirty = TRUE, !.size = m.off + n,
                            !.off = m.off + n, !.cache = Hot(m.cache, ev), !.index = ix]
<1>a. m.off + n \in Nat  BY <1>1, <1>3
<1>b. mm \in Mems  BY <1>3, <1>4, <1>5, <1>a DEF Mems
<1>c. /\ mm.off = m.off + n /\ mm.cache = Hot(m.cache, ev)
      /\ mm.wend = m.off + n /\ mm.dirty /\ mm.size = m.off + n /\ mm.index = ix
      /\ mm.phase = o.m.phase /\ mm.running = o.m.running /\ mm.failed = o.m.failed
  BY <1>3 DEF Mems
<1> HIDE DEF mm
<1>8. /\ r.m \in Mems /\ r.m.off = m.off + n /\ r.m.cache = Hot(m.cache, ev)
      /\ r.m.wend = m.off + n /\ r.m.dirty /\ r.m.size = m.off + n /\ r.m.index = ix
      /\ r.m.phase = m.phase /\ r.m.running = m.running /\ r.m.failed = m.failed
  <2>1. r.m = mm  BY <1>6 DEF mm
  <2>2. QED  BY <1>3, <1>b, <1>c, <2>1
<1>9. FileSize(r.f) = m.off + n  BY <1>2, <1>7 DEF FileSize
<1>10. WriterOK(r.m, r.f)  BY <1>1, <1>2, <1>3, <1>7, <1>8, <1>9 DEF WriterOK, NoWriter
<1>11. others + (m.off + n) <= TotalLimit + TotalReserve
  <2>1. others + m.off + n <= TotalQuota(ev.kind)  BY <1>3 DEF HasSpace, o, n
  <2>2. /\ TotalQuota(ev.kind) \in Nat /\ TotalLimit + TotalReserve \in Nat
        /\ TotalQuota(ev.kind) <= TotalLimit + TotalReserve
    BY LimitsOK, JournalAssumption
  <2>3. QED  BY <1>1, <1>3, <2>1, <2>2
<1>12. Extends(m, f, others, ev, r)
  BY <1>1, <1>2, <1>3, <1>6, <1>7, <1>8, <1>9, <1>10, <1>11 DEF Extends
<1>13. QED  BY <1>2, <1>7, <1>8, <1>12 DEF o, n, t, ix

LEMMA OkIsBoolean ==
    ASSUME NEW m, NEW f, NEW others, NEW ev, NEW outs,
           NEW r \in AppendResults(m, f, others, ev, outs)
    PROVE  r.ok \in BOOLEAN
<1> DEFINE Fails(m2, f2) == [ok |-> FALSE, m |-> m2, f |-> f2]
<1>1. \A m2, f2 : Fails(m2, f2).ok \in BOOLEAN  OBVIOUS
<1>2. \A m2, f2 : [ok |-> TRUE, m |-> m2, f |-> f2].ok \in BOOLEAN  OBVIOUS
<1>3. \/ \E m2, f2 : r = Fails(m2, f2)
      \/ \E m2, f2 : r = [ok |-> TRUE, m |-> m2, f |-> f2]
  BY Zenon DEF AppendResults
<1>4. QED  BY <1>1, <1>2, <1>3, Zenon

\* The event an append records.
Ev(m, kind) == [cur |-> Cursor(m) + 1, id |-> born, kind |-> kind]

LEMMA EvOK ==
    ASSUME NEW m \in Mems, NEW kind \in Kinds, born \in Nat
    PROVE  Ev(m, kind) \in Events /\ Cursor(m) \in Nat
<1>1. Cursor(m) \in Nat
  <2>1. CASE m.cache = <<>>  BY <2>1 DEF Cursor
  <2>2. CASE m.cache # <<>>
    <3>1. m.cache \in Seq(Events) /\ Len(m.cache) \in 1..Len(m.cache)
      BY <2>2, EmptySeq, LenProperties DEF Mems
    <3>2. m.cache[Len(m.cache)] \in Events  BY <3>1, ElementOfSeq
    <3>3. QED  BY <2>2, <3>2 DEF Cursor, Last, Events
  <2>3. QED  BY <2>1, <2>2
<1>2. QED  BY <1>1 DEF Ev, Events

\* Every outcome of an append is one of these and leaves the journal sound.
LEMMA AppendSound ==
    ASSUME NEW m \in Mems, NEW f \in Files, WriterOK(m, f), NEW others \in Nat, NEW ev \in Events,
           NEW outs, NEW r \in AppendResults(m, f, others, ev, outs)
    PROVE  /\ Extends(m, f, others, ev, r)
           /\ \/ Refused(m, f, r)
              \/ TooShort(m, f, r)
              \/ "open" \in outs /\ NotOpened(m, f, r)
              \/ /\ CanOpen(m, f)
                 /\ \/ NoSpace(m, f, r)
                    \/ /\ HasSpace(m, f, others, ev)
                       /\ \/ "write" \in outs /\ TornWrite(m, f, ev, r)
                          \/ Written(m, f, ev, r)
<1>1. m.off \in Nat /\ Len(Recs(m, ev)) \in Nat  BY RecsOK DEF Mems
<1>2. Len(FileFound(f).data) \in Nat  BY FileFoundOK
<1>3. Limit(ev.kind) \in Nat /\ TotalQuota(ev.kind) \in Nat  BY LimitsOK
<1>4. Opened(m, f).m.size \in Nat
  <2>1. CASE m.wend = m.off  BY <2>1 DEF Opened, Mems
  <2>2. CASE m.wend # m.off
    <3>1. Opened(m, f).m = [WriterClosed(m) EXCEPT !.wend = m.off, !.size = m.off]
      BY <2>2 DEF Opened, Reopened
    <3>2. WriterClosed(m) \in Mems  BY WriterClosedOK
    <3>3. QED  BY <1>1, <3>1, <3>2 DEF Mems
  <2>3. QED  BY <2>1, <2>2
<1>5. r.ok \in BOOLEAN  BY OkIsBoolean
<1>6. \/ Refused(m, f, r)
      \/ TooShort(m, f, r)
      \/ "open" \in outs /\ NotOpened(m, f, r)
      \/ /\ CanOpen(m, f)
         /\ \/ NoSpace(m, f, r)
            \/ /\ HasSpace(m, f, others, ev)
               /\ \/ "write" \in outs /\ TornWrite(m, f, ev, r)
                  \/ Written(m, f, ev, r)
  BY <1>1, <1>2, <1>3, <1>4, AppendCases
<1>7. QED
  BY <1>5, <1>6, RefusedExtends, NoSpaceExtends, TornExtends, WrittenExtends

-----------------------------------------------------------------------------
(* The invariant of the journal files, whatever fails                      *)

Ats == {"down", "starting", "startsave", "free", "purge", "launch", "save", "eventsave", "failing",
        "export", "exportsave", "exportfailed"}

Disks == [phase : Phases, failed : BOOLEAN, off : Nat, cache : Seq(Events)]

Helds == [who : Attempts, prior : Seq(Events)]

Readers == [at : {"off", "replay", "cache", "live"}, last : Nat, got : Seq(Events),
         through : Nat, bytes : Nat, pos : Nat, events : Seq(Events),
         over : BOOLEAN, chan : Seq(Events)]

LEMMA TypeParts ==
    JournalTypeOK <=>
        /\ j \in [Attempts -> Mems] /\ fs \in [Attempts -> Files] /\ disk \in [Attempts -> Disks]
        /\ at \in Ats /\ held \in Helds /\ con \in Readers
        /\ mode \in Modes /\ due \subseteq Attempts /\ born \in Nat /\ lost \subseteq Events
BY Zenon DEF JournalTypeOK, Mems, Files, Disks, Ats, Helds, Readers, Phases

LEMMA TypePartsNext ==
    JournalTypeOK' <=>
        /\ j' \in [Attempts -> Mems] /\ fs' \in [Attempts -> Files] /\ disk' \in [Attempts -> Disks]
        /\ at' \in Ats /\ held' \in Helds /\ con' \in Readers
        /\ mode' \in Modes /\ due' \subseteq Attempts /\ born' \in Nat /\ lost' \subseteq Events
BY Zenon DEF JournalTypeOK, Mems, Files, Disks, Ats, Helds, Readers, Phases

FileSizes == [a \in Attempts |-> FileSize(fs[a])]

\* Where the holder of the mutex goes on with the attempt it holds.
Goes == {"eventsave", "failing", "export", "exportsave", "exportfailed"}

\* A replay reads records that its attempt has, in a file that keeps them.
ReaderOK ==
    /\ con.at # "off" => Serving /\ j[Followed].phase \in Owned \cup {"gone"}
    /\ con.at = "replay" =>
          /\ con.pos \in 1..con.bytes /\ con.pos <= Len(File)
          /\ Mine.phase \in Owned => con.bytes <= Mine.off /\ fs[Followed].linked

BaseInv ==
    /\ JournalTypeOK
    /\ at # "down" => \A a \in Attempts : WriterOK(j[a], fs[a])
    /\ Cardinality(Cells(FileSizes, Attempts)) <= TotalLimit + TotalReserve
    /\ at \in Goes => j[held.who].phase \in Owned
    /\ ReaderOK

LEMMA SizesOK ==
    ASSUME fs \in [Attempts -> Files] PROVE FileSizes \in Sizes
BY DEF FileSizes, Sizes, FileSize, Files

\* What is accounted to other attempts is what their files take.
LEMMA OthersOK ==
    ASSUME BaseInv, at # "down", NEW a \in Attempts
    PROVE  /\ OtherBytes(a) = Cardinality(Cells(FileSizes, Attempts \ {a}))
           /\ OtherBytes(a) \in Nat
<1>1. \A b \in Attempts : j[b].size = FileSizes[b]  BY DEF BaseInv, WriterOK, FileSizes
<1>2. {{b} \X (1..j[b].size) : b \in Attempts \ {a}} =
      {{b} \X (1..FileSizes[b]) : b \in Attempts \ {a}}
  BY <1>1
<1>3. OtherBytes(a) = Cardinality(Cells(FileSizes, Attempts \ {a}))
  BY <1>2, Zenon DEF OtherBytes, Accounted, Cells
<1>4. QED  BY <1>3, CellsFinite, SizesOK, TypeParts DEF BaseInv

LEMMA AllAccounted ==
    ASSUME BaseInv, at # "down"
    PROVE  Accounted(Attempts) = Cardinality(Cells(FileSizes, Attempts))
<1>1. \A b \in Attempts : j[b].size = FileSizes[b]  BY DEF BaseInv, WriterOK, FileSizes
<1>2. {{b} \X (1..j[b].size) : b \in Attempts} = {{b} \X (1..FileSizes[b]) : b \in Attempts}
  BY <1>1
<1>3. QED  BY <1>2, Zenon DEF Accounted, Cells

\* One file changes: it does not grow, or there was space.
LEMMA FileChanged ==
    ASSUME BaseInv, at # "down", NEW a \in Attempts, NEW f \in Files,
           fs' = [fs EXCEPT ![a] = f],
           FileSize(f) <= FileSize(fs[a]) \/ OtherBytes(a) + FileSize(f) <= TotalLimit + TotalReserve
    PROVE  /\ fs' \in [Attempts -> Files]
           /\ Cardinality(Cells(FileSizes', Attempts)) <= TotalLimit + TotalReserve
<1>1. fs \in [Attempts -> Files]  BY TypeParts DEF BaseInv
<1>2. fs' \in [Attempts -> Files]  BY <1>1
<1>3. FileSizes \in Sizes /\ FileSizes' \in Sizes
  BY <1>1, <1>2 DEF FileSizes, Sizes, FileSize, Files
<1>4. FileSizes'[a] = FileSize(f) /\ FileSizes[a] = FileSize(fs[a])
  BY <1>1 DEF FileSizes
<1>5. \A b \in Attempts \ {a} : FileSizes'[b] = FileSizes[b]  BY <1>1 DEF FileSizes
<1>6. FileSize(f) \in Nat /\ FileSize(fs[a]) \in Nat  BY <1>3, <1>4 DEF Sizes
<1>7. CASE FileSize(f) <= FileSize(fs[a])
  <2>1. \A b \in Attempts : FileSizes'[b] <= FileSizes[b]
    BY <1>3, <1>4, <1>5, <1>7 DEF Sizes
  <2>2. Cardinality(Cells(FileSizes', Attempts)) <= Cardinality(Cells(FileSizes, Attempts))
    BY <1>3, <2>1, CellsMonotone
  <2>3. /\ Cardinality(Cells(FileSizes', Attempts)) \in Nat
        /\ Cardinality(Cells(FileSizes, Attempts)) \in Nat
    BY <1>3, CellsFinite
  <2>4. QED  BY <1>2, <2>2, <2>3, JournalAssumption DEF BaseInv
<1>8. CASE OtherBytes(a) + FileSize(f) <= TotalLimit + TotalReserve
  <2>1. Cells(FileSizes', Attempts \ {a}) = Cells(FileSizes, Attempts \ {a})
    BY <1>5, CellsSame
  <2>2. Cardinality(Cells(FileSizes', Attempts)) = OtherBytes(a) + FileSize(f)
    BY <1>3, <1>4, <2>1, CellsSplit, OthersOK
  <2>3. QED  BY <1>2, <1>8, <2>2
<1>9. QED  BY <1>7, <1>8

\* No file grows.
LEMMA FilesShrink ==
    ASSUME BaseInv, fs' \in [Attempts -> Files],
           \A a \in Attempts : FileSize(fs'[a]) <= FileSize(fs[a])
    PROVE  Cardinality(Cells(FileSizes', Attempts)) <= TotalLimit + TotalReserve
<1>1. fs \in [Attempts -> Files]  BY TypeParts DEF BaseInv
<1>2. FileSizes \in Sizes /\ FileSizes' \in Sizes
  BY <1>1 DEF FileSizes, Sizes, FileSize, Files
<1>3. \A a \in Attempts : FileSizes'[a] <= FileSizes[a]  BY DEF FileSizes
<1>4. Cardinality(Cells(FileSizes', Attempts)) <= Cardinality(Cells(FileSizes, Attempts))
  BY <1>2, <1>3, CellsMonotone
<1>5. /\ Cardinality(Cells(FileSizes', Attempts)) \in Nat
      /\ Cardinality(Cells(FileSizes, Attempts)) \in Nat
  BY <1>2, CellsFinite
<1>6. QED  BY <1>4, <1>5, JournalAssumption DEF BaseInv

\* Two memories of a journal with the same writer.
SameWriter(m, n) == m.wend = n.wend /\ (m.dirty <=> n.dirty) /\ m.size = n.size /\ m.off = n.off

LEMMA SameWriterOK ==
    ASSUME NEW m, NEW n, NEW f, SameWriter(m, n), WriterOK(n, f) PROVE WriterOK(m, f)
BY DEF SameWriter, WriterOK

\* An event a handler appends to the journal of attempt a, whose writer it left alone.
LEMMA Appended ==
    ASSUME BaseInv, at # "down", NEW a \in Attempts, NEW m \in Mems, SameWriter(m, j[a]),
           NEW kind \in Kinds, NEW outs, NEW r \in Results(a, m, kind, outs), Wrote(a, r)
    PROVE  /\ Ev(m, kind) \in Events
           /\ Extends(m, fs[a], OtherBytes(a), Ev(m, kind), r)
           /\ fs' \in [Attempts -> Files] /\ fs' = [fs EXCEPT ![a] = r.f]
           /\ Cardinality(Cells(FileSizes', Attempts)) <= TotalLimit + TotalReserve
           /\ born' \in Nat
<1>1. fs[a] \in Files /\ born \in Nat /\ fs \in [Attempts -> Files]  BY TypeParts DEF BaseInv
<1>2. WriterOK(m, fs[a])  BY SameWriterOK DEF BaseInv
<1>3. Ev(m, kind) \in Events  BY <1>1, EvOK
<1>4. r \in AppendResults(m, fs[a], OtherBytes(a), Ev(m, kind), outs)  BY DEF Results, Ev
<1>5. OtherBytes(a) \in Nat  BY OthersOK
<1>6. Extends(m, fs[a], OtherBytes(a), Ev(m, kind), r)
  BY <1>1, <1>2, <1>3, <1>4, <1>5, AppendSound
<1>7. fs' = [fs EXCEPT ![a] = r.f] /\ born' \in Nat  BY <1>1 DEF Wrote
<1>8. /\ fs' \in [Attempts -> Files]
      /\ Cardinality(Cells(FileSizes', Attempts)) <= TotalLimit + TotalReserve
  BY <1>6, <1>7, FileChanged DEF Extends
<1>9. QED  BY <1>3, <1>6, <1>7, <1>8

\* The stream's channel is all a write changes of the stream.
LEMMA WroteStream ==
    ASSUME con \in Readers, NEW a, NEW r, Wrote(a, r), r.ok => Last(r.m.cache) \in Events
    PROVE  /\ con' \in Readers /\ con'.at = con.at /\ con'.pos = con.pos /\ con'.bytes = con.bytes
           /\ con'.last = con.last /\ con'.got = con.got /\ con'.events = con.events
           /\ con'.through = con.through
           /\ \/ con'.chan = con.chan
              \/ r.ok /\ a = Followed /\ con'.chan = Append(con.chan, Last(r.m.cache))
<1>1. CASE con' = con  BY <1>1
<1>2. CASE r.ok /\ a = Followed /\ con' = [con EXCEPT !.chan = Append(@, Last(r.m.cache))]
  <2> DEFINE ch == Append(con.chan, Last(r.m.cache))
  <2>1. ch \in Seq(Events)  BY <1>2, AppendProperties DEF Readers
  <2>2. con' = [con EXCEPT !.chan = ch]  BY <1>2
  <2> HIDE DEF ch
  <2>3. con' \in Readers  BY <2>1, <2>2 DEF Readers
  <2>4. /\ con'.at = con.at /\ con'.pos = con.pos /\ con'.bytes = con.bytes /\ con'.chan = ch
        /\ con'.last = con.last /\ con'.got = con.got /\ con'.events = con.events
        /\ con'.through = con.through
    BY <2>2 DEF Readers
  <2>5. QED  BY <1>2, <2>3, <2>4 DEF ch
<1>3. QED  BY <1>1, <1>2 DEF Wrote

LEMMA HotLast ==
    ASSUME NEW c \in Seq(Events), NEW ev \in Events
    PROVE  Last(Hot(c, ev)) = ev /\ Hot(c, ev) # <<>>
<1>1. Hot(c, ev)[Len(Hot(c, ev))] = ev /\ Len(Hot(c, ev)) >= 1 /\ Hot(c, ev) \in Seq(Events)
  BY HotOK
<1>2. QED  BY <1>1, EmptySeq DEF Last

\* A handler that appends and goes on, with the attempt in its hands.
LEMMA AppendingStep ==
    ASSUME BaseInv, at # "down", NEW a \in Attempts, NEW m \in Mems, SameWriter(m, j[a]),
           NEW kind \in Kinds, NEW outs, NEW r \in Results(a, m, kind, outs), Wrote(a, r),
           NEW m1 \in Mems, SameWriter(m1, r.m), m1.phase \in Owned, j' = [j EXCEPT ![a] = m1],
           a = Followed => j[a].phase \in Owned \/ con.at = "off",
           at' \in Ats \ {"down"}, Serving => Serving', held' \in Helds,
           at' \in Goes => held'.who = a,
           UNCHANGED <<disk, mode, due, lost>>
    PROVE  BaseInv'
<1>1. /\ j \in [Attempts -> Mems] /\ con \in Readers /\ disk \in [Attempts -> Disks]
      /\ mode \in Modes /\ due \subseteq Attempts /\ lost \subseteq Events
      /\ fs[a] \in Files /\ Followed \in Attempts
  BY TypeParts, JournalAssumption DEF BaseInv
<1>2. /\ Ev(m, kind) \in Events
      /\ Extends(m, fs[a], OtherBytes(a), Ev(m, kind), r)
      /\ fs' \in [Attempts -> Files] /\ fs' = [fs EXCEPT ![a] = r.f]
      /\ Cardinality(Cells(FileSizes', Attempts)) <= TotalLimit + TotalReserve
      /\ born' \in Nat
  BY Appended
<1>3. r.m \in Mems /\ r.f \in Files /\ WriterOK(r.m, r.f)  BY <1>2 DEF Extends
<1>4. r.ok => Last(r.m.cache) \in Events
  <2>1. m.cache \in Seq(Events)  BY DEF Mems
  <2>2. QED  BY <1>2, <2>1, HotLast DEF Extends
<1>5. con' \in Readers /\ con'.at = con.at /\ con'.pos = con.pos /\ con'.bytes = con.bytes
  BY <1>1, <1>4, WroteStream
<1>6. j' \in [Attempts -> Mems]  BY <1>1
<1>7. JournalTypeOK'  BY <1>1, <1>2, <1>5, <1>6, TypePartsNext
<1>8. \A b \in Attempts : WriterOK(j'[b], fs'[b])
  <2> TAKE b \in Attempts
  <2>1. CASE b = a
    <3>1. j'[b] = m1 /\ fs'[b] = r.f  BY <1>1, <1>2, <2>1 DEF BaseInv, JournalTypeOK
    <3>2. QED  BY <1>3, <3>1, SameWriterOK
  <2>2. CASE b # a
    <3>1. j'[b] = j[b] /\ fs'[b] = fs[b]  BY <1>1, <1>2, <2>2
    <3>2. QED  BY <3>1 DEF BaseInv
  <2>3. QED  BY <2>1, <2>2
<1>9. at' \in Goes => j'[held'.who].phase \in Owned  BY <1>1
<1>10. ReaderOK'
  <2>1. CASE con.at = "off"  BY <1>5, <2>1 DEF ReaderOK
  <2>2. CASE con.at # "off" /\ a # Followed
    <3>1. j'[Followed] = j[Followed] /\ fs'[Followed] = fs[Followed]
      BY <1>1, <1>2, <2>2
    <3>2. QED  BY <1>5, <2>2, <3>1 DEF BaseInv, ReaderOK, Mine, File
  <2>3. CASE con.at # "off" /\ a = Followed
    <3>1. j'[Followed] = m1 /\ fs'[Followed] = r.f /\ j[Followed].phase \in Owned
      BY <1>1, <1>2, <2>3, TypeParts DEF BaseInv
    <3>2. ASSUME con.at = "replay"
          PROVE  con.pos <= Len(r.f.data) /\ con.bytes <= m1.off /\ r.f.linked
      <4>1. /\ con.pos \in 1..con.bytes /\ con.pos <= Len(fs[a].data)
            /\ con.bytes <= j[a].off /\ fs[a].linked /\ con.bytes \in Nat
        BY <1>1, <2>3, <3>1, <3>2 DEF BaseInv, ReaderOK, Mine, File, Readers
      <4>2. m.off = j[a].off /\ m1.off = r.m.off /\ m.off \in Nat /\ r.m.off \in Nat
        BY <1>3 DEF SameWriter, Mems
      <4>3. CASE m.off <= Len(fs[a].data)
        <5>1. r.f.linked /\ r.m.off <= Len(r.f.data) /\ m.off <= r.m.off
          BY <1>2, <4>1, <4>3 DEF Extends
        <5>2. Len(r.f.data) \in Nat  BY <1>3 DEF Files
        <5>3. QED  BY <4>1, <4>2, <5>1, <5>2
      <4>4. CASE ~(m.off <= Len(fs[a].data))
        <5>1. WriterOK(m, fs[a])  BY SameWriterOK DEF BaseInv
        <5>2. r \in AppendResults(m, fs[a], OtherBytes(a), Ev(m, kind), outs)
          BY DEF Results, Ev
        <5>3. FileFound(fs[a]) = fs[a] /\ m.wend # m.off /\ ~CanOpen(m, fs[a])
          <6>1. FileFound(fs[a]) = fs[a]  BY <1>1, <4>1, FileFoundOK
          <6>2. Len(fs[a].data) \in Nat  BY <1>1 DEF Files
          <6>3. m.wend # m.off
            BY <4>2, <4>4, <5>1, <6>2 DEF WriterOK, NoWriter
          <6>4. QED  BY <4>2, <4>4, <6>1, <6>2, <6>3 DEF CanOpen
        <5>4. r.f = fs[a]
          <6>1. OtherBytes(a) \in Nat  BY OthersOK
          <6>2. Refused(m, fs[a], r) \/ TooShort(m, fs[a], r) \/ NotOpened(m, fs[a], r)
            BY <1>1, <1>2, <5>1, <5>2, <5>3, <6>1, AppendSound
          <6>3. QED  BY <5>3, <6>2 DEF Refused, TooShort, NotOpened
        <5>5. m.off <= r.m.off  BY <1>2 DEF Extends
        <5>6. QED  BY <4>1, <4>2, <5>4, <5>5
      <4>5. QED  BY <4>3, <4>4
    <3>3. Serving'  BY <2>3 DEF BaseInv, ReaderOK
    <3>4. con.at = "replay" => con.pos \in 1..con.bytes  BY DEF BaseInv, ReaderOK
    <3>5. QED  BY <1>5, <3>1, <3>2, <3>3, <3>4 DEF ReaderOK, Mine, File
  <2>4. QED  BY <2>1, <2>2, <2>3
<1>11. QED  BY <1>2, <1>7, <1>8, <1>9, <1>10 DEF BaseInv

\* The memory of an attempt with another phase, outcome or cache: the writer stays.
LEMMA EditPhase ==
    ASSUME NEW m \in Mems, NEW p \in Phases
    PROVE  LET n == [m EXCEPT !.phase = p] IN
           /\ n \in Mems /\ SameWriter(n, m) /\ n.phase = p
           /\ n.cache = m.cache /\ n.index = m.index
BY DEF Mems, SameWriter

LEMMA EditRunning ==
    ASSUME NEW m \in Mems, NEW b \in BOOLEAN
    PROVE  LET n == [m EXCEPT !.running = b] IN
           /\ n \in Mems /\ SameWriter(n, m) /\ n.phase = m.phase
           /\ n.cache = m.cache /\ n.index = m.index
BY DEF Mems, SameWriter

LEMMA EditFailed ==
    ASSUME NEW m \in Mems, NEW p \in Phases, NEW b \in BOOLEAN
    PROVE  LET n == [m EXCEPT !.phase = p, !.failed = b] IN
           /\ n \in Mems /\ SameWriter(n, m) /\ n.phase = p
           /\ n.cache = m.cache /\ n.index = m.index
BY DEF Mems, SameWriter

LEMMA EditFinished ==
    ASSUME NEW m \in Mems, NEW p \in Phases, NEW b \in BOOLEAN
    PROVE  LET n == [m EXCEPT !.phase = p, !.running = b] IN
           /\ n \in Mems /\ SameWriter(n, m) /\ n.phase = p
           /\ n.cache = m.cache /\ n.index = m.index
BY DEF Mems, SameWriter

LEMMA EditCache ==
    ASSUME NEW m \in Mems, NEW p \in Phases, NEW c \in Seq(Events)
    PROVE  LET n == [m EXCEPT !.cache = c, !.phase = p] IN
           /\ n \in Mems /\ SameWriter(n, m) /\ n.phase = p
           /\ n.cache = c /\ n.index = m.index
BY DEF Mems, SameWriter

LEMMA SameWriterSelf == ASSUME NEW m PROVE SameWriter(m, m)
BY DEF SameWriter

\* A step in which the stream and the records of its journal stay.
LEMMA QuietStep ==
    ASSUME BaseInv, JournalTypeOK', at' # "down", con' = con, Serving => Serving',
           \A a \in Attempts : WriterOK(j'[a], fs'[a]),
           Cardinality(Cells(FileSizes', Attempts)) <= TotalLimit + TotalReserve,
           at' \in Goes => j'[held'.who].phase \in Owned,
           con.at # "off" =>
              /\ j'[Followed].phase \in Owned \cup {"gone"}
              /\ fs'[Followed].data = fs[Followed].data
              /\ j'[Followed].phase \in Owned =>
                    /\ j[Followed].phase \in Owned /\ j'[Followed].off = j[Followed].off
                    /\ fs[Followed].linked => fs'[Followed].linked
    PROVE  BaseInv'
<1>1. ReaderOK'
  <2>1. CASE con.at = "off"  BY <2>1 DEF ReaderOK
  <2>2. CASE con.at # "off"  BY <2>2 DEF BaseInv, ReaderOK, Mine, File
  <2>3. QED  BY <2>1, <2>2
<1>2. QED  BY <1>1 DEF BaseInv

\* Only the memory of one attempt changes, and not its writer.
LEMMA PatchStep ==
    ASSUME BaseInv, at # "down", NEW a \in Attempts, NEW m \in Mems, SameWriter(m, j[a]),
           j' = [j EXCEPT ![a] = m], UNCHANGED <<fs, disk, con, mode, due, born, lost>>,
           j[a].phase \in Owned, m.phase \in Owned,
           at' \in Ats \ {"down"}, Serving => Serving', held' \in Helds,
           at' \in Goes => held'.who = a
    PROVE  BaseInv'
<1>1. /\ j \in [Attempts -> Mems] /\ fs \in [Attempts -> Files] /\ con \in Readers
      /\ disk \in [Attempts -> Disks] /\ born \in Nat
      /\ mode \in Modes /\ due \subseteq Attempts /\ lost \subseteq Events
      /\ Followed \in Attempts
  BY TypeParts, JournalAssumption DEF BaseInv
<1>2. j' \in [Attempts -> Mems] /\ j'[a] = m /\ \A b \in Attempts \ {a} : j'[b] = j[b]
  BY <1>1
<1>3. JournalTypeOK'  BY <1>1, <1>2, TypePartsNext
<1>4. ASSUME NEW b \in Attempts PROVE WriterOK(j'[b], fs'[b])
  BY <1>2, SameWriterOK DEF BaseInv
<1>5. Cardinality(Cells(FileSizes', Attempts)) <= TotalLimit + TotalReserve
  BY DEF BaseInv, FileSizes
<1>6. j'[Followed].off = j[Followed].off  BY <1>1, <1>2 DEF SameWriter
<1>7. con.at # "off" => /\ j'[Followed].phase \in Owned \cup {"gone"}
                        /\ j'[Followed].phase \in Owned => j[Followed].phase \in Owned
  BY <1>1, <1>2 DEF BaseInv, ReaderOK
<1>8. at' \in Goes => j'[held'.who].phase \in Owned  BY <1>2
<1>9. QED  BY <1>3, <1>4, <1>5, <1>6, <1>7, <1>8, QuietStep

LEMMA TakeOK ==
    ASSUME NEW a \in Attempts, NEW pc, Take(a, pc)
    PROVE  at' = pc /\ held' \in Helds /\ (pc # "free" => held'.who = a)
BY JournalAssumption DEF Take, Idle, Helds

\* What the proofs of the handlers have in common.
LEMMA HandlerFacts ==
    ASSUME BaseInv, NEW a \in Attempts
    PROVE  /\ j[a] \in Mems /\ fs[a] \in Files /\ SameWriter(j[a], j[a]) /\ mode \in Modes
           /\ {"live", "parked", "over"} \subseteq Phases
           /\ {"live", "parked", "over"} = Owned
           /\ TRUE \in BOOLEAN /\ FALSE \in BOOLEAN
           /\ Kinds = {"progress", "ask", "end"}
BY TypeParts, SameWriterSelf DEF BaseInv, Phases, Owned, Kinds

LEMMA RelaunchBase == ASSUME BaseInv, NEW a \in Attempts, Relaunch(a) PROVE BaseInv'
<1>1. at = "free" /\ j[a].phase = "live" /\ Take(a, "launch")  BY DEF Relaunch
<1>2. UNCHANGED <<fs, disk, con, mode, due, born, lost>> /\ j' = j  BY DEF Relaunch
<1>3. j' = [j EXCEPT ![a] = j[a]]  BY <1>2, TypeParts DEF BaseInv
<1>4. at' = "launch" /\ held' \in Helds  BY <1>1, TakeOK
<1>5. at' \in Ats \ {"down"} /\ Serving' /\ at' \notin Goes  BY <1>4 DEF Ats, Serving, Goes
<1>6. QED  BY <1>1, <1>2, <1>3, <1>4, <1>5, HandlerFacts, PatchStep

LEMMA HarnessEventBase ==
    ASSUME BaseInv, NEW a \in Attempts, NEW kind \in Kinds, HarnessEvent(a, kind) PROVE BaseInv'
<1>1. /\ at = "free" /\ j[a].phase \in Owned /\ UNCHANGED <<disk, mode, due, lost>>
      /\ \E r \in Results(a, j[a], kind, mode) :
            /\ Wrote(a, r)
            /\ \/ /\ r.ok /\ Take(a, "eventsave")
                  /\ Patch(a, [r.m EXCEPT !.phase = IF kind = "ask" THEN "parked" ELSE "live"])
               \/ ~r.ok /\ Take(a, "failing") /\ Patch(a, r.m)
  BY DEF HarnessEvent, Owned
<1>2. PICK r \in Results(a, j[a], kind, mode) :
        /\ Wrote(a, r)
        /\ \/ /\ r.ok /\ Take(a, "eventsave")
              /\ Patch(a, [r.m EXCEPT !.phase = IF kind = "ask" THEN "parked" ELSE "live"])
           \/ ~r.ok /\ Take(a, "failing") /\ Patch(a, r.m)
  BY <1>1
<1>3. r.m \in Mems /\ r.m.phase = j[a].phase
  BY <1>1, <1>2, HandlerFacts, Appended DEF Extends
<1>4. PICK m1 \in Mems : SameWriter(m1, r.m) /\ m1.phase \in Owned /\ j' = [j EXCEPT ![a] = m1]
  <2>1. CASE Patch(a, [r.m EXCEPT !.phase = IF kind = "ask" THEN "parked" ELSE "live"])
    <3> DEFINE p == IF kind = "ask" THEN "parked" ELSE "live"
    <3>1. p \in Phases /\ p \in Owned  BY DEF Phases, Owned
    <3> HIDE DEF p
    <3>2. LET n == [r.m EXCEPT !.phase = p] IN n \in Mems /\ SameWriter(n, r.m) /\ n.phase = p
      BY <1>3, <3>1, HandlerFacts, EditPhase
    <3>3. j' = [j EXCEPT ![a] = [r.m EXCEPT !.phase = p]]  BY <2>1 DEF Patch, p
    <3>4. QED  BY <3>1, <3>2, <3>3
  <2>2. CASE Patch(a, r.m)  BY <1>1, <1>3, <2>2, SameWriterSelf DEF Patch
  <2>3. QED  BY <1>2, <2>1, <2>2
<1>5. held' \in Helds /\ held'.who = a /\ at' \in {"eventsave", "failing"}  BY <1>2, TakeOK
<1>6. at' \in Ats \ {"down"} /\ Serving'  BY <1>5 DEF Ats, Serving
<1>7. QED  BY <1>1, <1>2, <1>4, <1>5, <1>6, HandlerFacts, AppendingStep

LEMMA FailHarnessEventBase == ASSUME BaseInv, FailHarnessEvent PROVE BaseInv'
<1> DEFINE a == held.who
           m == [j[a] EXCEPT !.phase = "live", !.failed = TRUE]
<1>1. /\ at = "failing" /\ UNCHANGED <<disk, mode, due, lost>>
      /\ \E r \in Results(a, m, "progress", mode) :
            Wrote(a, r) /\ Patch(a, r.m) /\ Take(a, "save")
  BY DEF FailHarnessEvent
<1>2. a \in Attempts /\ j[a].phase \in Owned
  BY <1>1, TypeParts DEF BaseInv, Helds, Goes
<1>3. m \in Mems /\ SameWriter(m, j[a]) /\ m.phase = "live"  BY <1>2, HandlerFacts, EditFailed
<1> HIDE DEF m, a
<1>4. PICK r \in Results(a, m, "progress", mode) :
        Wrote(a, r) /\ Patch(a, r.m) /\ Take(a, "save")
  BY <1>1
<1>5. r.m \in Mems /\ r.m.phase = m.phase
  BY <1>1, <1>2, <1>3, <1>4, HandlerFacts, Appended DEF Extends
<1>6. /\ SameWriter(r.m, r.m) /\ r.m.phase \in Owned /\ j' = [j EXCEPT ![a] = r.m]
      /\ "progress" \in Kinds
  BY <1>3, <1>4, <1>5, SameWriterSelf DEF Owned, Patch, Kinds
<1>7. held' \in Helds /\ held'.who = a /\ at' = "save"  BY <1>2, <1>4, TakeOK
<1>8. at' \in Ats \ {"down"} /\ Serving' /\ at # "down"  BY <1>1, <1>7 DEF Ats, Serving
<1>9. QED  BY <1>1, <1>2, <1>3, <1>4, <1>5, <1>6, <1>7, <1>8, AppendingStep

LEMMA RequestBase ==
    ASSUME BaseInv, NEW a \in Attempts, NEW kind \in {"progress", "ask"}, Request(a, kind)
    PROVE  BaseInv'
<1> DEFINE p == IF kind = "ask" THEN "parked" ELSE "live"
           m == [j[a] EXCEPT !.phase = p, !.failed = FALSE]
<1>1. /\ at = "free" /\ j[a].phase \in Owned /\ UNCHANGED <<disk, mode, due, lost>>
      /\ \E r \in Results(a, m, kind, mode) :
            /\ Wrote(a, r) /\ Patch(a, r.m)
            /\ Take(a, IF ~r.ok THEN "free" ELSE IF j[a].running THEN "save" ELSE "launch")
  BY DEF Request, Owned
<1>2. p \in Phases /\ p \in Owned /\ kind \in Kinds  BY DEF Phases, Owned, Kinds
<1> HIDE DEF p
<1>3. m \in Mems /\ SameWriter(m, j[a]) /\ m.phase = p  BY <1>2, HandlerFacts, EditFailed
<1> HIDE DEF m
<1>4. PICK r \in Results(a, m, kind, mode) :
        /\ Wrote(a, r) /\ Patch(a, r.m)
        /\ Take(a, IF ~r.ok THEN "free" ELSE IF j[a].running THEN "save" ELSE "launch")
  BY <1>1
<1>5. r.m \in Mems /\ r.m.phase = m.phase
  BY <1>1, <1>2, <1>3, <1>4, HandlerFacts, Appended DEF Extends
<1>6. SameWriter(r.m, r.m) /\ r.m.phase \in Owned /\ j' = [j EXCEPT ![a] = r.m]
  BY <1>2, <1>3, <1>4, <1>5, SameWriterSelf DEF Patch
<1>7. held' \in Helds /\ at' \in {"free", "save", "launch"}  BY <1>4, TakeOK
<1>8. at' \in Ats \ {"down"} /\ Serving' /\ at' \notin Goes  BY <1>7 DEF Ats, Serving, Goes
<1>9. QED  BY <1>1, <1>2, <1>3, <1>4, <1>5, <1>6, <1>7, <1>8, AppendingStep

LEMMA FinishesBase ==
    ASSUME BaseInv, at # "down", NEW a \in Attempts, NEW phase \in {"parked", "over"},
           j[a].phase \in Owned, Finishes(a, phase)
    PROVE  BaseInv'
<1> DEFINE m == [j[a] EXCEPT !.phase = phase, !.running = FALSE]
           kind == IF phase = "parked" THEN "ask" ELSE "end"
<1>1. /\ \/ AlreadyRecorded(m, phase) /\ Patch(a, m) /\ UNCHANGED <<fs, con, born>>
         \/ /\ ~AlreadyRecorded(m, phase)
            /\ \E r \in Results(a, m, kind, mode) : Wrote(a, r) /\ Patch(a, r.m)
      /\ Take(a, "save") /\ UNCHANGED <<disk, mode, due, lost>>
  BY DEF Finishes
<1>2. phase \in Phases /\ phase \in Owned /\ kind \in Kinds  BY DEF Phases, Owned, Kinds
<1>a. j[a] \in Mems /\ FALSE \in BOOLEAN  BY HandlerFacts
<1>3. m \in Mems /\ SameWriter(m, j[a]) /\ m.phase = phase  BY <1>2, <1>a, EditFinished, Zenon
<1> HIDE DEF m, kind
<1>4. held' \in Helds /\ held'.who = a /\ at' = "save"  BY <1>1, TakeOK
<1>5. at' \in Ats \ {"down"} /\ Serving'  BY <1>4 DEF Ats, Serving
<1>6. CASE Patch(a, m) /\ UNCHANGED <<fs, con, born>>
  BY <1>1, <1>2, <1>3, <1>4, <1>5, <1>6, PatchStep DEF Patch
<1>7. CASE \E r \in Results(a, m, kind, mode) : Wrote(a, r) /\ Patch(a, r.m)
  <2>1. PICK r \in Results(a, m, kind, mode) : Wrote(a, r) /\ Patch(a, r.m)  BY <1>7
  <2>2. r.m \in Mems /\ r.m.phase = m.phase
    BY <1>2, <1>3, <2>1, HandlerFacts, Appended DEF Extends
  <2>3. SameWriter(r.m, r.m) /\ r.m.phase \in Owned /\ j' = [j EXCEPT ![a] = r.m]
    BY <1>2, <1>3, <2>1, <2>2, SameWriterSelf DEF Patch
  <2>4. QED  BY <1>1, <1>2, <1>3, <1>4, <1>5, <2>1, <2>2, <2>3, AppendingStep
<1>8. QED  BY <1>1, <1>6, <1>7

LEMMA FinishBase ==
    ASSUME BaseInv, NEW a \in Attempts, NEW phase \in {"parked", "over"}, Finish(a, phase)
    PROVE  BaseInv'
<1>1. at # "down" /\ j[a].phase \in Owned /\ Finishes(a, phase)  BY DEF Finish, Owned
<1>2. QED  BY <1>1, FinishesBase

LEMMA ExportFailedBase == ASSUME BaseInv, ExportFailed PROVE BaseInv'
<1>1. at # "down" /\ Finishes(held.who, "over") /\ at \in Goes  BY DEF ExportFailed, Goes
<1>2. held.who \in Attempts /\ j[held.who].phase \in Owned
  BY <1>1, TypeParts DEF BaseInv, Helds
<1>3. QED  BY <1>1, <1>2, FinishesBase

LEMMA ExportBase == ASSUME BaseInv, NEW a \in Attempts, Export(a) PROVE BaseInv'
<1> DEFINE m == [j[a] EXCEPT !.running = FALSE]
<1>1. /\ at = "free" /\ j[a].phase = "live" /\ UNCHANGED <<disk, mode, due, lost>>
      /\ \E r \in Results(a, m, "progress", ExportFaults) :
            /\ Wrote(a, r) /\ Patch(a, r.m)
            /\ at' = IF r.ok THEN "export" ELSE "exportfailed"
            /\ held' = [who |-> a, prior |-> j[a].cache]
  BY DEF Export
<1>2. m \in Mems /\ SameWriter(m, j[a]) /\ m.phase = "live"  BY <1>1, HandlerFacts, EditRunning
<1> HIDE DEF m
<1>3. PICK r \in Results(a, m, "progress", ExportFaults) :
        /\ Wrote(a, r) /\ Patch(a, r.m)
        /\ at' = IF r.ok THEN "export" ELSE "exportfailed"
        /\ held' = [who |-> a, prior |-> j[a].cache]
  BY <1>1
<1>4. r.m \in Mems /\ r.m.phase = m.phase /\ "progress" \in Kinds
  BY <1>1, <1>2, <1>3, HandlerFacts, Appended DEF Extends
<1>5. SameWriter(r.m, r.m) /\ r.m.phase \in Owned /\ j' = [j EXCEPT ![a] = r.m]
  BY <1>2, <1>3, <1>4, SameWriterSelf DEF Patch, Owned
<1>6. held' \in Helds /\ held'.who = a /\ at' \in {"export", "exportfailed"}
  BY <1>3, HandlerFacts DEF Helds, Mems
<1>7. at' \in Ats \ {"down"} /\ Serving' /\ j[a].phase \in Owned
  BY <1>1, <1>6 DEF Ats, Serving, Owned
<1>8. QED  BY <1>1, <1>2, <1>3, <1>4, <1>5, <1>6, <1>7, AppendingStep

LEMMA RestoredOK ==
    ASSUME BaseInv, NEW m \in Mems
    PROVE  /\ Restored(m) \in Mems /\ SameWriter(Restored(m), m) /\ Restored(m).phase = "live"
           /\ Restored(m).cache = held.prior /\ Restored(m).index = m.index
<1>1. held.prior \in Seq(Events)  BY TypeParts DEF BaseInv, Helds
<1>2. "live" \in Phases /\ TRUE \in BOOLEAN  BY DEF Phases, Owned
<1>3. QED  BY <1>1, <1>2, EditCache DEF Restored

LEMMA ExportCompletesBase == ASSUME BaseInv, ExportCompletes PROVE BaseInv'
<1> DEFINE a == held.who
           m == [j[a] EXCEPT !.phase = "over"]
<1>1. /\ at = "export" /\ UNCHANGED <<disk, held, mode, due, lost>>
      /\ \E r \in Results(a, m, "end", ExportFaults) :
            /\ Wrote(a, r)
            /\ Patch(a, IF r.ok THEN r.m ELSE Restored(r.m))
            /\ at' = IF r.ok THEN "exportsave" ELSE "exportfailed"
  BY DEF ExportCompletes
<1>2. a \in Attempts /\ j[a].phase \in Owned /\ held \in Helds
  BY <1>1, TypeParts DEF BaseInv, Helds, Goes
<1>3. m \in Mems /\ SameWriter(m, j[a]) /\ m.phase = "over"  BY <1>2, HandlerFacts, EditPhase
<1>4. a = held.who  OBVIOUS
<1> HIDE DEF m, a
<1>5. PICK r \in Results(a, m, "end", ExportFaults) :
        /\ Wrote(a, r)
        /\ Patch(a, IF r.ok THEN r.m ELSE Restored(r.m))
        /\ at' = IF r.ok THEN "exportsave" ELSE "exportfailed"
  BY <1>1
<1>6. r.m \in Mems /\ r.m.phase = m.phase /\ "end" \in Kinds
  BY <1>1, <1>2, <1>3, <1>5, HandlerFacts, Appended DEF Extends
<1>7. PICK m1 \in Mems : SameWriter(m1, r.m) /\ m1.phase \in Owned /\ j' = [j EXCEPT ![a] = m1]
  <2>1. CASE Patch(a, r.m)
    BY <1>3, <1>6, <2>1, SameWriterSelf DEF Patch, Owned
  <2>2. CASE Patch(a, Restored(r.m))
    BY <1>6, <2>2, RestoredOK DEF Patch, Owned
  <2>3. QED  BY <1>5, <2>1, <2>2
<1>8. at' \in Ats \ {"down"} /\ Serving' /\ held' \in Helds /\ held'.who = a
  BY <1>1, <1>2, <1>4, <1>5 DEF Ats, Serving
<1>9. QED  BY <1>1, <1>2, <1>3, <1>5, <1>6, <1>7, <1>8, AppendingStep

LEMMA RemovedOK ==
    ASSUME NEW m \in Mems, NEW f \in Files, WriterOK(m, f), NEW outs, NEW q \in Removed(m, f, outs)
    PROVE  /\ q.m.size \in Nat /\ q.f \in Files /\ q.m.size = FileSize(q.f)
           /\ q.f.data = f.data /\ q.f.synced = f.synced /\ FileSize(q.f) <= FileSize(f)
           /\ q.f.linked => f.linked
<1> DEFINE c == WriterClosed(m)
<1>1. c \in Mems /\ c.size = m.size  BY WriterClosedOK
<1>2. m.size = FileSize(f) /\ FileSize(f) \in Nat  BY DEF WriterOK, FileSize, Files
<1> HIDE DEF c
<1>3. \/ q = [m |-> [c EXCEPT !.index = {}, !.size = 0], f |-> [f EXCEPT !.linked = FALSE]]
      \/ q = [m |-> [c EXCEPT !.index = {}], f |-> f]
  BY DEF Removed, c
<1>4. CASE q = [m |-> [c EXCEPT !.index = {}, !.size = 0], f |-> [f EXCEPT !.linked = FALSE]]
  <2> DEFINE g == [f EXCEPT !.linked = FALSE]
  <2>1. q.m.size = 0 /\ q.f = g  BY <1>1, <1>4 DEF Mems
  <2>2. g \in Files /\ ~g.linked /\ g.data = f.data /\ g.synced = f.synced  BY DEF Files
  <2>3. FileSize(g) = 0  BY <2>2 DEF FileSize
  <2>4. QED  BY <1>2, <2>1, <2>2, <2>3
<1>5. CASE q = [m |-> [c EXCEPT !.index = {}], f |-> f]
  <2>1. q.m.size = m.size /\ q.f = f  BY <1>1, <1>5 DEF Mems
  <2>2. QED  BY <1>2, <2>1
<1>6. QED  BY <1>3, <1>4, <1>5

\* The memory of an attempt whose record was dropped.
LEMMA DroppedOK ==
    ASSUME NEW n \in Nat, NEW f \in Files, n = FileSize(f)
    PROVE  /\ LET m == [Nothing EXCEPT !.size = n] IN
              m \in Mems /\ WriterOK(m, f) /\ m.phase = "none"
           /\ LET m == [Nothing EXCEPT !.phase = "gone", !.size = n] IN
              m \in Mems /\ WriterOK(m, f) /\ m.phase = "gone"
<1>1. Nothing \in Mems  BY DEF Nothing, Mems, Phases, Events
<1>2. LET m == [Nothing EXCEPT !.size = n] IN m \in Mems /\ WriterOK(m, f) /\ m.phase = "none"
  <2> DEFINE m == [Nothing EXCEPT !.size = n]
  <2>1. m \in Mems  BY <1>1 DEF Mems
  <2>2. m.phase = "none" /\ m.wend = NoWriter /\ m.dirty = FALSE /\ m.size = n  BY DEF Nothing
  <2>3. QED  BY <2>1, <2>2 DEF WriterOK
<1>3. LET m == [Nothing EXCEPT !.phase = "gone", !.size = n] IN
      m \in Mems /\ WriterOK(m, f) /\ m.phase = "gone"
  <2> DEFINE m == [Nothing EXCEPT !.phase = "gone", !.size = n]
  <2>1. m \in Mems  BY <1>1 DEF Mems, Phases
  <2>2. m.phase = "gone" /\ m.wend = NoWriter /\ m.dirty = FALSE /\ m.size = n  BY DEF Nothing
  <2>3. QED  BY <2>1, <2>2 DEF WriterOK
<1>4. QED  BY <1>2, <1>3, Zenon

LEMMA AcceptBase == ASSUME BaseInv, NEW a \in Attempts, Accept(a) PROVE BaseInv'
<1> DEFINE m == [j[a] EXCEPT !.phase = "live"]
           Falls(r) ==
              /\ ~r.ok
              /\ \E q \in Removed(r.m, r.f, mode) :
                    /\ fs' = [fs EXCEPT ![a] = q.f]
                    /\ Patch(a, [Nothing EXCEPT !.size = q.m.size])
              /\ at' = "free" /\ UNCHANGED <<held, con, born>>
<1>1. /\ at \in {"free", "purge"} /\ j[a].phase = "none" /\ UNCHANGED <<disk, mode, due, lost>>
      /\ \E r \in Results(a, m, "progress", mode) :
            \/ r.ok /\ Wrote(a, r) /\ Patch(a, r.m) /\ Take(a, "launch")
            \/ Falls(r)
  BY DEF Accept
<1>2. m \in Mems /\ SameWriter(m, j[a]) /\ m.phase = "live"  BY HandlerFacts, EditPhase
<1>3. a = Followed => con.at = "off"  BY <1>1 DEF BaseInv, ReaderOK, Owned
<1> HIDE DEF m
<1>4. PICK r \in Results(a, m, "progress", mode) :
        \/ r.ok /\ Wrote(a, r) /\ Patch(a, r.m) /\ Take(a, "launch")
        \/ Falls(r)
  BY <1>1
<1>5. CASE r.ok /\ Wrote(a, r) /\ Patch(a, r.m) /\ Take(a, "launch")
  <2>1. r.m \in Mems /\ r.m.phase = m.phase /\ "progress" \in Kinds
    BY <1>1, <1>2, <1>4, <1>5, HandlerFacts, Appended DEF Extends
  <2>2. SameWriter(r.m, r.m) /\ r.m.phase \in Owned /\ j' = [j EXCEPT ![a] = r.m]
    BY <1>2, <1>5, <2>1, SameWriterSelf DEF Patch, Owned
  <2>3. held' \in Helds /\ at' = "launch"  BY <1>5, TakeOK
  <2>4. at' \in Ats \ {"down"} /\ Serving' /\ at' \notin Goes  BY <2>3 DEF Ats, Serving, Goes
  <2>5. QED  BY <1>1, <1>2, <1>3, <1>4, <1>5, <2>1, <2>2, <2>3, <2>4, AppendingStep
<1>6. CASE Falls(r)
  <2>1. PICK q \in Removed(r.m, r.f, mode) :
          fs' = [fs EXCEPT ![a] = q.f] /\ Patch(a, [Nothing EXCEPT !.size = q.m.size])
    BY <1>6
  <2>2. /\ j \in [Attempts -> Mems] /\ fs \in [Attempts -> Files] /\ con \in Readers
        /\ disk \in [Attempts -> Disks] /\ born \in Nat /\ held \in Helds /\ fs[a] \in Files
        /\ mode \in Modes /\ due \subseteq Attempts /\ lost \subseteq Events
        /\ Followed \in Attempts
    BY TypeParts, JournalAssumption DEF BaseInv
  <2>3. Extends(m, fs[a], OtherBytes(a), Ev(m, "progress"), r)
    <3>1. WriterOK(m, fs[a])  BY <1>1, <1>2, SameWriterOK DEF BaseInv
    <3>2. Ev(m, "progress") \in Events  BY <1>2, <2>2, HandlerFacts, EvOK
    <3>3. r \in AppendResults(m, fs[a], OtherBytes(a), Ev(m, "progress"), mode)
      BY DEF Results, Ev
    <3>4. QED  BY <1>1, <1>2, <2>2, <3>1, <3>2, <3>3, OthersOK, AppendSound
  <2>4. /\ q.m.size \in Nat /\ q.f \in Files /\ q.m.size = FileSize(q.f)
        /\ FileSize(q.f) <= FileSize(r.f) /\ FileSize(r.f) \in Nat
    <3>1. r.m \in Mems /\ r.f \in Files /\ WriterOK(r.m, r.f)  BY <2>3 DEF Extends
    <3>2. FileSize(r.f) \in Nat  BY <3>1 DEF Files, FileSize
    <3>3. QED  BY <2>1, <3>1, <3>2, RemovedOK
  <2> DEFINE m1 == [Nothing EXCEPT !.size = q.m.size]
  <2>5. m1 \in Mems /\ WriterOK(m1, q.f)  BY <2>4, DroppedOK
  <2>6. j' = [j EXCEPT ![a] = m1]  BY <2>1 DEF Patch
  <2> HIDE DEF m1
  <2>7. /\ fs' \in [Attempts -> Files]
        /\ Cardinality(Cells(FileSizes', Attempts)) <= TotalLimit + TotalReserve
    <3>1. \/ FileSize(q.f) <= FileSize(fs[a])
          \/ OtherBytes(a) + FileSize(q.f) <= TotalLimit + TotalReserve
      <4>1. /\ FileSize(fs[a]) \in Nat /\ OtherBytes(a) \in Nat /\ FileSize(q.f) \in Nat
            /\ TotalLimit + TotalReserve \in Nat
        <5>1. FileSize(fs[a]) \in Nat  BY <2>2 DEF Files, FileSize
        <5>2. OtherBytes(a) \in Nat  BY <1>1, OthersOK
        <5>3. QED  BY <2>4, <5>1, <5>2, JournalAssumption
      <4>2. \/ FileSize(r.f) <= FileSize(fs[a])
            \/ OtherBytes(a) + FileSize(r.f) <= TotalLimit + TotalReserve
        BY <2>3 DEF Extends
      <4>3. QED  BY <2>4, <4>1, <4>2
    <3>2. QED  BY <1>1, <2>1, <2>4, <3>1, FileChanged
  <2>8. j' \in [Attempts -> Mems] /\ at' \in Ats /\ UNCHANGED <<held, con, born>>
    BY <1>6, <2>2, <2>5, <2>6 DEF Ats
  <2>9. JournalTypeOK'  BY <1>1, <2>2, <2>7, <2>8, TypePartsNext
  <2>10. ASSUME NEW b \in Attempts PROVE WriterOK(j'[b], fs'[b])
    BY <1>1, <2>1, <2>2, <2>5, <2>6 DEF BaseInv
  <2>11. con.at # "off" => j'[Followed] = j[Followed] /\ fs'[Followed] = fs[Followed]
    BY <1>3, <2>1, <2>2, <2>6
  <2>12. con.at # "off" => j[Followed].phase \in Owned \cup {"gone"}  BY DEF BaseInv, ReaderOK
  <2>13. at' = "free"  BY <1>6
  <2>14. at' # "down" /\ at' \notin Goes /\ Serving'  BY <2>13 DEF Goes, Serving
  <2>15. QED  BY <2>7, <2>8, <2>9, <2>10, <2>11, <2>12, <2>14, QuietStep
<1>7. QED  BY <1>4, <1>5, <1>6

LEMMA DropBase == ASSUME BaseInv, NEW a \in Attempts, Drop(a) PROVE BaseInv'
<1>1. /\ at \in {"free", "purge", "startsave"} /\ j[a].phase \in {"parked", "over"}
      /\ at' = (IF at = "startsave" THEN at ELSE "purge") /\ due' = due \cup {a}
      /\ UNCHANGED <<disk, held, con, mode, born, lost>>
  BY DEF Drop
<1>2. PICK q \in Removed(j[a], fs[a], mode) :
        /\ Patch(a, [Nothing EXCEPT !.phase = "gone", !.size = q.m.size])
        /\ fs' = [fs EXCEPT ![a] = q.f]
  BY DEF Drop
<1>3. /\ j \in [Attempts -> Mems] /\ fs \in [Attempts -> Files] /\ con \in Readers
      /\ disk \in [Attempts -> Disks] /\ born \in Nat /\ held \in Helds
      /\ j[a] \in Mems /\ fs[a] \in Files /\ WriterOK(j[a], fs[a])
      /\ mode \in Modes /\ due \subseteq Attempts /\ lost \subseteq Events
      /\ Followed \in Attempts
  BY <1>1, TypeParts, JournalAssumption DEF BaseInv
<1>4. /\ q.m.size \in Nat /\ q.f \in Files /\ q.m.size = FileSize(q.f) /\ q.f.data = fs[a].data
      /\ FileSize(q.f) <= FileSize(fs[a])
  BY <1>2, <1>3, RemovedOK
<1> DEFINE m1 == [Nothing EXCEPT !.phase = "gone", !.size = q.m.size]
<1>5. m1 \in Mems /\ WriterOK(m1, q.f) /\ m1.phase = "gone"  BY <1>4, DroppedOK
<1>6. j' = [j EXCEPT ![a] = m1]  BY <1>2 DEF Patch
<1> HIDE DEF m1
<1>7. /\ fs' \in [Attempts -> Files]
      /\ Cardinality(Cells(FileSizes', Attempts)) <= TotalLimit + TotalReserve
  BY <1>1, <1>2, <1>4, FileChanged
<1>8. j' \in [Attempts -> Mems] /\ at' \in Ats \ {"down"} /\ due' \subseteq Attempts
  BY <1>1, <1>3, <1>5, <1>6 DEF Ats
<1>9. JournalTypeOK'  BY <1>1, <1>3, <1>7, <1>8, TypePartsNext
<1>10. ASSUME NEW b \in Attempts PROVE WriterOK(j'[b], fs'[b])
  BY <1>1, <1>2, <1>3, <1>5, <1>6 DEF BaseInv
<1>11. fs'[Followed].data = fs[Followed].data  BY <1>2, <1>3, <1>4
<1>12. CASE a = Followed
  <2>1. j'[Followed].phase = "gone"  BY <1>3, <1>5, <1>6, <1>12
  <2>2. Serving => Serving'  BY <1>1 DEF Serving
  <2>3. at' \notin Goes  BY <1>1 DEF Goes
  <2>4. "gone" \notin Owned  BY DEF Owned
  <2>5. QED  BY <1>1, <1>7, <1>8, <1>9, <1>10, <1>11, <2>1, <2>2, <2>3, <2>4, QuietStep
<1>13. CASE a # Followed
  <2>1. j'[Followed] = j[Followed] /\ fs'[Followed] = fs[Followed]
    BY <1>2, <1>3, <1>6, <1>13
  <2>2. Serving => Serving'  BY <1>1 DEF Serving
  <2>3. at' \notin Goes  BY <1>1 DEF Goes
  <2>4. con.at # "off" => j[Followed].phase \in Owned \cup {"gone"}  BY DEF BaseInv, ReaderOK
  <2>5. QED  BY <1>1, <1>7, <1>8, <1>9, <1>10, <2>1, <2>2, <2>3, <2>4, QuietStep
<1>14. QED  BY <1>12, <1>13

\* The process is down: only the files count.
LEMMA DownStep ==
    ASSUME JournalTypeOK', at' = "down", con'.at = "off",
           Cardinality(Cells(FileSizes', Attempts)) <= TotalLimit + TotalReserve
    PROVE  BaseInv'
BY DEF BaseInv, ReaderOK, Goes

LEMMA NothingOK == Nothing \in Mems /\ NoFile \in Files /\ FileSize(NoFile) = 0
BY DEF Nothing, Mems, Phases, Events, NoFile, Files, FileSize

LEMMA RecoverBase == ASSUME BaseInv, NEW a \in Attempts, Recover(a) PROVE BaseInv'
<1> DEFINE m == [j[a] EXCEPT !.phase = "parked"]
           outs == IF Room THEN mode ELSE {}
<1>1. /\ at = "starting" /\ j[a].phase = "live" /\ UNCHANGED <<disk, held, mode, due, lost>>
      /\ \E r \in Results(a, m, "ask", outs) :
            /\ Wrote(a, r)
            /\ \/ r.ok /\ Patch(a, r.m) /\ at' = at
               \/ ~r.ok /\ at' = "down" /\ j' = [b \in Attempts |-> Nothing]
  BY DEF Recover
<1>2. m \in Mems /\ SameWriter(m, j[a]) /\ m.phase = "parked"  BY HandlerFacts, EditPhase
<1>3. con.at = "off"  BY <1>1 DEF BaseInv, ReaderOK, Serving
<1> HIDE DEF m, outs
<1>4. PICK r \in Results(a, m, "ask", outs) :
        /\ Wrote(a, r)
        /\ \/ r.ok /\ Patch(a, r.m) /\ at' = at
           \/ ~r.ok /\ at' = "down" /\ j' = [b \in Attempts |-> Nothing]
  BY <1>1
<1>5. /\ held \in Helds /\ disk \in [Attempts -> Disks] /\ con \in Readers /\ mode \in Modes
      /\ due \subseteq Attempts /\ lost \subseteq Events
  BY TypeParts DEF BaseInv
<1>6. /\ Extends(m, fs[a], OtherBytes(a), Ev(m, "ask"), r) /\ "ask" \in Kinds
      /\ fs' \in [Attempts -> Files] /\ born' \in Nat
      /\ Cardinality(Cells(FileSizes', Attempts)) <= TotalLimit + TotalReserve
  BY <1>1, <1>2, <1>4, HandlerFacts, Appended
<1>7. CASE r.ok /\ Patch(a, r.m) /\ at' = at
  <2>1. r.m \in Mems /\ r.m.phase = m.phase  BY <1>6 DEF Extends
  <2>2. SameWriter(r.m, r.m) /\ r.m.phase \in Owned /\ j' = [j EXCEPT ![a] = r.m]
    BY <1>2, <1>7, <2>1, SameWriterSelf DEF Patch, Owned
  <2>3. at' \in Ats \ {"down"} /\ ~Serving /\ at' \notin Goes
    BY <1>1, <1>7 DEF Ats, Serving, Goes
  <2>4. QED  BY <1>1, <1>2, <1>3, <1>4, <1>5, <1>6, <2>1, <2>2, <2>3, AppendingStep
<1>8. CASE ~r.ok /\ at' = "down" /\ j' = [b \in Attempts |-> Nothing]
  <2>1. con' \in Readers /\ con'.at = "off"  BY <1>3, <1>4, <1>5, <1>8, WroteStream
  <2>2. j' \in [Attempts -> Mems] /\ at' \in Ats  BY <1>8, NothingOK DEF Ats
  <2>3. JournalTypeOK'  BY <1>1, <1>5, <1>6, <2>1, <2>2, TypePartsNext
  <2>4. QED  BY <1>6, <1>8, <2>1, <2>3, DownStep
<1>9. QED  BY <1>4, <1>7, <1>8

LEMMA SyncedFilesOK ==
    ASSUME fs \in [Attempts -> Files]
    PROVE  /\ SyncedFiles \in [Attempts -> Files]
           /\ \A a \in Attempts :
                 /\ SyncedFiles[a].data = fs[a].data /\ (SyncedFiles[a].linked <=> fs[a].linked)
                 /\ FileSize(SyncedFiles[a]) = FileSize(fs[a])
                 /\ SyncedFiles[a].synced = IF j[a].wend # NoWriter /\ j[a].dirty
                                            THEN Len(fs[a].data) ELSE fs[a].synced
<1>1. ASSUME NEW a \in Attempts
      PROVE  /\ SyncedFiles[a] \in Files
             /\ SyncedFiles[a].data = fs[a].data /\ (SyncedFiles[a].linked <=> fs[a].linked)
             /\ SyncedFiles[a].synced = IF j[a].wend # NoWriter /\ j[a].dirty
                                        THEN Len(fs[a].data) ELSE fs[a].synced
  <2>1. SyncedFiles[a] = IF j[a].wend # NoWriter /\ j[a].dirty
                         THEN [fs[a] EXCEPT !.synced = Len(fs[a].data)] ELSE fs[a]
    BY DEF SyncedFiles
  <2>2. fs[a] \in Files /\ Len(fs[a].data) \in Nat  BY DEF Files
  <2>3. /\ [fs[a] EXCEPT !.synced = Len(fs[a].data)] \in Files
        /\ [fs[a] EXCEPT !.synced = Len(fs[a].data)].data = fs[a].data
        /\ [fs[a] EXCEPT !.synced = Len(fs[a].data)].linked = fs[a].linked
        /\ [fs[a] EXCEPT !.synced = Len(fs[a].data)].synced = Len(fs[a].data)
    BY <2>2 DEF Files
  <2>4. CASE j[a].wend # NoWriter /\ j[a].dirty  BY <2>1, <2>3, <2>4
  <2>5. CASE ~(j[a].wend # NoWriter /\ j[a].dirty)  BY <2>1, <2>2, <2>5
  <2>6. QED  BY <2>4, <2>5
<1>2. SyncedFiles \in [Attempts -> Files]
  <2>1. SyncedFiles = [a \in Attempts |-> SyncedFiles[a]]  BY DEF SyncedFiles
  <2>2. QED  BY <1>1, <2>1
<1>3. \A a \in Attempts : FileSize(SyncedFiles[a]) = FileSize(fs[a])  BY <1>1 DEF FileSize
<1>4. QED  BY <1>1, <1>2, <1>3

LEMMA ImageOK ==
    ASSUME j \in [Attempts -> Mems]
    PROVE  /\ Image \in [Attempts -> Disks]
           /\ \A a \in Attempts :
                 /\ Image[a].phase = j[a].phase /\ Image[a].off = j[a].off
                 /\ Image[a].cache = IF j[a].off > 0 /\ Len(j[a].cache) > 1
                                     THEN <<Last(j[a].cache)>> ELSE j[a].cache
<1>1. ASSUME NEW a \in Attempts
      PROVE  /\ Image[a] \in Disks /\ Image[a].phase = j[a].phase /\ Image[a].off = j[a].off
             /\ Image[a].cache = IF j[a].off > 0 /\ Len(j[a].cache) > 1
                                 THEN <<Last(j[a].cache)>> ELSE j[a].cache
  <2> DEFINE c == IF j[a].off > 0 /\ Len(j[a].cache) > 1
                  THEN <<Last(j[a].cache)>> ELSE j[a].cache
  <2>1. j[a] \in Mems /\ j[a].cache \in Seq(Events)  BY DEF Mems
  <2>2. c \in Seq(Events)
    <3>1. CASE j[a].off > 0 /\ Len(j[a].cache) > 1
      <4>1. Len(j[a].cache) \in 1..Len(j[a].cache)  BY <2>1, <3>1, LenProperties
      <4>2. Last(j[a].cache) \in Events  BY <2>1, <4>1, ElementOfSeq DEF Last
      <4>3. QED  BY <3>1, <4>2
    <3>2. CASE ~(j[a].off > 0 /\ Len(j[a].cache) > 1)
      <4>1. c = j[a].cache  BY <3>2
      <4>2. QED  BY <2>1, <4>1
    <3>3. QED  BY <3>1, <3>2
  <2>3. Image[a] = [phase |-> j[a].phase, failed |-> j[a].failed, off |-> j[a].off, cache |-> c]
    BY DEF Image
  <2> HIDE DEF c
  <2>4. Image[a] \in Disks  BY <2>1, <2>2, <2>3 DEF Disks, Mems
  <2>5. Image[a].phase = j[a].phase /\ Image[a].off = j[a].off /\ Image[a].cache = c  BY <2>3
  <2>6. QED  BY <2>4, <2>5 DEF c
<1>2. Image = [a \in Attempts |-> Image[a]]  BY DEF Image
<1>3. QED  BY <1>1, <1>2

LEMMA AfterSaveOK ==
    ASSUME j \in [Attempts -> Mems]
    PROVE  /\ AfterSave \in [Attempts -> Mems]
           /\ \A a \in Attempts :
                 LET n == AfterSave[a] IN
                 /\ n.phase = j[a].phase /\ n.off = j[a].off /\ n.cache = j[a].cache
                 /\ n.index = j[a].index /\ n.size = j[a].size /\ ~n.dirty
                 /\ n.wend = IF j[a].phase = "live" THEN j[a].wend ELSE NoWriter
                 /\ n.running <=> j[a].running \/ (at = "launch" /\ a = held.who)
<1>1. ASSUME NEW a \in Attempts
      PROVE  LET n == AfterSave[a] IN
             /\ n \in Mems
             /\ n.phase = j[a].phase /\ n.off = j[a].off /\ n.cache = j[a].cache
             /\ n.index = j[a].index /\ n.size = j[a].size /\ ~n.dirty
             /\ n.wend = IF j[a].phase = "live" THEN j[a].wend ELSE NoWriter
             /\ n.running <=> j[a].running \/ (at = "launch" /\ a = held.who)
  <2> DEFINE b == j[a].running \/ (at = "launch" /\ a = held.who)
             w == IF j[a].phase = "live" THEN j[a].wend ELSE NoWriter
             n == [j[a] EXCEPT !.dirty = FALSE, !.running = b, !.wend = w]
  <2>1. j[a] \in Mems /\ b \in BOOLEAN /\ w \in Nat \cup {NoWriter}  BY DEF Mems
  <2>2. AfterSave[a] = n  BY DEF AfterSave
  <2> HIDE DEF b, w
  <2>3. n \in Mems  BY <2>1 DEF Mems
  <2>4. /\ n.phase = j[a].phase /\ n.off = j[a].off /\ n.cache = j[a].cache
        /\ n.index = j[a].index /\ n.size = j[a].size /\ ~n.dirty /\ n.wend = w /\ (n.running <=> b)
    BY <2>1 DEF Mems
  <2> HIDE DEF n
  <2>5. QED  BY <2>2, <2>3, <2>4 DEF b, w
<1>2. AfterSave = [a \in Attempts |-> AfterSave[a]]  BY DEF AfterSave
<1>3. QED  BY <1>1, <1>2

\* What a step does that changes how files are synced and what the disk holds, and
\* leaves records, offsets and accounting.
LEMMA SavingStep ==
    ASSUME BaseInv, at # "down", fs' \in {fs, SyncedFiles}, disk' \in {disk, Image},
           j' \in [Attempts -> Mems],
           \A a \in Attempts :
              /\ j'[a].off = j[a].off /\ j'[a].size = j[a].size
              /\ j'[a].wend \in {j[a].wend, NoWriter} /\ (j'[a].dirty => j'[a].wend # NoWriter)
              /\ j'[a].phase # j[a].phase =>
                    j[a].phase \in Owned /\ j'[a].phase \in Owned,
           at' \in Ats \ {"down"}, held' \in Helds, Serving => Serving',
           at' \in Goes => at \in Goes /\ held' = held,
           UNCHANGED <<con, mode, due, born, lost>>
    PROVE  BaseInv'
<1>1. /\ j \in [Attempts -> Mems] /\ fs \in [Attempts -> Files] /\ con \in Readers
      /\ disk \in [Attempts -> Disks] /\ born \in Nat /\ held \in Helds
      /\ mode \in Modes /\ due \subseteq Attempts /\ lost \subseteq Events
      /\ Followed \in Attempts
  BY TypeParts, JournalAssumption DEF BaseInv
<1>2. /\ fs' \in [Attempts -> Files]
      /\ \A a \in Attempts : /\ fs'[a].data = fs[a].data /\ (fs'[a].linked <=> fs[a].linked)
                             /\ FileSize(fs'[a]) = FileSize(fs[a])
  BY <1>1, SyncedFilesOK
<1>3. disk' \in [Attempts -> Disks]  BY <1>1, ImageOK
<1>4. JournalTypeOK'  BY <1>1, <1>2, <1>3, TypePartsNext
<1>5. ASSUME NEW a \in Attempts PROVE WriterOK(j'[a], fs'[a])
  BY <1>2 DEF BaseInv, WriterOK
<1>6. Cardinality(Cells(FileSizes', Attempts)) <= TotalLimit + TotalReserve
  <2>1. \A a \in Attempts : FileSize(fs[a]) \in Nat  BY <1>1 DEF Files, FileSize
  <2>2. QED  BY <1>2, <2>1, FilesShrink
<1>7. at' \in Goes => j'[held'.who].phase \in Owned
  <2>1. at' \in Goes => j[held.who].phase \in Owned /\ held.who \in Attempts
    BY <1>1 DEF BaseInv, Helds
  <2>2. QED  BY <2>1
<1>8. con.at # "off" => j[Followed].phase \in Owned \cup {"gone"}  BY DEF BaseInv, ReaderOK
<1>9. QED  BY <1>1, <1>2, <1>4, <1>5, <1>6, <1>7, <1>8, QuietStep

LEMMA PersistBase == ASSUME BaseInv, Persist PROVE BaseInv'
<1>1. /\ at \in {"purge", "launch", "save", "eventsave", "exportsave"}
      /\ fs' = SyncedFiles /\ disk' = Image /\ j' = AfterSave
      /\ at' = "free" /\ held' = Idle /\ UNCHANGED <<con, mode, due, born, lost>>
  BY DEF Persist, SaveOk
<1>2. j \in [Attempts -> Mems]  BY TypeParts DEF BaseInv
<1>3. \A a \in Attempts : j[a].phase \in Phases  BY <1>2 DEF Mems
<1>4. /\ j' \in [Attempts -> Mems]
      /\ \A a \in Attempts :
              /\ j'[a].off = j[a].off /\ j'[a].size = j[a].size /\ j'[a].phase = j[a].phase
              /\ j'[a].wend \in {j[a].wend, NoWriter} /\ ~j'[a].dirty
  BY <1>1, <1>2, AfterSaveOK
<1>5. held' \in Helds  BY <1>1, JournalAssumption DEF Idle, Helds
<1>6. at' \in Ats \ {"down"} /\ Serving' /\ at' \notin Goes /\ at # "down"
  BY <1>1 DEF Ats, Serving, Goes
<1>7. QED  BY <1>1, <1>4, <1>5, <1>6, SavingStep

LEMMA PersistFailsBase == ASSUME BaseInv, PersistFails PROVE BaseInv'
<1> DEFINE after == IF at = "exportsave" THEN [j EXCEPT ![held.who] = Restored(@)] ELSE j
<1>1. /\ at \in {"purge", "launch", "save", "eventsave", "exportsave"}
      /\ SaveFails(after)
      /\ at' = CASE at = "eventsave"  -> "failing"
                 [] at = "exportsave" -> "exportfailed"
                 [] OTHER             -> "free"
      /\ held' = (IF at' = "free" THEN Idle ELSE held)
      /\ UNCHANGED <<con, mode, due, born, lost>>
  BY DEF PersistFails
<1>2. j \in [Attempts -> Mems] /\ held \in Helds /\ held.who \in Attempts
  BY TypeParts DEF BaseInv, Helds
<1>3. /\ after \in [Attempts -> Mems]
      /\ \A a \in Attempts :
            /\ after[a].off = j[a].off /\ after[a].size = j[a].size
            /\ after[a].wend = j[a].wend /\ (after[a].dirty <=> j[a].dirty)
            /\ after[a].phase # j[a].phase =>
                  at = "exportsave" /\ a = held.who /\ after[a].phase = "live"
  <2>1. CASE at = "exportsave"
    <3>1. j[held.who] \in Mems  BY <1>2
    <3> DEFINE x == Restored(j[held.who])
    <3>2. x \in Mems /\ SameWriter(x, j[held.who]) /\ x.phase = "live"
      BY <3>1, RestoredOK
    <3>3. after = [j EXCEPT ![held.who] = x]  BY <2>1
    <3> HIDE DEF x, after
    <3>4. after \in [Attempts -> Mems]  BY <1>2, <3>2, <3>3
    <3>5. after[held.who] = x /\ \A a \in Attempts \ {held.who} : after[a] = j[a]
      BY <1>2, <3>3
    <3>6. QED  BY <1>2, <2>1, <3>2, <3>4, <3>5 DEF SameWriter
  <2>2. CASE at # "exportsave"  BY <1>2, <2>2
  <2>3. QED  BY <2>1, <2>2
<1>4. at = "exportsave" => j[held.who].phase \in Owned  BY DEF BaseInv, Goes
<1> HIDE DEF after
<1>5. /\ fs' \in {fs, SyncedFiles} /\ disk' \in {disk, Image}
      /\ \/ j' = after
         \/ j' = [a \in Attempts |-> [after[a] EXCEPT !.dirty = FALSE]]
  BY <1>1 DEF SaveFails
<1>6. /\ j' \in [Attempts -> Mems]
      /\ \A a \in Attempts :
            /\ j'[a].off = j[a].off /\ j'[a].size = j[a].size /\ j'[a].wend = j[a].wend
            /\ j'[a].dirty => j[a].dirty
            /\ j'[a].phase # j[a].phase =>
                  at = "exportsave" /\ a = held.who /\ j'[a].phase = "live"
  <2>1. CASE j' = after  BY <1>3, <2>1
  <2>2. CASE j' = [a \in Attempts |-> [after[a] EXCEPT !.dirty = FALSE]]
    <3>1. ASSUME NEW a \in Attempts
          PROVE  LET n == [after[a] EXCEPT !.dirty = FALSE] IN
                 /\ n \in Mems /\ n.off = after[a].off /\ n.size = after[a].size
                 /\ n.wend = after[a].wend /\ ~n.dirty /\ n.phase = after[a].phase
      <4>1. after[a] \in Mems  BY <1>3
      <4>2. QED  BY <4>1 DEF Mems
    <3>2. j' \in [Attempts -> Mems]  BY <2>2, <3>1
    <3>3. ASSUME NEW a \in Attempts
          PROVE  /\ j'[a].off = after[a].off /\ j'[a].size = after[a].size
                 /\ j'[a].wend = after[a].wend /\ ~j'[a].dirty /\ j'[a].phase = after[a].phase
      <4>1. j'[a] = [after[a] EXCEPT !.dirty = FALSE]  BY <2>2
      <4>2. QED  BY <3>1, <4>1
    <3>4. QED  BY <1>3, <3>2, <3>3
  <2>3. QED  BY <1>5, <2>1, <2>2
<1>7. \A a \in Attempts : j'[a].dirty => j'[a].wend # NoWriter
  BY <1>1, <1>6 DEF BaseInv, WriterOK
<1>8. /\ at' \in {"failing", "exportfailed", "free"}
      /\ at' # "free" => at \in {"eventsave", "exportsave"}
  BY <1>1
<1>9. held' \in Helds  BY <1>1, <1>2, JournalAssumption DEF Idle, Helds
<1>10. /\ at' \in Ats \ {"down"} /\ Serving' /\ at # "down"
       /\ at' \in Goes => at \in Goes /\ held' = held
  BY <1>1, <1>8 DEF Ats, Serving, Goes
<1>11. QED
  BY <1>1, <1>4, <1>5, <1>6, <1>7, <1>9, <1>10, SavingStep DEF Owned

LEMMA ClosedOK ==
    ASSUME NEW c \in Readers
    PROVE  /\ Closed(c) \in Readers /\ Closed(c).at = "off"
           /\ Closed(c).last = c.last /\ Closed(c).got = c.got
<1>1. <<>> \in Seq(Events) /\ 0 \in Nat /\ FALSE \in BOOLEAN  BY EmptySeq
<1>2. Closed(c) \in Readers  BY <1>1 DEF Closed, Readers
<1>3. Closed(c).at = "off" /\ Closed(c).last = c.last /\ Closed(c).got = c.got
  BY DEF Closed, Readers
<1>4. QED  BY <1>2, <1>3

LEMMA CrashBase == ASSUME BaseInv, Crash PROVE BaseInv'
<1>1. PICK keep \in [Attempts -> 0..Max({Len(fs[a].data) : a \in Attempts})] :
        /\ \A a \in Attempts : keep[a] \in fs[a].synced..Len(fs[a].data)
        /\ fs' = [a \in Attempts |->
                     IF fs[a].linked
                     THEN [fs[a] EXCEPT !.data = SubSeq(@, 1, keep[a]), !.synced = keep[a]]
                     ELSE NoFile]
  BY DEF Crash
<1>2. /\ j' = [a \in Attempts |-> Nothing] /\ at' = "down" /\ held' = Idle /\ con' = Closed(con)
      /\ lost' = lost \cup (ToSet(con.got) \ ToSet(Committed[Followed]))
      /\ UNCHANGED <<disk, mode, due, born>>
  BY DEF Crash
<1>3. /\ fs \in [Attempts -> Files] /\ con \in Readers /\ disk \in [Attempts -> Disks]
      /\ born \in Nat /\ mode \in Modes /\ due \subseteq Attempts /\ lost \subseteq Events
      /\ Followed \in Attempts
  BY TypeParts, JournalAssumption DEF BaseInv
<1>4. ASSUME NEW a \in Attempts
      PROVE  fs'[a] \in Files /\ FileSize(fs'[a]) <= FileSize(fs[a])
  <2>1. fs[a] \in Files /\ fs[a].synced \in Nat /\ Len(fs[a].data) \in Nat  BY <1>3 DEF Files
  <2>2. keep[a] \in Nat /\ keep[a] <= Len(fs[a].data)
    <3>1. keep[a] \in fs[a].synced..Len(fs[a].data)  BY <1>1
    <3>2. QED  BY <2>1, <3>1
  <2>3. CASE fs[a].linked
    <3> DEFINE d == SubSeq(fs[a].data, 1, keep[a])
    <3>1. d \in Seq(Events) /\ Len(d) = keep[a]
      <4>1. \A i \in 1..keep[a] : fs[a].data[i] \in Events
        BY <2>1, <2>2, ElementOfSeq DEF Files
      <4>2. d \in Seq(Events) /\ Len(d) = IF 1 <= keep[a] THEN keep[a] - 1 + 1 ELSE 0
        BY <2>2, <4>1, SubSeqProperties
      <4>3. QED  BY <2>2, <4>2
    <3>2. fs'[a] = [fs[a] EXCEPT !.data = d, !.synced = keep[a]]  BY <1>1, <2>3
    <3> HIDE DEF d
    <3>3. fs'[a] \in Files /\ fs'[a].data = d /\ fs'[a].linked
      BY <2>1, <2>2, <2>3, <3>1, <3>2 DEF Files
    <3>4. QED  BY <2>2, <2>3, <3>1, <3>3 DEF FileSize
  <2>4. CASE ~fs[a].linked
    <3>1. fs'[a] = NoFile  BY <1>1, <2>4
    <3>2. QED  BY <2>1, <3>1, NothingOK DEF FileSize
  <2>5. QED  BY <2>3, <2>4
<1>5. fs' \in [Attempts -> Files]
  <2>1. fs' = [a \in Attempts |-> fs'[a]]  BY <1>1
  <2>2. QED  BY <1>4, <2>1
<1>6. Cardinality(Cells(FileSizes', Attempts)) <= TotalLimit + TotalReserve
  BY <1>4, <1>5, FilesShrink
<1>7. con' \in Readers /\ con'.at = "off"  BY <1>2, <1>3, ClosedOK
<1>8. lost' \subseteq Events
  <2>1. ToSet(con.got) \subseteq Events  BY <1>3 DEF ToSet, Readers
  <2>2. QED  BY <1>2, <1>3, <2>1
<1>9. j' \in [Attempts -> Mems] /\ held' \in Helds /\ at' \in Ats
  BY <1>2, NothingOK, JournalAssumption DEF Idle, Helds, Ats
<1>10. JournalTypeOK'  BY <1>2, <1>3, <1>5, <1>7, <1>8, <1>9, TypePartsNext
<1>11. QED  BY <1>2, <1>6, <1>7, <1>10, DownStep

LEMMA RestartBase == ASSUME BaseInv, Restart PROVE BaseInv'
<1> DEFINE S(a) == [Nothing EXCEPT !.phase = disk[a].phase, !.failed = disk[a].failed,
                                   !.off = disk[a].off, !.cache = disk[a].cache,
                                   !.size = Len(fs'[a].data)]
<1>1. /\ at = "down"
      /\ fs' = [a \in Attempts |-> IF disk[a].phase \in Owned /\ fs[a].linked
                                   THEN fs[a] ELSE NoFile]
      /\ j' = [a \in Attempts |-> S(a)]
      /\ at' = "starting" /\ UNCHANGED <<disk, held, con, mode, due, born, lost>>
  BY DEF Restart
<1>2. /\ fs \in [Attempts -> Files] /\ con \in Readers /\ disk \in [Attempts -> Disks]
      /\ born \in Nat /\ mode \in Modes /\ due \subseteq Attempts /\ lost \subseteq Events
      /\ held \in Helds
  BY TypeParts DEF BaseInv
<1>3. ASSUME NEW a \in Attempts
      PROVE  /\ fs'[a] \in Files /\ FileSize(fs'[a]) <= FileSize(fs[a])
             /\ FileSize(fs'[a]) = Len(fs'[a].data)
  <2>1. fs[a] \in Files /\ FileSize(fs[a]) \in Nat  BY <1>2 DEF Files, FileSize
  <2>2. CASE disk[a].phase \in Owned /\ fs[a].linked
    <3>1. fs'[a] = fs[a]  BY <1>1, <2>2
    <3>2. QED  BY <2>1, <2>2, <3>1 DEF FileSize
  <2>3. CASE ~(disk[a].phase \in Owned /\ fs[a].linked)
    <3>1. fs'[a] = NoFile  BY <1>1, <2>3
    <3>2. Len(NoFile.data) = 0  BY DEF NoFile
    <3>3. QED  BY <2>1, <3>1, <3>2, NothingOK
  <2>4. QED  BY <2>2, <2>3
<1>4. fs' \in [Attempts -> Files]
  <2>1. fs' = [a \in Attempts |-> fs'[a]]  BY <1>1
  <2>2. QED  BY <1>3, <2>1
<1>5. ASSUME NEW a \in Attempts PROVE S(a) \in Mems /\ WriterOK(S(a), fs'[a])
  <2>1. disk[a] \in Disks /\ Len(fs'[a].data) \in Nat  BY <1>2, <1>3 DEF Files
  <2>2. /\ disk[a].phase \in Phases /\ disk[a].failed \in BOOLEAN
        /\ disk[a].off \in Nat /\ disk[a].cache \in Seq(Events)
    BY <2>1 DEF Disks
  <2>3. S(a) \in Mems  BY <2>1, <2>2, NothingOK DEF Mems
  <2>4. S(a).wend = NoWriter /\ S(a).dirty = FALSE /\ S(a).size = Len(fs'[a].data)
    BY DEF Nothing
  <2>5. QED  BY <1>3, <2>3, <2>4 DEF WriterOK
<1>6. j' \in [Attempts -> Mems] /\ \A a \in Attempts : WriterOK(j'[a], fs'[a])
  BY <1>1, <1>5
<1>7. Cardinality(Cells(FileSizes', Attempts)) <= TotalLimit + TotalReserve
  BY <1>3, <1>4, FilesShrink
<1>8. con.at = "off"  BY <1>1 DEF BaseInv, ReaderOK, Serving
<1>9. /\ at' \in Ats /\ at' # "down" /\ at' \notin Goes /\ ~Serving
  BY <1>1 DEF Ats, Goes, Serving
<1>10. JournalTypeOK'  BY <1>1, <1>2, <1>4, <1>6, <1>9, TypePartsNext
<1>11. QED  BY <1>1, <1>6, <1>7, <1>8, <1>9, <1>10, QuietStep

LEMMA RecoveredBase == ASSUME BaseInv, Recovered PROVE BaseInv'
<1>1. /\ at = "starting" /\ at' = "startsave"
      /\ UNCHANGED <<j, fs, disk, held, con, mode, due, born, lost>>
  BY DEF Recovered
<1>2. JournalTypeOK'  BY <1>1 DEF BaseInv, JournalTypeOK
<1>3. con.at = "off"  BY <1>1 DEF BaseInv, ReaderOK, Serving
<1>4. at' # "down" /\ at' \notin Goes /\ ~Serving  BY <1>1 DEF Goes, Serving
<1>5. Cardinality(Cells(FileSizes', Attempts)) <= TotalLimit + TotalReserve
  BY <1>1 DEF BaseInv, FileSizes
<1>6. \A a \in Attempts : WriterOK(j'[a], fs'[a])  BY <1>1 DEF BaseInv
<1>7. QED  BY <1>1, <1>2, <1>3, <1>4, <1>5, <1>6, QuietStep

LEMMA StartSaveBase == ASSUME BaseInv, StartSave PROVE BaseInv'
<1>1. /\ at = "startsave" /\ UNCHANGED <<held, con, mode, due, born, lost>>
      /\ \/ SaveOk /\ at' = "free"
         \/ SaveFails([a \in Attempts |-> Nothing]) /\ at' = "down"
  BY DEF StartSave
<1>2. /\ j \in [Attempts -> Mems] /\ fs \in [Attempts -> Files] /\ con \in Readers
      /\ disk \in [Attempts -> Disks] /\ born \in Nat /\ held \in Helds
      /\ mode \in Modes /\ due \subseteq Attempts /\ lost \subseteq Events
  BY TypeParts DEF BaseInv
<1>3. con.at = "off"  BY <1>1 DEF BaseInv, ReaderOK, Serving
<1>4. CASE SaveOk /\ at' = "free"
  <2>1. fs' = SyncedFiles /\ disk' = Image /\ j' = AfterSave  BY <1>4 DEF SaveOk
  <2>2. /\ j' \in [Attempts -> Mems]
        /\ \A a \in Attempts :
              /\ j'[a].off = j[a].off /\ j'[a].size = j[a].size /\ j'[a].phase = j[a].phase
              /\ j'[a].wend \in {j[a].wend, NoWriter} /\ ~j'[a].dirty
    BY <1>2, <2>1, AfterSaveOK
  <2>3. at' \in Ats \ {"down"} /\ ~Serving /\ at' \notin Goes /\ at # "down"
    BY <1>1, <1>4 DEF Ats, Serving, Goes
  <2>4. QED  BY <1>1, <1>2, <2>1, <2>2, <2>3, SavingStep
<1>5. CASE SaveFails([a \in Attempts |-> Nothing]) /\ at' = "down"
  <2> DEFINE N == [a \in Attempts |-> Nothing]
  <2>1. /\ fs' \in {fs, SyncedFiles} /\ disk' \in {disk, Image}
        /\ j' = N \/ j' = [a \in Attempts |-> [N[a] EXCEPT !.dirty = FALSE]]
    BY <1>5 DEF SaveFails
  <2>2. j' \in [Attempts -> Mems]
    <3>1. Nothing \in Mems  BY NothingOK
    <3>3. [Nothing EXCEPT !.dirty = FALSE] \in Mems  BY <3>1 DEF Mems
    <3>2. QED  BY <2>1, <3>1, <3>3
  <2> HIDE DEF N
  <2>3. /\ fs' \in [Attempts -> Files]
        /\ \A a \in Attempts : FileSize(fs'[a]) = FileSize(fs[a])
    BY <1>2, <2>1, SyncedFilesOK
  <2>4. disk' \in [Attempts -> Disks] /\ at' \in Ats  BY <1>2, <1>5, <2>1, ImageOK DEF Ats
  <2>5. Cardinality(Cells(FileSizes', Attempts)) <= TotalLimit + TotalReserve
    <3>1. \A a \in Attempts : FileSize(fs[a]) \in Nat  BY <1>2 DEF Files, FileSize
    <3>2. QED  BY <2>3, <3>1, FilesShrink
  <2>6. JournalTypeOK'  BY <1>1, <1>2, <2>2, <2>3, <2>4, TypePartsNext
  <2>7. QED  BY <1>1, <1>3, <1>5, <2>5, <2>6, DownStep
<1>6. QED  BY <1>1, <1>4, <1>5

-----------------------------------------------------------------------------
(* The scan of a replay, and the stream                                    *)

LEMMA GreatestCursor ==
    ASSUME NEW I \in SUBSET (Nat \X Nat), I # {}, NEW k \in Nat, \A p \in I : p[1] <= k
    PROVE  \E p \in I : \A q \in I : q[1] <= p[1]
<1> DEFINE T == {k - p[1] : p \in I}
<1>1. \A p \in I : p[1] \in Nat  OBVIOUS
<1>2. T \subseteq Nat /\ T # {}  BY <1>1
<1>3. Min(T) \in T /\ \A y \in T : Min(T) <= y  BY <1>2, NatMin
<1>4. PICK p \in I : Min(T) = k - p[1]  BY <1>3
<1>5. ASSUME NEW q \in I PROVE q[1] <= p[1]
  <2>1. k - q[1] \in T  OBVIOUS
  <2>2. k - p[1] <= k - q[1]  BY <1>3, <1>4, <2>1
  <2>3. QED  BY <1>1, <2>2
<1>6. QED  BY <1>5

LEMMA ScanStartOK ==
    ASSUME NEW m \in Mems, NEW after \in Nat
    PROVE  LET s == ScanStart(m, after) IN
           /\ s \in Nat
           /\ s # 0 => \E p \in m.index : p[2] = s /\ p[1] <= after + 1 /\ s < m.off
<1> DEFINE B == {p \in m.index : \A q \in m.index :
                    q[1] <= p[1] => q[1] <= after + 1 /\ q[2] < m.off}
           c == CHOOSE p \in B : \A q \in B : q[1] <= p[1]
<1>1. m.index \in SUBSET (Nat \X Nat)  BY DEF Mems
<1>2. ScanStart(m, after) = IF B = {} THEN 0 ELSE c[2]  BY DEF ScanStart
<1>3. B \in SUBSET (Nat \X Nat) /\ B \subseteq m.index  BY <1>1
<1>4. ASSUME NEW p \in B PROVE p[1] <= after + 1 /\ p[2] < m.off
  <2>1. p \in m.index /\ p[1] \in Nat  BY <1>1
  <2>2. p[1] <= p[1]  BY <2>1
  <2>3. QED  BY <2>1, <2>2
<1>5. CASE B = {}
  <2>1. ScanStart(m, after) = 0  BY <1>2, <1>5, Zenon
  <2>2. QED  BY <2>1
<1>6. CASE B # {}
  <2> HIDE DEF B
  <2>1. \E p \in B : \A q \in B : q[1] <= p[1]
    <3>1. after + 1 \in Nat  OBVIOUS
    <3>2. QED  BY <1>3, <1>4, <1>6, <3>1, GreatestCursor
  <2>2. c \in B  BY <2>1
  <2>3. ScanStart(m, after) = c[2]  BY <1>2, <1>6, Zenon
  <2> HIDE DEF c
  <2>4. c[2] \in Nat  BY <1>3, <2>2
  <2>5. QED  BY <1>3, <1>4, <2>2, <2>3, <2>4
<1>7. QED  BY <1>5, <1>6

\* A scan reads up to the first record behind the cursor, if there is one.
LEMMA ScannedOK ==
    ASSUME NEW m \in Mems, NEW d \in Seq(Events), NEW after \in Nat
    PROVE  LET s == ScanStart(m, after)
               n == Min({m.off, Len(d)})
               R == Scanned(m, d, after)
           IN  \/ R = {} /\ \A p \in (s + 1)..n : d[p].cur <= after
               \/ \E e \in (s + 1)..n :
                     /\ R = (s + 1)..e /\ Max(R) = e /\ d[e].cur > after
                     /\ \A p \in (s + 1)..n : p < e => d[p].cur <= after
<1> DEFINE s == ScanStart(m, after)
           n == Min({m.off, Len(d)})
           E == {p \in (s + 1)..n : d[p].cur > after}
<1>1. s \in Nat  BY ScanStartOK
<1>2. n \in Nat /\ n <= Len(d)
  <2>1. m.off \in Nat /\ Len(d) \in Nat  BY DEF Mems
  <2>2. QED  BY <2>1, Min2
<1>3. Scanned(m, d, after) = IF E = {} THEN {} ELSE (s + 1)..Min(E)  BY DEF Scanned
<1> HIDE DEF s, n
<1>4. ASSUME NEW p \in (s + 1)..n PROVE d[p].cur \in Nat
  <2>1. p \in 1..Len(d)  BY <1>1, <1>2
  <2>2. d[p] \in Events  BY <2>1, ElementOfSeq
  <2>3. QED  BY <2>2 DEF Events
<1>5. CASE E = {}
  <2>1. Scanned(m, d, after) = {}  BY <1>3, <1>5, Zenon
  <2>2. \A p \in (s + 1)..n : d[p].cur <= after  BY <1>4, <1>5
  <2>3. QED  BY <2>1, <2>2 DEF s, n
<1>6. CASE E # {}
  <2>1. E \subseteq Nat  BY <1>1, <1>2
  <2>2. Min(E) \in E /\ \A y \in E : Min(E) <= y  BY <1>6, <2>1, NatMin
  <2> DEFINE e == Min(E)
  <2>3. Scanned(m, d, after) = (s + 1)..e  BY <1>3, <1>6, Zenon
  <2>4. e \in (s + 1)..n /\ d[e].cur > after  BY <2>2
  <2>5. ASSUME NEW p \in (s + 1)..n, p < e PROVE d[p].cur <= after
    <3>1. p \notin E  BY <1>1, <1>2, <2>2, <2>4, <2>5
    <3>2. QED  BY <1>4, <3>1
  <2> HIDE DEF E, e
  <2>6. Max((s + 1)..e) = e  BY <1>1, <1>2, <2>4, MaxInterval
  <2>7. QED  BY <2>3, <2>4, <2>5, <2>6 DEF s, n
<1>7. QED  BY <1>5, <1>6

LEMMA ReplayFromOK ==
    ASSUME NEW m \in Mems, NEW d \in Seq(Events), NEW after \in Nat
    PROVE  LET p == ReplayFrom(m, d, after) IN
           /\ p \in Nat /\ p <= m.off /\ p <= Len(d)
           /\ p # 0 => d[p].cur = after + 1
<1> DEFINE R == Scanned(m, d, after)
           C == R # {} /\ Torn \notin {d[p] : p \in R} /\ d[Max(R)].cur = after + 1
<1>1. ReplayFrom(m, d, after) = IF C THEN Max(R) ELSE 0  BY DEF ReplayFrom
<1>2. m.off \in Nat /\ Len(d) \in Nat  BY DEF Mems
<1>3. CASE ~C
  <2>1. ReplayFrom(m, d, after) = 0  BY <1>1, <1>3, Zenon
  <2>2. QED  BY <1>2, <2>1
<1>4. CASE C
  <2>1. ReplayFrom(m, d, after) = Max(R) /\ R # {} /\ d[Max(R)].cur = after + 1
    BY <1>1, <1>4, Zenon
  <2> DEFINE s == ScanStart(m, after)
             n == Min({m.off, Len(d)})
  <2>2. s \in Nat  BY ScanStartOK
  <2>3. n \in Nat /\ n <= m.off /\ n <= Len(d)  BY <1>2, Min2
  <2>a. R = {} \/ \E e \in (s + 1)..n : R = (s + 1)..e /\ Max(R) = e  BY ScannedOK
  <2>4. \E e \in (s + 1)..n : Max(R) = e  BY <2>1, <2>a, Zenon
  <2> HIDE DEF s, n, R
  <2>5. Max(R) \in Nat /\ Max(R) <= m.off /\ Max(R) <= Len(d)
    BY <1>2, <2>2, <2>3, <2>4
  <2>6. QED  BY <2>1, <2>5
<1>5. QED  BY <1>3, <1>4

LEMMA ScannedInside ==
    ASSUME NEW m \in Mems, NEW d \in Seq(Events), NEW after \in Nat
    PROVE  \A p \in Scanned(m, d, after) : p \in 1..Len(d) /\ p <= m.off
<1> DEFINE s == ScanStart(m, after)
           n == Min({m.off, Len(d)})
           R == Scanned(m, d, after)
<1>1. m.off \in Nat /\ Len(d) \in Nat /\ s \in Nat  BY ScanStartOK DEF Mems
<1>2. n \in Nat /\ n <= m.off /\ n <= Len(d)  BY <1>1, Min2
<1>3. R = {} \/ \E e \in (s + 1)..n : R = (s + 1)..e  BY ScannedOK, Zenon
<1> HIDE DEF s, n, R
<1>4. \A p \in R : p \in 1..Len(d) /\ p <= m.off  BY <1>1, <1>2, <1>3
<1>5. QED  BY <1>4 DEF R

LEMMA LearnedOK ==
    ASSUME NEW m \in Mems, NEW d \in Seq(Events), NEW R,
           \A p \in R : p \in 1..Len(d) /\ p <= m.off
    PROVE  /\ Learned(m, d, R) \in SUBSET (Nat \X Nat)
           /\ \A x \in Learned(m, d, R) :
                 \/ x \in m.index
                 \/ \E p \in R : x = <<d[p].cur, p - 1>>
<1>1. m.index \in SUBSET (Nat \X Nat)  BY DEF Mems
<1>2. ASSUME NEW x \in Learned(m, d, R) PROVE x \in m.index \/ \E p \in R : x = <<d[p].cur, p - 1>>
  BY DEF Learned
<1>3. ASSUME NEW p \in R PROVE <<d[p].cur, p - 1>> \in Nat \X Nat
  <2>1. Len(d) \in Nat /\ p \in 1..Len(d)  BY <1>3
  <2>2. d[p] \in Events  BY <2>1, ElementOfSeq
  <2>3. d[p].cur \in Nat /\ p - 1 \in Nat  BY <2>1, <2>2 DEF Events
  <2>4. QED  BY <2>3
<1>4. QED  BY <1>1, <1>2, <1>3

\* A step of the stream alone.
LEMMA StreamStep ==
    ASSUME BaseInv, con' \in Readers, con'.at # "off" => con.at # "off",
           con'.at = "replay" => con.at = "replay" /\ con'.bytes = con.bytes
                                 /\ con'.pos \in 1..con.bytes /\ con'.pos <= Len(File),
           UNCHANGED <<j, fs, disk, at, held, mode, due, born, lost>>
    PROVE  BaseInv'
<1>1. JournalTypeOK'  BY TypeParts, TypePartsNext DEF BaseInv
<1>2. ReaderOK'  BY DEF BaseInv, ReaderOK, Mine, File, Serving
<1>3. QED  BY <1>1, <1>2 DEF BaseInv, FileSizes

LEMMA DeliverOK ==
    ASSUME NEW c \in Readers, NEW e \in Events
    PROVE  LET b == Deliver(c, e) IN
           /\ b \in Readers /\ b.last = e.cur /\ b.got = Append(c.got, e)
           /\ b.at = c.at /\ b.through = c.through /\ b.bytes = c.bytes /\ b.pos = c.pos
           /\ b.events = c.events /\ b.chan = c.chan
<1> DEFINE g == Append(c.got, e)
           b == [c EXCEPT !.last = e.cur, !.got = g]
<1>1. g \in Seq(Events) /\ e.cur \in Nat  BY AppendProperties DEF Readers, Events
<1>2. Deliver(c, e) = b  BY DEF Deliver
<1> HIDE DEF g
<1>3. b \in Readers  BY <1>1 DEF Readers
<1>4. /\ b.last = e.cur /\ b.got = g
      /\ b.at = c.at /\ b.through = c.through /\ b.bytes = c.bytes /\ b.pos = c.pos
      /\ b.events = c.events /\ b.chan = c.chan
  BY DEF Readers
<1> HIDE DEF b
<1>5. QED  BY <1>2, <1>3, <1>4 DEF g

LEMMA DisconnectBase == ASSUME BaseInv, Disconnect PROVE BaseInv'
<1>1. con' = Closed(con) /\ UNCHANGED <<j, fs, disk, at, held, mode, due, born, lost>>
  BY DEF Disconnect
<1>2. con \in Readers  BY TypeParts DEF BaseInv
<1>3. QED  BY <1>1, <1>2, ClosedOK, StreamStep

LEMMA ReplayNextBase == ASSUME BaseInv, ReplayNext PROVE BaseInv'
<1> DEFINE e == File[con.pos]
           n == con.pos + 1
           D == Deliver(con, e)
<1>1. /\ con.at = "replay" /\ UNCHANGED <<j, fs, disk, at, held, mode, due, born, lost>>
      /\ con' = IF e.cur = con.through THEN [D EXCEPT !.at = "cache"]
                ELSE IF n <= con.bytes /\ n <= Len(File) /\ File[n].cur = e.cur + 1
                THEN [D EXCEPT !.pos = n] ELSE Closed(con)
  BY DEF ReplayNext
<1>2. /\ con \in Readers /\ fs[Followed] \in Files /\ File \in Seq(Events)
  BY TypeParts, JournalAssumption DEF BaseInv, File, Files
<1>3. con.pos \in 1..con.bytes /\ con.pos <= Len(File) /\ con.bytes \in Nat
  BY <1>1, <1>2 DEF BaseInv, ReaderOK, Readers
<1>4. e \in Events
  <2>1. con.pos \in 1..Len(File)  BY <1>2, <1>3
  <2>2. QED  BY <1>2, <2>1, ElementOfSeq
<1>5. D \in Readers /\ D.at = con.at /\ D.bytes = con.bytes  BY <1>2, <1>4, DeliverOK
<1> HIDE DEF D, e
<1>6. CASE con' = [D EXCEPT !.at = "cache"]
  <2>1. con' \in Readers /\ con'.at = "cache"  BY <1>5, <1>6 DEF Readers
  <2>2. QED  BY <1>1, <2>1, StreamStep
<1>7. CASE con' = [D EXCEPT !.pos = n] /\ n <= con.bytes /\ n <= Len(File)
  <2>1. n \in Nat /\ n \in 1..con.bytes  BY <1>3, <1>7
  <2> HIDE DEF n
  <2>2. con' \in Readers /\ con'.at = con.at /\ con'.bytes = con.bytes /\ con'.pos = n
    BY <1>5, <1>7, <2>1 DEF Readers
  <2>3. QED  BY <1>1, <1>7, <2>1, <2>2, StreamStep
<1>8. CASE con' = Closed(con)  BY <1>1, <1>2, <1>8, ClosedOK, StreamStep
<1>9. QED  BY <1>1, <1>6, <1>7, <1>8

LEMMA CachedNextBase == ASSUME BaseInv, CachedNext PROVE BaseInv'
<1> DEFINE rest == {i \in DOMAIN con.events : con.events[i].cur > con.last}
<1>1. /\ con.at = "cache" /\ UNCHANGED <<j, fs, disk, at, held, mode, due, born, lost>>
      /\ con' = IF rest # {} THEN Deliver(con, con.events[Min(rest)])
                ELSE IF con.over THEN Closed(con) ELSE [con EXCEPT !.at = "live"]
  BY DEF CachedNext
<1>2. con \in Readers /\ con.events \in Seq(Events)  BY TypeParts DEF BaseInv, Readers
<1>3. CASE rest # {} /\ con' = Deliver(con, con.events[Min(rest)])
  <2>1. rest \subseteq Nat  BY <1>2
  <2>2. Min(rest) \in rest  BY <1>3, <2>1, NatMin
  <2> DEFINE x == con.events[Min(rest)]
  <2>3. x \in Events
    <3>1. Min(rest) \in 1..Len(con.events)  BY <1>2, <2>2
    <3>2. QED  BY <1>2, <3>1, ElementOfSeq
  <2>4. con' = Deliver(con, x)  BY <1>3
  <2> HIDE DEF x
  <2>5. con' \in Readers /\ con'.at = con.at  BY <1>2, <2>3, <2>4, DeliverOK
  <2>6. QED  BY <1>1, <2>5, StreamStep
<1>4. CASE con' = Closed(con)  BY <1>1, <1>2, <1>4, ClosedOK, StreamStep
<1>5. CASE con' = [con EXCEPT !.at = "live"]
  <2>1. con' \in Readers /\ con'.at = "live"  BY <1>2, <1>5 DEF Readers
  <2>2. QED  BY <1>1, <2>1, StreamStep
<1>6. QED  BY <1>1, <1>3, <1>4, <1>5

LEMMA PoppedOK ==
    ASSUME con \in Readers, con.chan # <<>>
    PROVE  LET c == [con EXCEPT !.chan = Tail(@)] IN
           /\ c \in Readers /\ c.at = con.at /\ c.last = con.last /\ c.got = con.got
           /\ c.events = con.events /\ c.chan = Tail(con.chan)
           /\ Head(con.chan) \in Events
<1> DEFINE t == Tail(con.chan)
           c == [con EXCEPT !.chan = t]
<1>1. t \in Seq(Events) /\ Head(con.chan) \in Events  BY HeadTailProperties DEF Readers
<1> HIDE DEF t
<1>2. c \in Readers  BY <1>1 DEF Readers
<1>3. /\ c.at = con.at /\ c.last = con.last /\ c.got = con.got
      /\ c.events = con.events /\ c.chan = t
  BY DEF Readers
<1> HIDE DEF c
<1>4. c = [con EXCEPT !.chan = Tail(@)]  BY DEF c, t
<1>5. QED  BY <1>1, <1>2, <1>3, <1>4 DEF t

LEMMA LiveNextBase == ASSUME BaseInv, LiveNext PROVE BaseInv'
<1> DEFINE e == Head(con.chan)
           c == [con EXCEPT !.chan = Tail(@)]
<1>1. /\ con.at = "live" /\ con.chan # <<>>
      /\ UNCHANGED <<j, fs, disk, at, held, mode, due, born, lost>>
      /\ con' = IF e.cur <= con.last THEN c
                ELSE IF e.cur = con.last + 1 THEN Deliver(c, e) ELSE Closed(con)
  BY DEF LiveNext, LiveResult
<1>2. con \in Readers  BY TypeParts DEF BaseInv
<1>3. c \in Readers /\ c.at = con.at /\ e \in Events  BY <1>1, <1>2, PoppedOK
<1> HIDE DEF c, e
<1>4. Deliver(c, e) \in Readers /\ Deliver(c, e).at = con.at  BY <1>3, DeliverOK
<1>5. Closed(con) \in Readers /\ Closed(con).at = "off"  BY <1>2, ClosedOK
<1>6. con' \in Readers /\ con'.at \in {"live", "off"}  BY <1>1, <1>3, <1>4, <1>5
<1>7. QED  BY <1>1, <1>6, StreamStep

LEMMA ConnectBase == ASSUME BaseInv, Connect PROVE BaseInv'
<1>1. /\ at = "free" /\ con.at = "off" /\ Admitted
      /\ con' = [con EXCEPT !.at = IF FirstRecord # 0 THEN "replay" ELSE "cache",
                            !.through = Cursor(Mine), !.bytes = Mine.off, !.pos = FirstRecord,
                            !.events = Mine.cache, !.over = Mine.phase = "over"]
      /\ Patch(Followed, IF Replays
                         THEN [Mine EXCEPT !.index = Learned(Mine, File, Scanned(Mine, File, con.last))]
                         ELSE Mine)
      /\ UNCHANGED <<fs, disk, at, held, mode, due, born, lost>>
  BY DEF Connect
<1>2. /\ j \in [Attempts -> Mems] /\ fs \in [Attempts -> Files] /\ con \in Readers
      /\ Mine \in Mems /\ File \in Seq(Events) /\ con.last \in Nat
      /\ Followed \in Attempts
  BY TypeParts, JournalAssumption DEF BaseInv, Mine, File, Files, Readers
<1>3. PICK m \in Mems : /\ j' = [j EXCEPT ![Followed] = m] /\ SameWriter(m, Mine)
                        /\ m.phase = Mine.phase
  <2> DEFINE L == Learned(Mine, File, Scanned(Mine, File, con.last))
  <2>1. L \in SUBSET (Nat \X Nat)  BY <1>2, ScannedInside, LearnedOK
  <2> HIDE DEF L
  <2>2. /\ [Mine EXCEPT !.index = L] \in Mems
        /\ SameWriter([Mine EXCEPT !.index = L], Mine)
        /\ [Mine EXCEPT !.index = L].phase = Mine.phase
    BY <1>2, <2>1 DEF Mems, SameWriter
  <2>3. \/ j' = [j EXCEPT ![Followed] = [Mine EXCEPT !.index = L]]
        \/ j' = [j EXCEPT ![Followed] = Mine]
    BY <1>1 DEF Patch, L
  <2>4. SameWriter(Mine, Mine)  BY SameWriterSelf
  <2>5. QED  BY <1>2, <2>2, <2>3, <2>4
<1>4. /\ FirstRecord \in Nat
      /\ FirstRecord # 0 => /\ FirstRecord <= Mine.off /\ FirstRecord <= Len(File)
                            /\ fs[Followed].linked
  <2>1. CASE Replays
    <3>1. FirstRecord = ReplayFrom(Mine, File, con.last)  BY <2>1 DEF FirstRecord
    <3>2. QED  BY <1>2, <2>1, <3>1, ReplayFromOK DEF Replays
  <2>2. CASE ~Replays  BY <2>2 DEF FirstRecord
  <2>3. QED  BY <2>1, <2>2
<1>5. Mine.phase \in Owned /\ Mine.off \in Nat /\ Mine.cache \in Seq(Events)
  BY <1>1, <1>2 DEF Admitted, Mems
<1>6. Cursor(Mine) \in Nat
  <2>1. born \in Nat /\ "ask" \in Kinds  BY TypeParts DEF BaseInv, Kinds
  <2>2. QED  BY <1>2, <2>1, EvOK
<1> DEFINE w == IF FirstRecord # 0 THEN "replay" ELSE "cache"
           o == Mine.phase = "over"
<1>7. w \in {"off", "replay", "cache", "live"} /\ o \in BOOLEAN
      /\ (w = "replay" => FirstRecord # 0) /\ w # "off"
  OBVIOUS
<1>8. con' = [con EXCEPT !.at = w, !.through = Cursor(Mine), !.bytes = Mine.off,
                         !.pos = FirstRecord, !.events = Mine.cache, !.over = o]
  BY <1>1
<1> HIDE DEF w, o
<1>9. con' \in Readers  BY <1>2, <1>4, <1>5, <1>6, <1>7, <1>8 DEF Readers
<1>10. con'.at = w /\ con'.bytes = Mine.off /\ con'.pos = FirstRecord
  BY <1>2, <1>8 DEF Readers
<1>11. j' \in [Attempts -> Mems] /\ j'[Followed] = m
       /\ \A b \in Attempts \ {Followed} : j'[b] = j[b]
  BY <1>2, <1>3
<1>12. JournalTypeOK'  BY <1>1, <1>9, <1>11, TypeParts, TypePartsNext DEF BaseInv
<1>13. ASSUME NEW a \in Attempts PROVE WriterOK(j'[a], fs'[a])
  BY <1>1, <1>3, <1>11, SameWriterOK DEF BaseInv, Mine
<1>14. m.off = Mine.off /\ m.phase \in Owned  BY <1>3, <1>5 DEF SameWriter
<1>15. ReaderOK'
  <2>1. Serving'  BY <1>1 DEF Serving
  <2>2. Mine' = m /\ File' = File /\ fs' = fs  BY <1>1, <1>11 DEF Mine, File
  <2>3. con'.at = "replay" => con'.pos \in 1..con'.bytes /\ con'.pos <= Len(File)
                              /\ con'.bytes <= m.off /\ fs[Followed].linked
    BY <1>4, <1>5, <1>7, <1>10, <1>14
  <2>4. QED  BY <1>14, <2>1, <2>2, <2>3 DEF ReaderOK, Mine
<1>16. Cardinality(Cells(FileSizes', Attempts)) <= TotalLimit + TotalReserve
  BY <1>1 DEF BaseInv, FileSizes
<1>17. at' \notin Goes  BY <1>1 DEF Goes
<1>18. QED  BY <1>12, <1>13, <1>15, <1>16, <1>17 DEF BaseInv

-----------------------------------------------------------------------------
(* What holds whatever fails                                               *)

\* The caches of an older runner are sequences of events.
LEMMA LegacyOK ==
    ASSUME NEW old \in Legacy
    PROVE  /\ old \in Seq(Events) /\ Len(old) \in Nat
           /\ \A i \in 1..Len(old) : old[i].cur = old[1].cur + i - 1 /\ old[i].kind \in Kinds
                                      /\ old[i].cur \in Nat \ {0}
<1> DEFINE E == [cur : Nat \ {0}, id : Nat, kind : {"progress", "ask", "end"}]
<1>1. old \in Seq(E) /\ \A i \in DOMAIN old : old[i].cur = old[1].cur + i - 1
  BY JournalAssumption
<1>2. \A e \in E : e \in Events /\ e.kind \in Kinds /\ e.cur \in Nat \ {0}  BY DEF Events, Kinds
<1> HIDE DEF E
<1>3. Len(old) \in Nat /\ DOMAIN old = 1..Len(old)  BY <1>1, LenProperties
<1>4. \A i \in 1..Len(old) : old[i] \in E  BY <1>1, ElementOfSeq
<1>5. old = [i \in 1..Len(old) |-> old[i]]  BY <1>1, <1>3, LenProperties
<1>6. old \in Seq(Events)
  <2>1. \A i \in 1..Len(old) : old[i] \in Events  BY <1>2, <1>4
  <2>2. old \in [1..Len(old) -> Events]  BY <1>5, <2>1
  <2>3. QED  BY <1>3, <2>2, SeqDef
<1>7. QED  BY <1>1, <1>2, <1>3, <1>4, <1>6

LEMMA InitBase == ASSUME Init PROVE BaseInv
<1>1. /\ j = [a \in Attempts |-> Nothing] /\ fs = [a \in Attempts |-> NoFile]
      /\ at = "down" /\ held = Idle /\ mode \in Modes /\ due = {} /\ born = 1 /\ lost = {}
  BY DEF Init
<1>2. PICK old \in Legacy :
        /\ disk = [a \in Attempts |->
                      IF a = Followed /\ old # <<>>
                      THEN [Absent EXCEPT !.phase = "live", !.cache = old] ELSE Absent]
        /\ con = [at |-> "off", last |-> IF old = <<>> THEN 0 ELSE old[1].cur - 1,
                  got |-> <<>>, through |-> 0, bytes |-> 0, pos |-> 0,
                  events |-> <<>>, over |-> FALSE, chan |-> <<>>]
  BY DEF Init
<1>3. disk \in [Attempts -> Disks]
  <2>1. Absent \in Disks  BY EmptySeq DEF Absent, Disks, Phases
  <2>2. "live" \in Phases /\ old \in Seq(Events)  BY LegacyOK DEF Phases, Owned
  <2>3. [Absent EXCEPT !.phase = "live", !.cache = old] \in Disks  BY <2>1, <2>2 DEF Disks
  <2>4. QED  BY <1>2, <2>1, <2>3
<1>4. con \in Readers /\ con.at = "off"
  <2> DEFINE l == IF old = <<>> THEN 0 ELSE old[1].cur - 1
  <2>1. l \in Nat
    <3>1. CASE old = <<>>  BY <3>1
    <3>2. CASE old # <<>>
      <4>1. Len(old) \in Nat \ {0}  BY <3>2, LegacyOK, EmptySeq
      <4>2. old[1].cur \in Nat \ {0}  BY <4>1, LegacyOK
      <4>3. QED  BY <3>2, <4>2
    <3>3. QED  BY <3>1, <3>2
  <2>2. <<>> \in Seq(Events)  BY EmptySeq
  <2> HIDE DEF l
  <2>3. con = [at |-> "off", last |-> l, got |-> <<>>, through |-> 0, bytes |-> 0, pos |-> 0,
               events |-> <<>>, over |-> FALSE, chan |-> <<>>]
    BY <1>2 DEF l
  <2>4. QED  BY <2>1, <2>2, <2>3 DEF Readers
<1>5. j \in [Attempts -> Mems] /\ fs \in [Attempts -> Files]  BY <1>1, NothingOK
<1>6. held \in Helds /\ at \in Ats  BY <1>1, JournalAssumption DEF Idle, Helds, Ats
<1>7. JournalTypeOK  BY <1>1, <1>3, <1>4, <1>5, <1>6, TypeParts
<1>8. Cardinality(Cells(FileSizes, Attempts)) <= TotalLimit + TotalReserve
  <2>1. \A a \in Attempts : FileSizes[a] = 0  BY <1>1, NothingOK DEF FileSizes
  <2>2. Cells(FileSizes, Attempts) = {}  BY <2>1 DEF Cells
  <2>3. Cardinality(Cells(FileSizes, Attempts)) = 0  BY <2>2, FS_EmptySet
  <2>4. QED  BY <2>3, JournalAssumption
<1>9. QED  BY <1>1, <1>4, <1>7, <1>8 DEF BaseInv, ReaderOK, Goes

LEMMA StutterBase == ASSUME BaseInv, UNCHANGED vars PROVE BaseInv'
<1>1. UNCHANGED <<j, fs, disk, at, held, con, mode, due, born, lost>>  BY DEF vars
<1>2. JournalTypeOK'  BY <1>1 DEF BaseInv, JournalTypeOK
<1>3. ReaderOK'  BY <1>1 DEF BaseInv, ReaderOK, Mine, File, Serving
<1>4. QED  BY <1>1, <1>2, <1>3 DEF BaseInv, FileSizes

LEMMA NextBase == ASSUME BaseInv, [Next]_vars PROVE BaseInv'
<1>1. ASSUME NEW a \in Attempts,
             \/ Accept(a) \/ Relaunch(a)
             \/ \E kind \in Kinds : HarnessEvent(a, kind)
             \/ \E kind \in {"progress", "ask"} : Request(a, kind)
             \/ \E phase \in {"parked", "over"} : Finish(a, phase)
             \/ Export(a)
             \/ Drop(a)
             \/ Recover(a)
      PROVE  BaseInv'
  BY <1>1, AcceptBase, RelaunchBase, HarnessEventBase, RequestBase, FinishBase, ExportBase,
     DropBase, RecoverBase
<1>2. CASE FailHarnessEvent \/ ExportCompletes \/ ExportFailed
  BY <1>2, FailHarnessEventBase, ExportCompletesBase, ExportFailedBase
<1>3. CASE Persist \/ PersistFails  BY <1>3, PersistBase, PersistFailsBase
<1>4. CASE Crash \/ Restart \/ Recovered \/ StartSave
  BY <1>4, CrashBase, RestartBase, RecoveredBase, StartSaveBase
<1>5. CASE Connect \/ ReplayNext \/ CachedNext \/ LiveNext \/ Disconnect
  BY <1>5, ConnectBase, ReplayNextBase, CachedNextBase, LiveNextBase, DisconnectBase
<1>6. CASE ConnectRefused
  <2>1. UNCHANGED vars  BY <1>6 DEF ConnectRefused
  <2>2. QED  BY <2>1, StutterBase
<1>7. CASE UNCHANGED vars  BY <1>7, StutterBase
<1>8. QED  BY <1>1, <1>2, <1>3, <1>4, <1>5, <1>6, <1>7 DEF Next

\* The invariant of the journal files: a writer stands at the end of its file, what is
\* accounted is what is there, the files fit the quota and a replay reads records that
\* stay (event_journal.go: appendEvent, removeEvents; http.go: serveEvents).
THEOREM JournalInvariant == Spec => []BaseInv
<1>1. Init => BaseInv  BY InitBase
<1>2. BaseInv /\ [Next]_vars => BaseInv'  BY NextBase
<1>3. QED  BY <1>1, <1>2, PTL DEF Spec

\* Every variable of the journals has its type in every reachable state, with any
\* combination of failures.
THEOREM JournalTypeCorrect == Spec => []JournalTypeOK
<1>1. BaseInv => JournalTypeOK  BY DEF BaseInv
<1>2. QED  BY <1>1, JournalInvariant, PTL

\* The accounting of event_journal.go is exact through failed writes, truncation,
\* removal and restart, and the files of all attempts stay within the aggregate limit.
THEOREM UsageStaysExact == Spec => []UsageIsExact
<1>1. ASSUME BaseInv PROVE UsageIsExact
  <2> SUFFICES ASSUME at # "down"
               PROVE  /\ \A a \in Attempts :
                            j[a].size = IF fs[a].linked THEN Len(fs[a].data) ELSE 0
                      /\ Accounted(Attempts) <= TotalLimit + TotalReserve
    BY DEF UsageIsExact
  <2>1. ASSUME NEW a \in Attempts
        PROVE  j[a].size = IF fs[a].linked THEN Len(fs[a].data) ELSE 0
    BY <1>1 DEF BaseInv, WriterOK, FileSize
  <2>2. Accounted(Attempts) <= TotalLimit + TotalReserve
    BY <1>1, AllAccounted DEF BaseInv
  <2>3. QED  BY <2>1, <2>2
<1>2. QED  BY <1>1, JournalInvariant, PTL

-----------------------------------------------------------------------------
(* The recorded history                                                    *)

\* The first n records are events with consecutive cursors.
Good(d, n) ==
    /\ n <= Len(d)
    /\ \A i \in 1..n : d[i].kind \in Kinds /\ d[i].cur >= 1 /\ d[i].cur = d[1].cur + (i - 1)

\* The last of the first n records.
EndOf(c, d, n) ==
    /\ Len(c) \in 1..n
    /\ \A k \in 1..Len(c) : c[k] = d[(n - Len(c)) + k]

\* The journal of an attempt up to its offset: consecutive events, the cache is its end,
\* the index points into it, and what was synced or will be is all of it.
HistoryOK(m, f) ==
    /\ m.off > 0 /\ f.linked /\ Good(f.data, m.off) /\ EndOf(m.cache, f.data, m.off)
    /\ \A p \in m.index : p[2] < m.off /\ f.data[p[2] + 1].cur = p[1]
    /\ m.dirty \/ f.synced >= m.off

\* The cache of an older runner, not in a journal yet.
Seed(c) == c # <<>> /\ Good(c, Len(c))

\* Two memories of one history.
SameHistory(m, n) ==
    m.off = n.off /\ m.cache = n.cache /\ m.index = n.index /\ (m.dirty <=> n.dirty)

LEMMA SameHistoryOK ==
    ASSUME NEW m, NEW n, NEW f, SameHistory(m, n), HistoryOK(n, f) PROVE HistoryOK(m, f)
BY DEF SameHistory, HistoryOK

LEMMA GoodSame ==
    ASSUME NEW d \in Seq(Events), NEW e \in Seq(Events), NEW n \in Nat, Good(d, n), n <= Len(e),
           \A i \in 1..n : e[i] = d[i]
    PROVE  Good(e, n)
<1>1. CASE n = 0  BY <1>1 DEF Good
<1>2. CASE n # 0
  <2>1. 1 \in 1..n  BY <1>2
  <2>2. QED  BY <2>1 DEF Good
<1>3. QED  BY <1>1, <1>2

\* A shorter prefix is as good.
LEMMA GoodShorter ==
    ASSUME NEW d \in Seq(Events), NEW n \in Nat, NEW k \in Nat, k <= n, Good(d, n)
    PROVE  Good(d, k)
<1>1. Len(d) \in Nat  OBVIOUS
<1>2. \A i \in 1..k : i \in 1..n  OBVIOUS
<1>3. QED  BY <1>1, <1>2 DEF Good

\* An append that fails keeps the history, unless it tears records that are not synced.
LEMMA FailedKeeps ==
    ASSUME NEW m \in Mems, NEW f \in Files, WriterOK(m, f), NEW others \in Nat, NEW ev \in Events,
           NEW outs, NEW r \in AppendResults(m, f, others, ev, outs),
           HistoryOK(m, f), ~r.ok, "write" \in outs => ~m.dirty
    PROVE  HistoryOK(r.m, r.f)
<1>1. Extends(m, f, others, ev, r)  BY AppendSound
<1>2. /\ f.linked /\ m.off \in Nat /\ f.data \in Seq(Events) /\ Len(f.data) \in Nat
      /\ m.off <= Len(f.data) /\ f.synced \in Nat
      /\ m.cache \in Seq(Events) /\ m.index \in SUBSET (Nat \X Nat)
  BY DEF HistoryOK, Good, Mems, Files
<1>3. /\ r.m.off = m.off /\ r.m.cache = m.cache /\ r.m.index \subseteq m.index
      /\ r.f.linked /\ m.off <= Len(r.f.data) /\ r.f.data \in Seq(Events)
      /\ \A i \in 1..m.off : r.f.data[i] = f.data[i]
      /\ f.synced >= m.off => r.f.synced >= m.off
  BY <1>1, <1>2 DEF Extends, Files
<1>4. Good(r.f.data, m.off)  BY <1>2, <1>3, GoodSame DEF HistoryOK
<1>5. EndOf(m.cache, r.f.data, m.off)
  <2>1. EndOf(m.cache, f.data, m.off) /\ Len(m.cache) \in Nat  BY <1>2 DEF HistoryOK
  <2>2. \A k \in 1..Len(m.cache) : (m.off - Len(m.cache)) + k \in 1..m.off
    BY <1>2, <2>1 DEF EndOf
  <2>3. QED  BY <1>3, <2>1, <2>2 DEF EndOf
<1>6. ASSUME NEW p \in r.m.index PROVE p[2] < m.off /\ r.f.data[p[2] + 1].cur = p[1]
  <2>1. p \in m.index /\ p[2] \in Nat  BY <1>2, <1>3
  <2>2. p[2] < m.off /\ f.data[p[2] + 1].cur = p[1]  BY <2>1 DEF HistoryOK
  <2>3. p[2] + 1 \in 1..m.off  BY <1>2, <2>1, <2>2
  <2>4. QED  BY <1>3, <2>2, <2>3
<1>7. r.m.dirty \/ r.f.synced >= m.off
  <2>1. CASE f.synced >= m.off  BY <1>3, <2>1
  <2>2. CASE ~(f.synced >= m.off)
    <3>1. m.dirty  BY <2>2 DEF HistoryOK
    <3>2. "write" \notin outs  BY <3>1
    <3>3. m.wend = m.off  BY <3>1 DEF WriterOK
    <3>4. Refused(m, f, r) \/ (CanOpen(m, f) /\ NoSpace(m, f, r))
      <4>1. ~Written(m, f, ev, r)  BY DEF Written
      <4>2. ~TooShort(m, f, r) /\ ~NotOpened(m, f, r)  BY <3>3 DEF TooShort, NotOpened
      <4>3. QED  BY <3>2, <4>1, <4>2, AppendSound
    <3>5. r.m.dirty
      <4>1. CASE Refused(m, f, r)  BY <3>1, <4>1 DEF Refused
      <4>2. CASE CanOpen(m, f) /\ NoSpace(m, f, r)
        <5>1. Opened(m, f).m = m  BY <3>3 DEF Opened
        <5>2. QED  BY <3>1, <4>2, <5>1 DEF NoSpace
      <4>3. QED  BY <3>4, <4>1, <4>2
    <3>6. QED  BY <3>5
  <2>3. QED  BY <2>1, <2>2
<1>8. QED  BY <1>3, <1>4, <1>5, <1>6, <1>7 DEF HistoryOK

LEMMA CursorOfEnd ==
    ASSUME NEW m \in Mems, NEW f \in Files, HistoryOK(m, f)
    PROVE  /\ Cursor(m) = f.data[m.off].cur /\ m.cache # <<>> /\ m.cache \in Seq(Events)
           /\ Cursor(m) \in Nat /\ Cursor(m) >= 1 /\ m.off \in Nat
           /\ Last(m.cache) = f.data[m.off]
<1>1. m.cache \in Seq(Events) /\ m.off \in Nat /\ Len(m.cache) \in 1..m.off /\ m.off > 0
  BY DEF HistoryOK, EndOf, Mems
<1>2. m.cache # <<>>  BY <1>1, EmptySeq
<1>3. m.cache[Len(m.cache)] = f.data[m.off]
  <2>1. Len(m.cache) \in 1..Len(m.cache) /\ (m.off - Len(m.cache)) + Len(m.cache) = m.off
    BY <1>1
  <2>2. QED  BY <2>1 DEF HistoryOK, EndOf
<1>4. f.data[m.off].cur >= 1  BY <1>1 DEF HistoryOK, Good
<1>5. f.data[m.off].cur \in Nat
  <2>1. m.off \in 1..Len(f.data) /\ f.data \in Seq(Events)
    BY <1>1 DEF HistoryOK, Good, Files
  <2>2. f.data[m.off] \in Events  BY <2>1, ElementOfSeq
  <2>3. QED  BY <2>2 DEF Events
<1>6. QED  BY <1>1, <1>2, <1>3, <1>4, <1>5 DEF Cursor, Last

\* Consecutive records t behind the first n.
LEMMA GoodLonger ==
    ASSUME NEW d \in Seq(Events), NEW n \in Nat, NEW e \in Seq(Events), NEW l \in Nat,
           Len(e) = n + l, n <= Len(d), Good(d, n), \A i \in 1..n : e[i] = d[i],
           NEW c0 \in Nat, c0 >= 1,
           n > 0 => c0 = d[1].cur + n,
           \A i \in 1..l : e[n + i].kind \in Kinds /\ e[n + i].cur = c0 + (i - 1)
    PROVE  Good(e, n + l)
<1>1. n + l <= Len(e)  OBVIOUS
<1>2. CASE n = 0
  <2>1. ASSUME NEW i \in 1..(n + l)
        PROVE  e[i].kind \in Kinds /\ e[i].cur = c0 + (i - 1) /\ e[1].cur = c0
    <3>1. i \in 1..l /\ n + i = i /\ 1 \in 1..l /\ n + 1 = 1 /\ c0 + (1 - 1) = c0  BY <1>2
    <3>2. e[n + i].kind \in Kinds /\ e[n + i].cur = c0 + (i - 1)  BY <3>1
    <3>3. e[n + 1].cur = c0 + (1 - 1)  BY <3>1
    <3>4. QED  BY <3>1, <3>2, <3>3
  <2>2. QED  BY <1>1, <2>1 DEF Good
<1>3. CASE n > 0
  <2>1. 1 \in 1..n /\ e[1] = d[1] /\ d[1].cur >= 1  BY <1>3 DEF Good
  <2>2. d[1].cur \in Nat
    <3>1. d[1] \in Events  BY <1>3, ElementOfSeq
    <3>2. QED  BY <3>1 DEF Events
  <2>3. ASSUME NEW i \in 1..(n + l)
        PROVE  e[i].kind \in Kinds /\ e[i].cur >= 1 /\ e[i].cur = e[1].cur + (i - 1)
    <3>1. CASE i <= n
      <4>1. i \in 1..n  BY <3>1
      <4>2. QED  BY <2>1, <4>1 DEF Good
    <3>2. CASE i > n
      <4>1. i - n \in 1..l /\ n + (i - n) = i  BY <3>2
      <4>2. e[i].kind \in Kinds /\ e[i].cur = c0 + ((i - n) - 1)  BY <4>1
      <4>3. c0 = d[1].cur + n /\ i \in Nat /\ i >= 1  BY <1>3
      <4>4. c0 + ((i - n) - 1) = d[1].cur + (i - 1) /\ d[1].cur + (i - 1) >= 1
        BY <2>1, <2>2, <4>3
      <4>5. QED  BY <2>1, <4>2, <4>4
    <3>3. QED  BY <3>1, <3>2
  <2>4. QED  BY <1>1, <2>3 DEF Good
<1>4. QED  BY <1>2, <1>3

\* A written event follows the last one.
LEMMA WrittenKeeps ==
    ASSUME NEW m \in Mems, NEW f \in Files, WriterOK(m, f), NEW others \in Nat,
           NEW ev \in Events, ev.kind \in Kinds, ev.cur = Cursor(m) + 1,
           NEW r, r.ok \in BOOLEAN, CanOpen(m, f), HasSpace(m, f, others, ev),
           Written(m, f, ev, r), HistoryOK(m, f)
    PROVE  HistoryOK(r.m, r.f)
<1> DEFINE n == m.off
<1>1. /\ n \in Nat /\ n > 0 /\ f.linked /\ f.data \in Seq(Events) /\ n <= Len(f.data)
      /\ m.cache \in Seq(Events) /\ m.index \in SUBSET (Nat \X Nat) /\ ev.cur \in Nat
  BY DEF HistoryOK, Good, Mems, Files, Events
<1>2. Len(Recs(m, ev)) = 1 /\ Recs(m, ev)[1] = ev
  <2> DEFINE c == IF m.off = 0 THEN m.cache ELSE <<>>
  <2>1. Len(Recs(m, ev)) = Len(c) + 1 /\ Recs(m, ev)[Len(c) + 1] = ev  BY RecsOK, Zenon
  <2>2. c = <<>>  BY <1>1
  <2> HIDE DEF c
  <2>3. Len(c) = 0  BY <2>2, EmptySeq
  <2>4. QED  BY <2>1, <2>3
<1>3. /\ Extends(m, f, others, ev, r)
      /\ r.m.off = n + 1 /\ r.f.linked /\ Len(r.f.data) = n + 1 /\ r.m.dirty
      /\ r.f.data[n + 1] = ev
      /\ r.m.index = Indexed(Opened(m, f).m.index, ev.cur, n)
  <2>1. /\ Extends(m, f, others, ev, r)
        /\ r.m.off = m.off + Len(Recs(m, ev)) /\ r.f.linked /\ Len(r.f.data) = r.m.off
        /\ r.m.dirty
        /\ \A i \in 1..Len(Recs(m, ev)) : r.f.data[m.off + i] = Recs(m, ev)[i]
        /\ r.m.index = IF Len(Recs(m, ev)) = 1
                       THEN Indexed(Opened(m, f).m.index, ev.cur, m.off)
                       ELSE Opened(m, f).m.index
    BY WrittenExtends
  <2>2. 1 \in 1..1  OBVIOUS
  <2>3. QED  BY <1>2, <2>1, <2>2
<1>4. /\ r.f.data \in Seq(Events) /\ \A i \in 1..n : r.f.data[i] = f.data[i]
      /\ r.m.cache = Hot(m.cache, ev) /\ r.m.index \in SUBSET (Nat \X Nat)
  <2>1. r.ok  BY DEF Written
  <2>2. QED  BY <1>1, <1>3, <2>1 DEF Extends, Files, Mems
<1>5. /\ Cursor(m) = f.data[n].cur /\ Cursor(m) \in Nat /\ f.data[1].cur \in Nat
      /\ f.data[n].cur = f.data[1].cur + (n - 1)
  <2>1. f.data[1] \in Events  BY <1>1, ElementOfSeq
  <2>2. Cursor(m) = f.data[n].cur /\ Cursor(m) \in Nat  BY CursorOfEnd
  <2>3. n \in 1..n  BY <1>1
  <2>4. f.data[n].cur = f.data[1].cur + (n - 1)  BY <2>3 DEF HistoryOK, Good
  <2>5. QED  BY <2>1, <2>2, <2>4 DEF Events
<1>6. ev.cur = f.data[1].cur + n /\ ev.cur >= 1
  <2>1. ev.cur = (f.data[1].cur + (n - 1)) + 1  BY <1>5
  <2>2. \A x \in Nat, y \in Nat : y > 0 => (x + (y - 1)) + 1 = x + y /\ x + y >= 1  OBVIOUS
  <2>3. f.data[1].cur \in Nat /\ n \in Nat /\ n > 0  BY <1>1, <1>5
  <2> HIDE DEF n
  <2>4. QED  BY <2>1, <2>2, <2>3
<1>7. Good(r.f.data, n + 1)
  <2>1. \A i \in 1..1 : /\ r.f.data[n + i].kind \in Kinds
                        /\ r.f.data[n + i].cur = ev.cur + (i - 1)
    BY <1>1, <1>3
  <2>2. Good(f.data, n)  BY DEF HistoryOK
  <2>3. QED  BY <1>1, <1>3, <1>4, <1>6, <2>1, <2>2, GoodLonger
<1>8. EndOf(r.m.cache, r.f.data, n + 1)
  <2> DEFINE h == Hot(m.cache, ev)
             c == m.cache
             L == Len(h)
  <2>1. /\ L \in 1..(Len(c) + 1) /\ Len(c) \in 1..n
        /\ \A k \in 1..L : h[k] = Append(c, ev)[(Len(c) + 1) - L + k]
    BY <1>1, HotOK DEF HistoryOK, EndOf
  <2>2. L \in 1..(n + 1)  BY <1>1, <2>1
  <2> HIDE DEF h, L
  <2>3. ASSUME NEW k \in 1..L PROVE h[k] = r.f.data[((n + 1) - L) + k]
    <3> DEFINE x == (Len(c) + 1) - L + k
    <3>a. L \in Nat /\ k \in Nat /\ k >= 1 /\ k <= L /\ Len(c) \in Nat /\ L <= Len(c) + 1
      BY <1>1, <2>1
    <3>1. x \in 1..(Len(c) + 1) /\ ((n + 1) - L) + k = (n - Len(c)) + x  BY <1>1, <3>a
    <3>2. h[k] = Append(c, ev)[x]  BY <2>1
    <3> HIDE DEF x
    <3>3. CASE x = Len(c) + 1
      <4>1. Append(c, ev)[x] = ev  BY <1>1, <3>3, AppendProperties
      <4>2. (n - Len(c)) + x = n + 1  BY <1>1, <2>1, <3>3
      <4>3. QED  BY <1>3, <3>1, <3>2, <4>1, <4>2
    <3>4. CASE x # Len(c) + 1
      <4>1. x \in 1..Len(c)  BY <2>1, <3>1, <3>4
      <4>2. Append(c, ev)[x] = c[x]  BY <1>1, <4>1, AppendProperties
      <4>3. c[x] = f.data[(n - Len(c)) + x]  BY <4>1 DEF HistoryOK, EndOf
      <4>4. (n - Len(c)) + x \in 1..n  BY <1>1, <2>1, <4>1
      <4>5. QED  BY <1>4, <3>1, <3>2, <4>2, <4>3, <4>4
    <3>5. QED  BY <3>3, <3>4
  <2>4. r.m.cache = h  BY <1>4 DEF h
  <2>5. Len(r.m.cache) = L  BY <2>4 DEF L
  <2>6. QED  BY <2>2, <2>3, <2>4, <2>5 DEF EndOf
<1>9. ASSUME NEW p \in r.m.index PROVE p[2] < n + 1 /\ r.f.data[p[2] + 1].cur = p[1]
  <2>1. p \in m.index \/ p = <<ev.cur, n>>
    BY <1>3, OpenedOK DEF Indexed
  <2>2. CASE p \in m.index
    <3>1. p[2] \in Nat /\ p[2] < n /\ f.data[p[2] + 1].cur = p[1]
      BY <1>1, <2>2 DEF HistoryOK
    <3>2. p[2] + 1 \in 1..n /\ p[2] < n + 1  BY <1>1, <3>1
    <3>3. QED  BY <1>4, <3>1, <3>2
  <2>3. CASE p = <<ev.cur, n>>  BY <1>1, <1>3, <2>3
  <2>4. QED  BY <2>1, <2>2, <2>3
<1>10. n + 1 > 0  BY <1>1
<1>11. QED  BY <1>3, <1>7, <1>8, <1>9, <1>10 DEF HistoryOK

\* Records t written at offset k.
WroteAt(m, f, ev, r, k, t) ==
    /\ r.m.off = k + Len(t) /\ r.f.linked /\ Len(r.f.data) = k + Len(t) /\ r.m.dirty
    /\ \A i \in 1..Len(t) : r.f.data[k + i] = t[i]
    /\ r.m.index = IF Len(t) = 1 THEN Indexed(Opened(m, f).m.index, ev.cur, k)
                   ELSE Opened(m, f).m.index

LEMMA WrittenAt ==
    ASSUME NEW m \in Mems, NEW f \in Files, WriterOK(m, f), NEW others \in Nat, NEW ev \in Events,
           NEW r, CanOpen(m, f), HasSpace(m, f, others, ev), Written(m, f, ev, r),
           r.ok \in BOOLEAN
    PROVE  WroteAt(m, f, ev, r, m.off, Recs(m, ev))
BY WrittenExtends DEF WroteAt

\* The first write of a journal: the events of an older runner's cache, if any, and the new one.
LEMMA WrittenStarts ==
    ASSUME NEW m \in Mems, NEW f \in Files, WriterOK(m, f), NEW others \in Nat,
           NEW ev \in Events, ev.kind \in Kinds, ev.cur = Cursor(m) + 1,
           NEW r, r.ok \in BOOLEAN, CanOpen(m, f), HasSpace(m, f, others, ev),
           Written(m, f, ev, r), m.off = 0, m.index = {}, m.cache = <<>> \/ Seed(m.cache)
    PROVE  HistoryOK(r.m, r.f)
<1>a. WroteAt(m, f, ev, r, m.off, Recs(m, ev))  BY WrittenAt
<1>b. Extends(m, f, others, ev, r)  BY WrittenExtends
<1> DEFINE c == m.cache
           t == Append(c, ev)
           n == Len(c) + 1
<1>1. c \in Seq(Events) /\ Len(c) \in Nat /\ ev.cur \in Nat  BY DEF Mems, Events
<1>2. /\ t \in Seq(Events) /\ Len(t) = n /\ t[n] = ev
      /\ \A i \in 1..Len(c) : t[i] = c[i]
  BY <1>1, AppendProperties
<1>3. Recs(m, ev) = t  BY DEF Recs
<1> HIDE DEF t
<1>4. /\ Extends(m, f, others, ev, r)
      /\ r.m.off = n /\ r.f.linked /\ Len(r.f.data) = n /\ r.m.dirty
      /\ \A i \in 1..n : r.f.data[i] = t[i]
      /\ r.m.index = IF n = 1 THEN Indexed(Opened(m, f).m.index, ev.cur, 0)
                     ELSE Opened(m, f).m.index
  <2>1. WroteAt(m, f, ev, r, 0, t)  BY <1>a, <1>3
  <2>2. 0 + n = n /\ \A i \in 1..n : 0 + i = i  BY <1>1
  <2> HIDE DEF n
  <2>3. QED  BY <1>b, <1>2, <2>1, <2>2 DEF WroteAt
<1>5. r.f.data \in Seq(Events) /\ r.m.cache = Hot(c, ev)
  <2>1. r.ok  BY DEF Written
  <2>2. QED  BY <1>4, <2>1 DEF Extends, Files
<1>6. PICK c0 \in Nat : /\ c0 >= 1
                        /\ \A i \in 1..n : t[i].kind \in Kinds /\ t[i].cur = c0 + (i - 1)
  <2>1. CASE c = <<>>
    <3>1. Len(c) = 0 /\ n = 1  BY <2>1, EmptySeq
    <3>2. Cursor(m) = 0  BY <2>1 DEF Cursor
    <3>3. \A i \in 1..n : i = 1 /\ t[i] = ev  BY <1>2, <3>1
    <3>4. \A i \in 1..n : t[i].kind \in Kinds /\ t[i].cur = 1 + (i - 1)  BY <3>2, <3>3
    <3>5. 1 \in Nat /\ 1 >= 1  OBVIOUS
    <3>6. QED  BY <3>4, <3>5
  <2>2. CASE c # <<>> /\ Seed(c)
    <3>1. Len(c) >= 1 /\ 1 \in 1..Len(c) /\ Len(c) \in 1..Len(c)  BY <1>1, <2>2, EmptySeq
    <3>2. c[1] \in Events  BY <1>1, <3>1, ElementOfSeq
    <3>3. c[1].cur \in Nat /\ c[1].cur >= 1  BY <2>2, <3>1, <3>2 DEF Seed, Good, Events
    <3>4. \A i \in 1..Len(c) : c[i].kind \in Kinds /\ c[i].cur = c[1].cur + (i - 1)
      BY <2>2 DEF Seed, Good
    <3>5. Cursor(m) = c[1].cur + (Len(c) - 1)  BY <2>2, <3>1, <3>4 DEF Cursor, Last
    <3>6. ev.cur = c[1].cur + (n - 1)
      <4>1. \A x \in Nat, y \in Nat : (x + (y - 1)) + 1 = x + ((y + 1) - 1)  OBVIOUS
      <4>2. QED  BY <1>1, <3>3, <3>5, <4>1
    <3>7. ASSUME NEW i \in 1..n
          PROVE  t[i].kind \in Kinds /\ t[i].cur = c[1].cur + (i - 1)
      <4>1. CASE i = n  BY <1>2, <3>6, <4>1
      <4>2. CASE i # n
        <5>1. i \in 1..Len(c)  BY <1>1, <4>2
        <5>2. QED  BY <1>2, <3>4, <5>1
      <4>3. QED  BY <4>1, <4>2
    <3>8. QED  BY <3>3, <3>7
  <2>3. QED  BY <2>1, <2>2
<1>7. Good(r.f.data, n)
  <2>1. n \in Nat /\ n >= 1 /\ 1 \in 1..n  BY <1>1
  <2>2. t[1].cur = c0
    <3>1. c0 + (1 - 1) = c0  OBVIOUS
    <3>2. QED  BY <1>6, <2>1, <3>1
  <2>3. \A i \in 1..n : c0 + (i - 1) >= 1  BY <1>6
  <2>4. r.f.data[1].cur = c0  BY <1>4, <2>1, <2>2
  <2>5. n <= Len(r.f.data)  BY <1>4, <2>1
  <2> HIDE DEF n
  <2>6. ASSUME NEW i \in 1..n
        PROVE  /\ r.f.data[i].kind \in Kinds /\ r.f.data[i].cur >= 1
               /\ r.f.data[i].cur = r.f.data[1].cur + (i - 1)
    <3>1. r.f.data[i] = t[i]  BY <1>4
    <3>2. t[i].kind \in Kinds /\ t[i].cur = c0 + (i - 1)  BY <1>6
    <3>3. QED  BY <2>3, <2>4, <3>1, <3>2
  <2>7. QED  BY <2>5, <2>6 DEF Good
<1>8. EndOf(r.m.cache, r.f.data, n)
  <2> DEFINE h == Hot(c, ev)
             L == Len(h)
  <2>1. L \in 1..n /\ \A k \in 1..L : h[k] = t[n - L + k]  BY <1>1, HotOK DEF t
  <2> HIDE DEF h, L
  <2>2. ASSUME NEW k \in 1..L PROVE h[k] = r.f.data[(n - L) + k]
    <3>1. n \in Nat /\ L \in Nat /\ L <= n /\ k \in Nat /\ k >= 1 /\ k <= L  BY <1>1, <2>1
    <3>2. (n - L) + k \in 1..n  BY <3>1
    <3>3. QED  BY <1>4, <2>1, <3>2
  <2>3. r.m.cache = h  BY <1>5 DEF h
  <2>4. Len(r.m.cache) = L  BY <2>3 DEF L
  <2>5. QED  BY <2>1, <2>2, <2>3, <2>4 DEF EndOf
<1>9. ASSUME NEW p \in r.m.index PROVE p[2] < n /\ r.f.data[p[2] + 1].cur = p[1]
  <2>1. Opened(m, f).m.index = {}  BY OpenedOK
  <2>2. n = 1 /\ p = <<ev.cur, 0>>  BY <1>4, <2>1 DEF Indexed
  <2>3. r.f.data[1] = ev  BY <1>2, <1>4, <2>2
  <2>4. p[2] = 0 /\ p[1] = ev.cur /\ 0 + 1 = 1 /\ 0 < n  BY <2>2
  <2>5. QED  BY <2>3, <2>4
<1>10. n > 0  BY <1>1
<1>11. QED  BY <1>4, <1>7, <1>8, <1>9, <1>10 DEF HistoryOK

\* What the state file says of an attempt, and the journal that a start finds; gone are the
\* attempts that retention has taken.
DiskOK(d, f, gone) ==
    /\ d.phase \in Owned /\ d.off > 0 =>
          /\ gone \/ f.linked
          /\ f.linked => /\ Good(f.data, d.off) /\ f.synced >= d.off
                         /\ d.cache = <<f.data[d.off]>>
    /\ d.phase \in Owned /\ d.off = 0 => d.phase = "live" /\ Seed(d.cache)
    /\ d.phase \notin Owned => d.off = 0 /\ d.cache = <<>>
    /\ d.phase = "gone" => gone
    /\ gone => d.phase \in {"parked", "over", "gone"}

\* No step changes an event whose offset is committed.
KeepsCommitted(d, f, dd, ff) ==
    \/ ~(dd.phase \in Owned /\ ff.linked)
    \/ ~(d.phase \in Owned /\ f.linked)
    \/ d.off <= dd.off /\ \A i \in 1..d.off : ff.data[i] = f.data[i]

\* Another file with the same committed records.
LEMMA DiskKept ==
    ASSUME NEW d \in Disks, NEW f \in Files, NEW ff \in Files, NEW gone \in BOOLEAN,
           DiskOK(d, f, gone),
           d.phase \in Owned /\ d.off > 0 /\ f.linked =>
              /\ d.off <= Len(ff.data) /\ ff.synced >= d.off
              /\ \A i \in 1..d.off : ff.data[i] = f.data[i],
           d.phase \in Owned /\ d.off > 0 => (ff.linked => f.linked) /\ (gone \/ ff.linked)
    PROVE  DiskOK(d, ff, gone) /\ KeepsCommitted(d, f, d, ff)
<1>1. d.off \in Nat /\ f.data \in Seq(Events) /\ ff.data \in Seq(Events)  BY DEF Disks, Files
<1>2. CASE d.phase \in Owned /\ d.off > 0
  <2>1. CASE f.linked
    <3>1. Good(ff.data, d.off)  BY <1>1, <1>2, <2>1, GoodSame DEF DiskOK
    <3>2. ff.data[d.off] = f.data[d.off]  BY <1>1, <1>2, <2>1
    <3>3. QED  BY <1>1, <1>2, <2>1, <3>1, <3>2 DEF DiskOK, KeepsCommitted
  <2>2. CASE ~f.linked  BY <1>2, <2>2 DEF DiskOK, KeepsCommitted
  <2>3. QED  BY <2>1, <2>2
<1>3. CASE ~(d.phase \in Owned /\ d.off > 0)
  <2>1. d.off = 0  BY <1>1, <1>3 DEF DiskOK
  <2>2. KeepsCommitted(d, f, d, ff)  BY <1>1, <2>1 DEF KeepsCommitted
  <2>3. QED  BY <1>3, <2>1, <2>2 DEF DiskOK
<1>4. QED  BY <1>2, <1>3

\* An append does not touch what is committed.
LEMMA AppendKeepsDisk ==
    ASSUME NEW m \in Mems, NEW f \in Files, WriterOK(m, f), NEW others \in Nat, NEW ev \in Events,
           NEW r, Extends(m, f, others, ev, r),
           NEW d \in Disks, NEW gone \in BOOLEAN, DiskOK(d, f, gone),
           d.phase \in Owned => d.off <= m.off,
           d.phase \in Owned /\ d.off > 0 => f.linked /\ m.off <= Len(f.data)
    PROVE  DiskOK(d, r.f, gone) /\ KeepsCommitted(d, f, d, r.f)
<1>1. r.f \in Files /\ r.m.off \in Nat /\ m.off <= r.m.off /\ d.off \in Nat /\ m.off \in Nat
  BY DEF Extends, Mems, Disks
<1>2. CASE d.phase \in Owned /\ d.off > 0
  <2>1. /\ r.f.linked /\ r.m.off <= Len(r.f.data)
        /\ \A i \in 1..m.off : r.f.data[i] = f.data[i]
        /\ \A k \in 0..m.off : f.synced >= k => r.f.synced >= k
    BY <1>2 DEF Extends
  <2>2. d.off <= m.off /\ d.off \in 0..m.off /\ \A i \in 1..d.off : i \in 1..m.off
    BY <1>1, <1>2
  <2>3. Len(r.f.data) \in Nat  BY <1>1 DEF Files
  <2>4. d.off <= Len(r.f.data)  BY <1>1, <2>1, <2>2, <2>3
  <2>5. f.synced >= d.off  BY <1>2 DEF DiskOK
  <2>6. QED  BY <1>1, <1>2, <2>1, <2>2, <2>4, <2>5, DiskKept
<1>3. CASE ~(d.phase \in Owned /\ d.off > 0)  BY <1>1, <1>3, DiskKept
<1>4. QED  BY <1>2, <1>3

\* The failures that keep the history: an export that fails restores a cache that is not the
\* end of its journal, and a save that fails without landing leaves records that are not
\* synced for a torn write or a removal to forget.
Apart(md) == "export" \notin md /\ ("save" \in md => "write" \notin md /\ "drop" \notin md)

\* The memory of an attempt and its journal; an attempt that retention has taken may come
\* back from the state file until the purge of the next start takes it again.
MemOK(m, f, gone, serving) ==
    /\ m.phase \in Owned /\ (serving \/ ~gone) /\ m.off > 0 => HistoryOK(m, f)
    /\ m.phase \in Owned /\ m.off = 0 => ~serving /\ m.phase = "live" /\ Seed(m.cache)
    /\ m.phase \notin Owned => m.index = {} /\ m.off = 0 /\ m.cache = <<>>

\* The memory of an attempt and what the state file says of it.
LinkOK(m, d, gone, serving) ==
    /\ m.phase = "none" => d.phase = "none"
    /\ d.phase = "gone" => m.phase = "gone"
    /\ m.phase = "gone" => gone
    /\ serving /\ gone => m.phase = "gone"
    /\ m.phase \in Owned /\ d.phase \in Owned => d.off <= m.off
    /\ ~serving /\ m.phase \in Owned => d.phase \in Owned
    /\ ~serving /\ m.phase = "live" => d.phase = "live" /\ ~m.dirty /\ m.index = {}

\* Where no handler has written anything that its save did not take.
Calm    == {"free", "purge", "failing", "exportfailed"}
Between == {"free", "purge"}

Settled(m, d, pc) ==
    /\ pc \in Calm => ~m.dirty
    /\ pc \in Between /\ m.phase \in {"parked", "over"} /\ ~m.running =>
          d.phase \in {"parked", "over"}

\* The terminal event of an export that wrote its first event has the space it needs.
ExportOK ==
    at = "export" =>
        LET m == j[held.who] IN
        m.wend = m.off /\ m.off <= JournalLimit /\ Accounted(Attempts) <= TotalLimit

HistInv ==
    /\ Apart(mode)
    /\ at # "down" => \A a \in Attempts : /\ MemOK(j[a], fs[a], a \in due, Serving)
                                          /\ LinkOK(j[a], disk[a], a \in due, Serving)
    /\ \A a \in Attempts : DiskOK(disk[a], fs[a], a \in due)
    /\ "save" \notin mode => \A a \in Attempts : Settled(j[a], disk[a], at)
    /\ ExportOK
    /\ at = "startsave" => \A a \in Attempts : j[a].phase # "live"

\* No committed event of any attempt is changed by this step.
Keeps == \A a \in Attempts : KeepsCommitted(disk[a], fs[a], disk'[a], fs'[a])

LEMMA KeepsSame == ASSUME NEW d, NEW f, d.off \in Nat PROVE KeepsCommitted(d, f, d, f)
BY DEF KeepsCommitted

\* Only one attempt changes, and the state file does not.
LEMMA OneStep ==
    ASSUME BaseInv, HistInv, NEW a \in Attempts, NEW m1, NEW f1, at # "down", at' # "down",
           Serving' <=> Serving, j' = [j EXCEPT ![a] = m1], fs' = [fs EXCEPT ![a] = f1],
           UNCHANGED <<disk, mode>>, due' \subseteq due \cup {a}, due \subseteq due',
           MemOK(m1, f1, a \in due', Serving), LinkOK(m1, disk[a], a \in due', Serving),
           DiskOK(disk[a], f1, a \in due'), KeepsCommitted(disk[a], fs[a], disk[a], f1),
           "save" \notin mode => Settled(m1, disk[a], at'),
           at' \in Calm => at \in Calm, at' \in Between => at \in Between,
           ExportOK', at' = "startsave" => at = "startsave" /\ m1.phase # "live"
    PROVE  HistInv' /\ Keeps
<1>1. /\ j \in [Attempts -> Mems] /\ fs \in [Attempts -> Files] /\ disk \in [Attempts -> Disks]
  BY TypeParts DEF BaseInv
<1>2. j'[a] = m1 /\ fs'[a] = f1  BY <1>1
<1>3. ASSUME NEW b \in Attempts, b # a
      PROVE  j'[b] = j[b] /\ fs'[b] = fs[b] /\ (b \in due' <=> b \in due)
  BY <1>1, <1>3
<1>4. ASSUME NEW b \in Attempts
      PROVE  /\ MemOK(j'[b], fs'[b], b \in due', Serving')
             /\ LinkOK(j'[b], disk'[b], b \in due', Serving')
             /\ DiskOK(disk'[b], fs'[b], b \in due')
             /\ KeepsCommitted(disk[b], fs[b], disk'[b], fs'[b])
  <2>1. CASE b = a  BY <1>2, <2>1 DEF MemOK, LinkOK
  <2>2. CASE b # a
    <3>1. disk[b].off \in Nat  BY <1>1 DEF Disks
    <3>2. KeepsCommitted(disk[b], fs[b], disk'[b], fs'[b])  BY <1>3, <2>2, <3>1, KeepsSame
    <3>3. /\ MemOK(j[b], fs[b], b \in due, Serving) /\ LinkOK(j[b], disk[b], b \in due, Serving)
          /\ DiskOK(disk[b], fs[b], b \in due)
      BY DEF HistInv
    <3>4. QED  BY <1>3, <2>2, <3>2, <3>3 DEF MemOK, LinkOK, DiskOK
  <2>3. QED  BY <2>1, <2>2
<1>5. ASSUME "save" \notin mode', NEW b \in Attempts PROVE Settled(j'[b], disk'[b], at')
  <2>1. CASE b = a  BY <1>2, <1>5, <2>1
  <2>2. CASE b # a
    <3>1. Settled(j[b], disk[b], at)  BY <1>5 DEF HistInv
    <3>2. QED  BY <1>3, <2>2, <3>1 DEF Settled
  <2>3. QED  BY <2>1, <2>2
<1>6. at' = "startsave" => \A b \in Attempts : j'[b].phase # "live"
  BY <1>2, <1>3 DEF HistInv
<1>7. Apart(mode')  BY DEF HistInv
<1>8. QED  BY <1>4, <1>5, <1>6, <1>7 DEF HistInv, Keeps

\* Nothing changes but the stream.
LEMMA StillHist ==
    ASSUME BaseInv, HistInv, UNCHANGED <<j, fs, disk, at, held, mode, due>>
    PROVE  HistInv' /\ Keeps
<1>1. \A a \in Attempts : disk[a].off \in Nat  BY TypeParts DEF BaseInv, Disks
<1>2. Keeps  BY <1>1, KeepsSame DEF Keeps
<1>3. (Serving' <=> Serving) /\ (ExportOK' <=> ExportOK)  BY DEF Serving, ExportOK, Accounted
<1>4. QED  BY <1>2, <1>3 DEF HistInv, MemOK, LinkOK

\* The journal of an attempt after an append.
LEMMA AppendHistory ==
    ASSUME BaseInv, at # "down", NEW a \in Attempts, NEW m \in Mems, SameWriter(m, j[a]),
           NEW kind \in Kinds, NEW outs, NEW r \in Results(a, m, kind, outs), Wrote(a, r),
           "write" \in outs => ~m.dirty,
           \/ HistoryOK(m, fs[a])
           \/ r.ok /\ m.off = 0 /\ m.index = {} /\ (m.cache = <<>> \/ Seed(m.cache))
    PROVE  /\ HistoryOK(r.m, r.f) /\ r.m \in Mems /\ r.f \in Files /\ r.ok \in BOOLEAN
           /\ Extends(m, fs[a], OtherBytes(a), Ev(m, kind), r) /\ fs' = [fs EXCEPT ![a] = r.f]
           /\ Ev(m, kind) \in Events /\ fs[a] \in Files /\ WriterOK(m, fs[a])
           /\ ~r.ok /\ r.m.dirty => m.dirty
<1>1. fs[a] \in Files /\ born \in Nat /\ OtherBytes(a) \in Nat  BY TypeParts, OthersOK DEF BaseInv
<1>2. WriterOK(m, fs[a])  BY SameWriterOK DEF BaseInv
<1>3. /\ Ev(m, kind) \in Events /\ fs' = [fs EXCEPT ![a] = r.f]
      /\ Extends(m, fs[a], OtherBytes(a), Ev(m, kind), r)
  BY Appended
<1>4. r \in AppendResults(m, fs[a], OtherBytes(a), Ev(m, kind), outs)  BY DEF Results, Ev
<1>5. Ev(m, kind).kind \in Kinds /\ Ev(m, kind).cur = Cursor(m) + 1  BY DEF Ev
<1>6. r.ok \in BOOLEAN /\ r.m \in Mems /\ r.f \in Files  BY <1>3 DEF Extends
<1>7. HistoryOK(r.m, r.f)
  <2>1. CASE ~r.ok  BY <1>1, <1>2, <1>3, <1>4, <2>1, FailedKeeps
  <2>2. CASE r.ok
    <3>1. /\ CanOpen(m, fs[a]) /\ HasSpace(m, fs[a], OtherBytes(a), Ev(m, kind))
          /\ Written(m, fs[a], Ev(m, kind), r)
      BY <1>1, <1>2, <1>3, <1>4, <2>2, AppendSound
         DEF Refused, TooShort, NotOpened, NoSpace, TornWrite
    <3>2. CASE HistoryOK(m, fs[a])
      BY <1>1, <1>2, <1>3, <1>5, <1>6, <3>1, <3>2, WrittenKeeps
    <3>3. CASE m.off = 0 /\ m.index = {} /\ (m.cache = <<>> \/ Seed(m.cache))
      BY <1>1, <1>2, <1>3, <1>5, <1>6, <3>1, <3>3, WrittenStarts
    <3>4. QED  BY <3>2, <3>3
  <2>3. QED  BY <1>6, <2>1, <2>2
<1>8. ~r.ok /\ r.m.dirty => m.dirty  BY <1>3 DEF Extends
<1>9. QED  BY <1>1, <1>2, <1>3, <1>6, <1>7, <1>8

\* What a handler finds of an attempt it may append to.
LEMMA ServedOK ==
    ASSUME BaseInv, HistInv, Serving, NEW a \in Attempts, j[a].phase \in Owned
    PROVE  /\ HistoryOK(j[a], fs[a]) /\ a \notin due
           /\ disk[a].phase \in Owned => disk[a].off <= j[a].off
           /\ disk[a].phase # "gone"
<1>1. at # "down"  BY DEF Serving
<1>2. /\ MemOK(j[a], fs[a], a \in due, Serving) /\ LinkOK(j[a], disk[a], a \in due, Serving)
      /\ j[a].off \in Nat
  BY <1>1, TypeParts DEF HistInv, BaseInv, Mems
<1>3. QED  BY <1>2 DEF MemOK, LinkOK, Owned

\* A handler that appends an event and goes on: the history grows or stays.
LEMMA AppendHist ==
    ASSUME BaseInv, HistInv, Serving, Serving', NEW a \in Attempts, NEW m \in Mems,
           SameWriter(m, j[a]), m.cache = j[a].cache, m.index = j[a].index,
           NEW kind \in Kinds, NEW outs, NEW r \in Results(a, m, kind, outs), Wrote(a, r),
           j[a].phase \in Owned \/ (j[a].phase = "none" /\ r.ok),
           "write" \in outs => "write" \in mode /\ at \in Calm,
           NEW m1 \in Mems, SameHistory(m1, r.m), m1.phase \in Owned, j' = [j EXCEPT ![a] = m1],
           UNCHANGED <<disk, mode, due>>,
           at' \in Calm => ~r.ok /\ at \in Calm,
           at' \in Between => at \in Between /\ (m1.phase = "live" \/ m1.running),
           ExportOK'
    PROVE  HistInv' /\ Keeps
<1>1. at # "down" /\ at' # "down" /\ at' # "startsave"  BY DEF Serving
<1>2. /\ MemOK(j[a], fs[a], a \in due, Serving) /\ LinkOK(j[a], disk[a], a \in due, Serving)
      /\ DiskOK(disk[a], fs[a], a \in due) /\ Apart(mode)
      /\ "save" \notin mode => Settled(j[a], disk[a], at)
  BY <1>1 DEF HistInv
<1>3. /\ m.off = j[a].off /\ m.off \in Nat /\ disk[a] \in Disks /\ (m.dirty <=> j[a].dirty)
  BY TypeParts DEF SameWriter, BaseInv, Mems
<1>4. "write" \in outs => ~m.dirty  BY <1>2, <1>3 DEF Apart, Settled
<1>5. SameHistory(m, j[a])  BY <1>3 DEF SameHistory
<1>6. \/ j[a].phase \in Owned /\ HistoryOK(m, fs[a])
      \/ /\ j[a].phase = "none" /\ r.ok /\ m.off = 0 /\ m.index = {} /\ m.cache = <<>>
         /\ disk[a].phase = "none"
  <2>1. CASE j[a].phase \in Owned  BY <1>5, <2>1, ServedOK, SameHistoryOK
  <2>2. CASE j[a].phase = "none" /\ r.ok  BY <1>2, <1>3, <2>2 DEF MemOK, LinkOK, Owned
  <2>3. QED  BY <2>1, <2>2
<1>7. /\ HistoryOK(r.m, r.f) /\ r.m \in Mems /\ r.f \in Files /\ r.ok \in BOOLEAN
      /\ Extends(m, fs[a], OtherBytes(a), Ev(m, kind), r) /\ fs' = [fs EXCEPT ![a] = r.f]
      /\ Ev(m, kind) \in Events /\ fs[a] \in Files /\ WriterOK(m, fs[a])
      /\ ~r.ok /\ r.m.dirty => m.dirty
  BY <1>1, <1>4, <1>6, AppendHistory
<1>8. HistoryOK(m1, r.f) /\ m1.off > 0
  <2>1. HistoryOK(m1, r.f)  BY <1>7, SameHistoryOK
  <2>2. QED  BY <2>1 DEF HistoryOK
<1>9. a \notin due /\ disk[a].phase # "gone"
  BY <1>2, <1>6, ServedOK DEF LinkOK, Owned
<1>10. MemOK(m1, r.f, a \in due, Serving)  BY <1>8 DEF MemOK
<1>11. LinkOK(m1, disk[a], a \in due, Serving)
  <2>1. disk[a].phase \in Owned => disk[a].off <= m1.off
    <3> SUFFICES ASSUME disk[a].phase \in Owned PROVE disk[a].off <= m1.off  OBVIOUS
    <3>1. j[a].phase \in Owned  BY <1>6 DEF Owned
    <3>2. disk[a].off <= m.off  BY <1>3, <3>1, ServedOK
    <3>3. m.off <= r.m.off /\ m1.off = r.m.off  BY <1>7 DEF Extends, SameHistory
    <3>4. disk[a].off \in Nat /\ r.m.off \in Nat  BY <1>3, <1>7 DEF Disks, Mems
    <3>5. QED  BY <1>3, <3>2, <3>3, <3>4
  <2>2. m1.phase \notin {"none", "gone"}  BY DEF Owned
  <2>3. QED  BY <1>9, <2>1, <2>2 DEF LinkOK
<1>12. DiskOK(disk[a], r.f, a \in due) /\ KeepsCommitted(disk[a], fs[a], disk[a], r.f)
  <2>1. disk[a].phase \in Owned => /\ disk[a].off <= m.off
                                   /\ fs[a].linked /\ m.off <= Len(fs[a].data)
    BY <1>3, <1>6, ServedOK DEF HistoryOK, Good, Owned
  <2>2. OtherBytes(a) \in Nat  BY <1>1, OthersOK
  <2>3. (a \in due) \in BOOLEAN  OBVIOUS
  <2>4. QED  BY <1>2, <1>3, <1>7, <2>1, <2>2, <2>3, AppendKeepsDisk
<1>13. ASSUME "save" \notin mode PROVE Settled(m1, disk[a], at')
  <2>1. at' \in Calm => ~m1.dirty
    BY <1>2, <1>3, <1>7, <1>13 DEF Settled, SameHistory
  <2>2. at' \in Between => ~(m1.phase \in {"parked", "over"} /\ ~m1.running)  OBVIOUS
  <2>3. QED  BY <2>1, <2>2 DEF Settled
<1>14. (Serving' <=> Serving) /\ due' \subseteq due \cup {a} /\ due \subseteq due'
       /\ UNCHANGED <<disk, mode>>
  OBVIOUS
<1>15. QED
  BY <1>1, <1>7, <1>10, <1>11, <1>12, <1>13, <1>14, OneStep

LEMMA SameHistoryFrom ==
    ASSUME NEW m, NEW n, SameWriter(m, n), m.cache = n.cache, m.index = n.index
    PROVE  SameHistory(m, n) /\ SameHistory(n, n)
BY DEF SameWriter, SameHistory

LEMMA RelaunchHist == ASSUME BaseInv, HistInv, NEW a \in Attempts, Relaunch(a) PROVE HistInv' /\ Keeps
<1>1. /\ at = "free" /\ at' = "launch"
      /\ UNCHANGED <<j, fs, disk, con, mode, due, born, lost>>
  BY TakeOK DEF Relaunch
<1>2. /\ j \in [Attempts -> Mems] /\ fs \in [Attempts -> Files] /\ disk[a] \in Disks
  BY TypeParts DEF BaseInv
<1>3. j' = [j EXCEPT ![a] = j[a]] /\ fs' = [fs EXCEPT ![a] = fs[a]]  BY <1>1, <1>2
<1>4. KeepsCommitted(disk[a], fs[a], disk[a], fs[a])  BY <1>2, KeepsSame DEF Disks
<1>5. Serving /\ Serving' /\ at # "down" /\ at' # "down"  BY <1>1 DEF Serving
<1>6. /\ MemOK(j[a], fs[a], a \in due, Serving) /\ LinkOK(j[a], disk[a], a \in due, Serving)
      /\ DiskOK(disk[a], fs[a], a \in due)
  BY <1>5 DEF HistInv
<1>7. Settled(j[a], disk[a], at') /\ ExportOK' /\ at' \notin Calm /\ at' \notin Between
  BY <1>1 DEF Settled, ExportOK, Calm, Between
<1>8. QED  BY <1>1, <1>3, <1>4, <1>5, <1>6, <1>7, OneStep

LEMMA HarnessEventHist ==
    ASSUME BaseInv, HistInv, NEW a \in Attempts, NEW kind \in Kinds, HarnessEvent(a, kind)
    PROVE  HistInv' /\ Keeps
<1>1. /\ at = "free" /\ j[a].phase \in Owned /\ UNCHANGED <<disk, mode, due, lost>>
  BY DEF HarnessEvent, Owned
<1>2. PICK r \in Results(a, j[a], kind, mode) :
        /\ Wrote(a, r)
        /\ \/ /\ r.ok /\ Take(a, "eventsave")
              /\ Patch(a, [r.m EXCEPT !.phase = IF kind = "ask" THEN "parked" ELSE "live"])
           \/ ~r.ok /\ Take(a, "failing") /\ Patch(a, r.m)
  BY DEF HarnessEvent
<1>3. r.m \in Mems /\ r.m.phase = j[a].phase
  BY <1>1, <1>2, HandlerFacts, Appended DEF Extends
<1>4. PICK m1 \in Mems : SameHistory(m1, r.m) /\ m1.phase \in Owned /\ j' = [j EXCEPT ![a] = m1]
  <2>1. CASE Patch(a, [r.m EXCEPT !.phase = IF kind = "ask" THEN "parked" ELSE "live"])
    <3> DEFINE p == IF kind = "ask" THEN "parked" ELSE "live"
               n == [r.m EXCEPT !.phase = p]
    <3>1. p \in Phases /\ p \in Owned  BY DEF Phases, Owned
    <3>2. j' = [j EXCEPT ![a] = n]  BY <2>1 DEF Patch
    <3> HIDE DEF p
    <3>3. /\ n \in Mems /\ SameWriter(n, r.m) /\ n.phase = p
          /\ n.cache = r.m.cache /\ n.index = r.m.index
      BY <1>3, <3>1, EditPhase, Zenon
    <3> HIDE DEF n
    <3>4. SameHistory(n, r.m)  BY <3>3, SameHistoryFrom
    <3>5. QED  BY <3>1, <3>2, <3>3, <3>4
  <2>2. CASE Patch(a, r.m)
    <3>1. SameHistory(r.m, r.m)  BY DEF SameHistory
    <3>2. QED  BY <1>1, <1>3, <2>2, <3>1 DEF Patch
  <2>3. QED  BY <1>2, <2>1, <2>2
<1>5. \/ at' = "eventsave" /\ r.ok
      \/ at' = "failing" /\ ~r.ok
  BY <1>2, TakeOK
<1>6. /\ Serving /\ Serving' /\ ExportOK' /\ at \in Calm /\ at' \notin Between
      /\ at' \in Calm => ~r.ok
  BY <1>1, <1>5 DEF Serving, ExportOK, Calm, Between
<1>7. j[a] \in Mems /\ SameWriter(j[a], j[a])  BY HandlerFacts
<1>8. Wrote(a, r)  BY <1>2
<1>9. QED  BY <1>1, <1>4, <1>6, <1>7, <1>8, AppendHist

LEMMA FailHarnessEventHist == ASSUME BaseInv, HistInv, FailHarnessEvent PROVE HistInv' /\ Keeps
<1> DEFINE a == held.who
           m == [j[a] EXCEPT !.phase = "live", !.failed = TRUE]
<1>1. at = "failing" /\ UNCHANGED <<disk, mode, due, lost>>  BY DEF FailHarnessEvent
<1>2. \E r \in Results(a, m, "progress", mode) : Wrote(a, r) /\ Patch(a, r.m) /\ Take(a, "save")
  BY DEF FailHarnessEvent
<1>3. a \in Attempts /\ j[a].phase \in Owned
  BY <1>1, TypeParts DEF BaseInv, Helds, Goes
<1>4. /\ m \in Mems /\ SameWriter(m, j[a]) /\ m.phase = "live"
      /\ m.cache = j[a].cache /\ m.index = j[a].index
  BY <1>3, HandlerFacts, EditFailed
<1> HIDE DEF m, a
<1>5. PICK r \in Results(a, m, "progress", mode) :
        Wrote(a, r) /\ Patch(a, r.m) /\ Take(a, "save")
  BY <1>2
<1>6. r.m \in Mems /\ r.m.phase = m.phase /\ "progress" \in Kinds
  BY <1>1, <1>3, <1>4, <1>5, HandlerFacts, Appended DEF Extends
<1>7. SameHistory(r.m, r.m) /\ r.m.phase \in Owned /\ j' = [j EXCEPT ![a] = r.m]
  BY <1>4, <1>5, <1>6 DEF Owned, Patch, SameHistory
<1>8. at' = "save"  BY <1>3, <1>5, TakeOK
<1>9. /\ Serving /\ Serving' /\ ExportOK' /\ at \in Calm /\ at' \notin Between /\ at' \notin Calm
  BY <1>1, <1>8 DEF Serving, ExportOK, Calm, Between
<1>10. QED  BY <1>1, <1>3, <1>4, <1>5, <1>6, <1>7, <1>9, AppendHist

LEMMA RequestHist ==
    ASSUME BaseInv, HistInv, NEW a \in Attempts, NEW kind \in {"progress", "ask"}, Request(a, kind)
    PROVE  HistInv' /\ Keeps
<1> DEFINE p == IF kind = "ask" THEN "parked" ELSE "live"
           m == [j[a] EXCEPT !.phase = p, !.failed = FALSE]
<1>1. /\ at = "free" /\ j[a].phase \in Owned /\ UNCHANGED <<disk, mode, due, lost>>
      /\ kind = "ask" => j[a].running
      /\ \E r \in Results(a, m, kind, mode) :
            /\ Wrote(a, r) /\ Patch(a, r.m)
            /\ Take(a, IF ~r.ok THEN "free" ELSE IF j[a].running THEN "save" ELSE "launch")
  BY DEF Request, Owned
<1>2. p \in Phases /\ p \in Owned /\ kind \in Kinds /\ (p # "live" => kind = "ask")
  BY DEF Phases, Owned, Kinds
<1> HIDE DEF p
<1>a. j[a] \in Mems /\ FALSE \in BOOLEAN  BY HandlerFacts
<1>3. /\ m \in Mems /\ SameWriter(m, j[a]) /\ m.phase = p
      /\ m.cache = j[a].cache /\ m.index = j[a].index
  BY <1>2, <1>a, EditFailed, Zenon
<1>4. m.running = j[a].running  BY <1>a DEF Mems
<1> HIDE DEF m
<1>5. PICK r \in Results(a, m, kind, mode) :
        /\ Wrote(a, r) /\ Patch(a, r.m)
        /\ Take(a, IF ~r.ok THEN "free" ELSE IF j[a].running THEN "save" ELSE "launch")
  BY <1>1
<1>6. r.m \in Mems /\ r.m.phase = m.phase /\ r.m.running = m.running
  BY <1>1, <1>2, <1>3, <1>5, HandlerFacts, Appended DEF Extends
<1>7. SameHistory(r.m, r.m) /\ r.m.phase \in Owned /\ j' = [j EXCEPT ![a] = r.m]
  BY <1>2, <1>3, <1>5, <1>6 DEF Patch, SameHistory
<1>8. at' \in {"free", "save", "launch"} /\ (at' = "free" => ~r.ok)
  <2>1. at' = IF ~r.ok THEN "free" ELSE IF j[a].running THEN "save" ELSE "launch"
    BY <1>5, TakeOK
  <2>2. QED  BY <2>1
<1>9. /\ Serving /\ Serving' /\ ExportOK' /\ at \in Calm /\ at \in Between
      /\ at' \in Calm => ~r.ok
  BY <1>1, <1>8 DEF Serving, ExportOK, Calm, Between
<1>10. r.m.phase = "live" \/ r.m.running  BY <1>1, <1>2, <1>3, <1>4, <1>6
<1>11. QED  BY <1>1, <1>2, <1>3, <1>5, <1>6, <1>7, <1>9, <1>10, AppendHist

LEMMA FinishesHist ==
    ASSUME BaseInv, HistInv, at \in Calm, NEW a \in Attempts, NEW phase \in {"parked", "over"},
           j[a].phase \in Owned, Finishes(a, phase)
    PROVE  HistInv' /\ Keeps
<1> DEFINE m == [j[a] EXCEPT !.phase = phase, !.running = FALSE]
           kind == IF phase = "parked" THEN "ask" ELSE "end"
<1>1. /\ \/ AlreadyRecorded(m, phase) /\ Patch(a, m) /\ UNCHANGED <<fs, con, born>>
         \/ /\ ~AlreadyRecorded(m, phase)
            /\ \E r \in Results(a, m, kind, mode) : Wrote(a, r) /\ Patch(a, r.m)
      /\ Take(a, "save") /\ UNCHANGED <<disk, mode, due, lost>>
  BY DEF Finishes
<1>2. phase \in Phases /\ phase \in Owned /\ kind \in Kinds  BY DEF Phases, Owned, Kinds
<1>a. j[a] \in Mems /\ FALSE \in BOOLEAN  BY HandlerFacts
<1>3. /\ m \in Mems /\ SameWriter(m, j[a]) /\ m.phase = phase
      /\ m.cache = j[a].cache /\ m.index = j[a].index
  BY <1>2, <1>a, EditFinished, Zenon
<1> HIDE DEF m, kind
<1>4. at' = "save"  BY <1>1, TakeOK
<1>5. /\ Serving /\ Serving' /\ ExportOK' /\ at' \notin Between /\ at' \notin Calm
      /\ at # "down" /\ at' # "down"
  BY <1>4 DEF Serving, ExportOK, Calm, Between
<1>6. CASE Patch(a, m) /\ UNCHANGED <<fs, con, born>>
  <2>1. /\ j \in [Attempts -> Mems] /\ fs \in [Attempts -> Files] /\ disk[a] \in Disks
    BY TypeParts DEF BaseInv
  <2>2. j' = [j EXCEPT ![a] = m] /\ fs' = [fs EXCEPT ![a] = fs[a]]
    BY <1>6, <2>1 DEF Patch
  <2>3. KeepsCommitted(disk[a], fs[a], disk[a], fs[a])  BY <2>1, KeepsSame DEF Disks
  <2>4. /\ HistoryOK(j[a], fs[a]) /\ a \notin due /\ disk[a].phase # "gone"
        /\ disk[a].phase \in Owned => disk[a].off <= j[a].off
    BY <1>5, ServedOK
  <2>5. HistoryOK(m, fs[a])  BY <1>3, <2>4, SameHistoryFrom, SameHistoryOK
  <2>6. m.off = j[a].off /\ m.off > 0  BY <1>3, <2>4 DEF SameWriter, HistoryOK
  <2>7. MemOK(m, fs[a], a \in due, Serving)  BY <1>2, <1>3, <2>5, <2>6 DEF MemOK
  <2>8. LinkOK(m, disk[a], a \in due, Serving)
    BY <1>3, <1>5, <2>4, <2>6 DEF LinkOK
  <2>9. DiskOK(disk[a], fs[a], a \in due)  BY DEF HistInv
  <2>10. Settled(m, disk[a], at')  BY <1>5 DEF Settled
  <2>11. at' # "startsave"  BY <1>4
  <2>12. QED
    BY <1>1, <1>5, <2>2, <2>3, <2>7, <2>8, <2>9, <2>10, <2>11, OneStep
<1>7. CASE \E r \in Results(a, m, kind, mode) : Wrote(a, r) /\ Patch(a, r.m)
  <2>1. PICK r \in Results(a, m, kind, mode) : Wrote(a, r) /\ Patch(a, r.m)  BY <1>7
  <2>2. r.m \in Mems /\ r.m.phase = m.phase
    BY <1>2, <1>3, <1>5, <2>1, HandlerFacts, Appended DEF Extends
  <2>3. SameHistory(r.m, r.m) /\ r.m.phase \in Owned /\ j' = [j EXCEPT ![a] = r.m]
    BY <1>2, <1>3, <2>1, <2>2 DEF Patch, SameHistory
  <2>4. QED  BY <1>1, <1>2, <1>3, <1>5, <2>1, <2>2, <2>3, AppendHist
<1>8. QED  BY <1>1, <1>6, <1>7

LEMMA FinishHist ==
    ASSUME BaseInv, HistInv, NEW a \in Attempts, NEW phase \in {"parked", "over"}, Finish(a, phase)
    PROVE  HistInv' /\ Keeps
<1>1. at \in Calm /\ j[a].phase \in Owned /\ Finishes(a, phase)  BY DEF Finish, Owned, Calm
<1>2. QED  BY <1>1, FinishesHist

LEMMA ExportFailedHist == ASSUME BaseInv, HistInv, ExportFailed PROVE HistInv' /\ Keeps
<1>1. at \in Calm /\ Finishes(held.who, "over") /\ at \in Goes  BY DEF ExportFailed, Goes, Calm
<1>2. held.who \in Attempts /\ j[held.who].phase \in Owned
  BY <1>1, TypeParts DEF BaseInv, Helds
<1>3. QED  BY <1>1, <1>2, FinishesHist

\* A writer that stands at the end of a journal that has records.
Ready(m) == m.wend = m.off /\ m.off > 0

\* An append that has space, in an open journal where nothing fails, writes its event.
LEMMA AppendSucceeds ==
    ASSUME NEW m \in Mems, NEW f \in Files, NEW others \in Nat, NEW ev \in Events,
           NEW outs, NEW r \in AppendResults(m, f, others, ev, outs),
           "open" \notin outs, "write" \notin outs,
           Ready(m), m.off + 1 <= Limit(ev.kind),
           others + m.size + 1 <= TotalQuota(ev.kind)
    PROVE  r.ok
<1>1. m.off \in Nat /\ m.size \in Nat  BY DEF Mems
<1>2. Recs(m, ev) = Append(<<>>, ev)
  <2>1. m.off # 0  BY <1>1 DEF Ready
  <2>2. QED  BY <2>1, Zenon DEF Recs
<1>3. Len(Recs(m, ev)) = 1  BY <1>2
<1>4. Opened(m, f) = [m |-> m, f |-> f]  BY DEF Opened, Ready
<1>5. Limit(ev.kind) \in Nat /\ TotalQuota(ev.kind) \in Nat  BY LimitsOK
<1>6. Len(FileFound(f).data) \in Nat  BY FileFoundOK
<1>7. Opened(m, f).m.size = m.size  BY <1>4
<1>9. ~TooShort(m, f, r)  BY DEF TooShort, Ready
<1>10. ~(m.off + Len(Recs(m, ev)) > Limit(ev.kind))
       /\ ~(others + Opened(m, f).m.size + Len(Recs(m, ev)) > TotalQuota(ev.kind))
  BY <1>1, <1>3, <1>5, <1>7
<1>11. Opened(m, f).m.size \in Nat /\ Len(Recs(m, ev)) \in Nat  BY <1>1, <1>3, <1>7
<1>12. \/ Refused(m, f, r) /\ m.off + Len(Recs(m, ev)) > Limit(ev.kind)
       \/ TooShort(m, f, r)
       \/ "open" \in outs /\ NotOpened(m, f, r)
       \/ /\ CanOpen(m, f)
          /\ \/ /\ NoSpace(m, f, r)
                /\ others + Opened(m, f).m.size + Len(Recs(m, ev)) > TotalQuota(ev.kind)
             \/ /\ HasSpace(m, f, others, ev)
                /\ \/ "write" \in outs /\ TornWrite(m, f, ev, r)
                   \/ Written(m, f, ev, r)
  BY <1>1, <1>5, <1>6, <1>11, AppendCases
<1>13. Written(m, f, ev, r)  BY <1>9, <1>10, <1>12, Zenon
<1>14. QED  BY <1>13 DEF Written

\* What is accounted is what is accounted to one attempt and to the others.
LEMMA AccountedSplit ==
    ASSUME j \in [Attempts -> Mems], NEW a \in Attempts
    PROVE  Accounted(Attempts) = OtherBytes(a) + j[a].size /\ OtherBytes(a) \in Nat
<1> DEFINE sz == [b \in Attempts |-> j[b].size]
<1>1. sz \in Sizes /\ sz[a] = j[a].size  BY DEF Sizes, Mems
<1>2. Accounted(Attempts) = Cardinality(Cells(sz, Attempts))
  <2>1. {{b} \X (1..j[b].size) : b \in Attempts} = {{b} \X (1..sz[b]) : b \in Attempts}
    OBVIOUS
  <2>2. QED  BY <2>1, Zenon DEF Accounted, Cells
<1>3. OtherBytes(a) = Cardinality(Cells(sz, Attempts \ {a}))
  <2>1. {{b} \X (1..j[b].size) : b \in Attempts \ {a}} =
        {{b} \X (1..sz[b]) : b \in Attempts \ {a}}
    OBVIOUS
  <2>2. QED  BY <2>1, Zenon DEF OtherBytes, Accounted, Cells
<1> HIDE DEF sz
<1>4. QED  BY <1>1, <1>2, <1>3, CellsSplit, CellsFinite

LEMMA AccountedNext ==
    ASSUME j \in [Attempts -> Mems], NEW a \in Attempts, NEW m1 \in Mems,
           j' = [j EXCEPT ![a] = m1]
    PROVE  Accounted(Attempts)' = OtherBytes(a) + m1.size
<1> DEFINE sz == [b \in Attempts |-> j'[b].size]
<1>0. j' \in [Attempts -> Mems] /\ j'[a] = m1  OBVIOUS
<1>1. sz \in Sizes /\ sz[a] = m1.size  BY <1>0 DEF Sizes, Mems
<1>2. Accounted(Attempts)' = Cardinality(Cells(sz, Attempts))
  <2>1. {{b} \X (1..j'[b].size) : b \in Attempts} = {{b} \X (1..sz[b]) : b \in Attempts}
    OBVIOUS
  <2>2. QED  BY <2>1, Zenon DEF Accounted, Cells
<1>3. OtherBytes(a) = Cardinality(Cells(sz, Attempts \ {a}))
  <2>1. \A b \in Attempts \ {a} : j[b].size = sz[b]  OBVIOUS
  <2>2. {{b} \X (1..j[b].size) : b \in Attempts \ {a}} =
        {{b} \X (1..sz[b]) : b \in Attempts \ {a}}
    BY <2>1
  <2>3. QED  BY <2>2, Zenon DEF OtherBytes, Accounted, Cells
<1> HIDE DEF sz
<1>4. QED  BY <1>1, <1>2, <1>3, CellsSplit

LEMMA ExportHist == ASSUME BaseInv, HistInv, NEW a \in Attempts, Export(a) PROVE HistInv' /\ Keeps
<1> DEFINE m == [j[a] EXCEPT !.running = FALSE]
<1>1. /\ at = "free" /\ j[a].phase = "live" /\ UNCHANGED <<disk, mode, due, lost>>
      /\ \E r \in Results(a, m, "progress", ExportFaults) :
            /\ Wrote(a, r) /\ Patch(a, r.m)
            /\ at' = IF r.ok THEN "export" ELSE "exportfailed"
            /\ held' = [who |-> a, prior |-> j[a].cache]
  BY DEF Export
<1>2. /\ m \in Mems /\ SameWriter(m, j[a]) /\ m.phase = "live"
      /\ m.cache = j[a].cache /\ m.index = j[a].index
  BY <1>1, HandlerFacts, EditRunning
<1> HIDE DEF m
<1>3. PICK r \in Results(a, m, "progress", ExportFaults) :
        /\ Wrote(a, r) /\ Patch(a, r.m)
        /\ at' = IF r.ok THEN "export" ELSE "exportfailed"
        /\ held' = [who |-> a, prior |-> j[a].cache]
  BY <1>1
<1>4. ExportFaults = {}  BY DEF HistInv, Apart, ExportFaults
<1>5. /\ Serving /\ at # "down" /\ at \in Calm /\ j[a].phase \in Owned /\ "progress" \in Kinds
  BY <1>1 DEF Serving, Calm, Owned, Kinds
<1>6. /\ Extends(m, fs[a], OtherBytes(a), Ev(m, "progress"), r)
      /\ Ev(m, "progress") \in Events /\ fs[a] \in Files /\ OtherBytes(a) \in Nat
      /\ WriterOK(m, fs[a])
  BY <1>2, <1>3, <1>5, Appended, HandlerFacts, OthersOK, SameWriterOK DEF BaseInv
<1>7. r.m \in Mems /\ r.m.phase = m.phase /\ r.ok \in BOOLEAN  BY <1>6 DEF Extends
<1>8. SameHistory(r.m, r.m) /\ r.m.phase \in Owned /\ j' = [j EXCEPT ![a] = r.m]
  BY <1>2, <1>3, <1>7 DEF Patch, Owned, SameHistory
<1>9. /\ Serving' /\ at' \notin Between /\ (at' \in Calm => ~r.ok)
      /\ at' = "export" => r.ok /\ held'.who = a
  BY <1>3 DEF Serving, Between, Calm
<1>10. ASSUME r.ok
       PROVE  r.m.wend = r.m.off /\ r.m.off <= JournalLimit
              /\ OtherBytes(a) + r.m.size <= TotalLimit
  <2> DEFINE ev == Ev(m, "progress")
             n == Len(Recs(m, ev))
  <2>1. r \in AppendResults(m, fs[a], OtherBytes(a), ev, ExportFaults)  BY DEF Results, Ev
  <2>2. ev \in Events /\ ev.kind = "progress"  BY <1>6 DEF Ev
  <2> HIDE DEF ev
  <2>3. CanOpen(m, fs[a]) /\ HasSpace(m, fs[a], OtherBytes(a), ev) /\ Written(m, fs[a], ev, r)
    BY <1>2, <1>6, <1>10, <2>1, <2>2, AppendSound
       DEF Refused, TooShort, NotOpened, NoSpace, TornWrite
  <2>4. r.m.off = m.off + n /\ r.f.linked /\ Len(r.f.data) = r.m.off /\ r.m.wend = r.m.off
    BY <1>2, <1>6, <1>7, <2>2, <2>3, WrittenExtends
  <2>5. Opened(m, fs[a]).m.size = m.off  BY <1>2, <1>6, <2>3, OpenedOK
  <2>6. r.m.size = r.m.off  BY <1>6, <2>4 DEF Extends, WriterOK, FileSize
  <2>7. Limit("progress") = JournalLimit /\ TotalQuota("progress") = TotalLimit
    BY JournalAssumption DEF Limit, TotalQuota, Control
  <2>8. m.off + n <= JournalLimit /\ OtherBytes(a) + m.off + n <= TotalLimit
    BY <2>2, <2>3, <2>5, <2>7 DEF HasSpace
  <2>9. m.off \in Nat /\ n \in Nat  BY <1>2, <2>2, RecsOK DEF Mems
  <2> HIDE DEF n
  <2>10. OtherBytes(a) + r.m.size <= TotalLimit  BY <1>6, <2>4, <2>6, <2>8, <2>9
  <2>11. QED  BY <2>4, <2>8, <2>10
<1>11. ExportOK'
  <2> SUFFICES ASSUME at' = "export"
               PROVE  /\ j'[held'.who].wend = j'[held'.who].off
                      /\ j'[held'.who].off <= JournalLimit
                      /\ Accounted(Attempts)' <= TotalLimit
    BY DEF ExportOK
  <2>1. j \in [Attempts -> Mems]  BY TypeParts DEF BaseInv
  <2>2. j'[held'.who] = r.m  BY <1>8, <1>9, <2>1
  <2>3. Accounted(Attempts)' = OtherBytes(a) + r.m.size  BY <1>7, <1>8, <2>1, AccountedNext
  <2>4. QED  BY <1>9, <1>10, <2>2, <2>3
<1>12. "write" \notin ExportFaults /\ Wrote(a, r)  BY <1>3, <1>4
<1>13. QED  BY <1>1, <1>2, <1>5, <1>7, <1>8, <1>9, <1>11, <1>12, AppendHist

\* The terminal event of an export has the space that its first event left.
LEMMA ExportEnds ==
    ASSUME BaseInv, HistInv, at = "export",
           NEW r \in Results(held.who, [j[held.who] EXCEPT !.phase = "over"], "end", ExportFaults),
           Wrote(held.who, r)
    PROVE  r.ok
<1> DEFINE a == held.who
           m == [j[a] EXCEPT !.phase = "over"]
           ev == Ev(m, "end")
<1>1. a \in Attempts /\ j[a].phase \in Owned  BY TypeParts DEF BaseInv, Helds, Goes
<1>2. m \in Mems /\ SameWriter(m, j[a])  BY <1>1, HandlerFacts, EditPhase
<1>3. /\ j[a].wend = j[a].off /\ j[a].off <= JournalLimit /\ Accounted(Attempts) <= TotalLimit
  BY DEF HistInv, ExportOK
<1>4. r \in Results(a, m, "end", ExportFaults) /\ Wrote(a, r)  OBVIOUS
<1>5. r \in AppendResults(m, fs[a], OtherBytes(a), ev, ExportFaults)  BY DEF Results, Ev
<1> HIDE DEF m, a
<1>6. ExportFaults = {}  BY DEF HistInv, Apart, ExportFaults
<1>7. Serving /\ at # "down" /\ "end" \in Kinds  BY DEF Serving, Kinds
<1>8. ev \in Events /\ fs[a] \in Files /\ OtherBytes(a) \in Nat /\ ev.kind = "end"
  BY <1>1, <1>2, <1>4, <1>7, Appended, HandlerFacts, OthersOK DEF Ev
<1> HIDE DEF ev
<1>9. j[a].off > 0  BY <1>1, <1>7, ServedOK DEF HistoryOK
<1>10. /\ m.off = j[a].off /\ m.size = j[a].size /\ m.wend = j[a].wend
       /\ m.off \in Nat /\ m.size \in Nat
  BY <1>2 DEF SameWriter, Mems
<1>11. Ready(m)  BY <1>3, <1>9, <1>10 DEF Ready
<1>12. /\ Limit("end") = JournalLimit + ControlReserve
       /\ TotalQuota("end") = TotalLimit + TotalReserve
       /\ ControlReserve >= 1 /\ TotalReserve >= 1
       /\ {JournalLimit, ControlReserve, TotalLimit, TotalReserve} \subseteq Nat
  BY JournalAssumption DEF Limit, TotalQuota, Control
<1>13. Accounted(Attempts) = OtherBytes(a) + j[a].size
  BY <1>1, AccountedSplit, TypeParts DEF BaseInv
<1>14. m.off + 1 <= Limit(ev.kind)  BY <1>3, <1>8, <1>10, <1>12
<1>15. OtherBytes(a) + m.size + 1 <= TotalQuota(ev.kind)
  BY <1>3, <1>8, <1>10, <1>12, <1>13
<1>16. "open" \notin ExportFaults /\ "write" \notin ExportFaults  BY <1>6
<1>17. QED  BY <1>2, <1>5, <1>8, <1>11, <1>14, <1>15, <1>16, AppendSucceeds

LEMMA ExportCompletesHist == ASSUME BaseInv, HistInv, ExportCompletes PROVE HistInv' /\ Keeps
<1> DEFINE a == held.who
           m == [j[a] EXCEPT !.phase = "over"]
<1>1. /\ at = "export" /\ UNCHANGED <<disk, held, mode, due, lost>>
      /\ \E r \in Results(a, m, "end", ExportFaults) :
            /\ Wrote(a, r)
            /\ Patch(a, IF r.ok THEN r.m ELSE Restored(r.m))
            /\ at' = IF r.ok THEN "exportsave" ELSE "exportfailed"
  BY DEF ExportCompletes
<1>2. a \in Attempts /\ j[a].phase \in Owned
  BY <1>1, TypeParts DEF BaseInv, Helds, Goes
<1>3. /\ m \in Mems /\ SameWriter(m, j[a]) /\ m.phase = "over"
      /\ m.cache = j[a].cache /\ m.index = j[a].index
  BY <1>2, HandlerFacts, EditPhase
<1> HIDE DEF m, a
<1>5. PICK r \in Results(a, m, "end", ExportFaults) :
        /\ Wrote(a, r)
        /\ Patch(a, IF r.ok THEN r.m ELSE Restored(r.m))
        /\ at' = IF r.ok THEN "exportsave" ELSE "exportfailed"
  BY <1>1
<1>6. ExportFaults = {}  BY DEF HistInv, Apart, ExportFaults
<1>7. Serving /\ at # "down" /\ "end" \in Kinds  BY <1>1 DEF Serving, Kinds
<1>8. /\ Extends(m, fs[a], OtherBytes(a), Ev(m, "end"), r)
      /\ Ev(m, "end") \in Events /\ fs[a] \in Files /\ OtherBytes(a) \in Nat
  BY <1>2, <1>3, <1>5, <1>7, Appended, HandlerFacts, OthersOK
<1>9. r.ok  BY <1>1, <1>5, ExportEnds DEF a, m
<1>10. r.m \in Mems /\ r.m.phase = m.phase  BY <1>8 DEF Extends
<1>11. SameHistory(r.m, r.m) /\ r.m.phase \in Owned /\ j' = [j EXCEPT ![a] = r.m]
  BY <1>3, <1>5, <1>9, <1>10 DEF Patch, Owned, SameHistory
<1>12. at' = "exportsave"  BY <1>5, <1>9
<1>13. Serving' /\ ExportOK' /\ at' \notin Calm /\ at' \notin Between
  BY <1>12 DEF Serving, ExportOK, Calm, Between
<1>14. "write" \notin ExportFaults /\ Wrote(a, r)  BY <1>5, <1>6
<1>15. QED  BY <1>1, <1>2, <1>3, <1>7, <1>10, <1>11, <1>13, <1>14, AppendHist

LEMMA AcceptHist == ASSUME BaseInv, HistInv, NEW a \in Attempts, Accept(a) PROVE HistInv' /\ Keeps
<1> DEFINE m == [j[a] EXCEPT !.phase = "live"]
           Falls(r) ==
              /\ ~r.ok
              /\ \E q \in Removed(r.m, r.f, mode) :
                    /\ fs' = [fs EXCEPT ![a] = q.f]
                    /\ Patch(a, [Nothing EXCEPT !.size = q.m.size])
              /\ at' = "free" /\ UNCHANGED <<held, con, born>>
<1>1. /\ at \in {"free", "purge"} /\ j[a].phase = "none" /\ UNCHANGED <<disk, mode, due, lost>>
      /\ \E r \in Results(a, m, "progress", mode) :
            \/ r.ok /\ Wrote(a, r) /\ Patch(a, r.m) /\ Take(a, "launch")
            \/ Falls(r)
  BY DEF Accept
<1>2. /\ m \in Mems /\ SameWriter(m, j[a]) /\ m.phase = "live"
      /\ m.cache = j[a].cache /\ m.index = j[a].index
  BY HandlerFacts, EditPhase
<1> HIDE DEF m
<1>3. PICK r \in Results(a, m, "progress", mode) :
        \/ r.ok /\ Wrote(a, r) /\ Patch(a, r.m) /\ Take(a, "launch")
        \/ Falls(r)
  BY <1>1
<1>4. Serving /\ at # "down" /\ at \in Calm /\ at \in Between /\ "progress" \in Kinds
  BY <1>1 DEF Serving, Calm, Between, Kinds
<1>5. CASE r.ok /\ Wrote(a, r) /\ Patch(a, r.m) /\ Take(a, "launch")
  <2>1. r.m \in Mems /\ r.m.phase = m.phase
    BY <1>2, <1>4, <1>5, Appended DEF Extends
  <2>2. SameHistory(r.m, r.m) /\ r.m.phase \in Owned /\ j' = [j EXCEPT ![a] = r.m]
    BY <1>2, <1>5, <2>1 DEF Patch, Owned, SameHistory
  <2>3. at' = "launch"  BY <1>5, TakeOK
  <2>4. Serving' /\ ExportOK' /\ at' \notin Calm /\ at' \notin Between
    BY <2>3 DEF Serving, ExportOK, Calm, Between
  <2>5. QED  BY <1>1, <1>2, <1>4, <1>5, <2>1, <2>2, <2>4, AppendHist
<1>6. CASE Falls(r)
  <2>1. PICK q \in Removed(r.m, r.f, mode) :
          fs' = [fs EXCEPT ![a] = q.f] /\ Patch(a, [Nothing EXCEPT !.size = q.m.size])
    BY <1>6
  <2> DEFINE m1 == [Nothing EXCEPT !.size = q.m.size]
  <2>2. /\ m1.phase = "none" /\ m1.index = {} /\ m1.off = 0 /\ m1.cache = <<>> /\ ~m1.dirty
    BY DEF Nothing
  <2>3. j' = [j EXCEPT ![a] = m1]  BY <2>1 DEF Patch
  <2> HIDE DEF m1
  <2>4. /\ LinkOK(j[a], disk[a], a \in due, Serving) /\ DiskOK(disk[a], fs[a], a \in due)
    BY <1>4 DEF HistInv
  <2>5. disk[a].phase = "none" /\ a \notin due
    BY <1>1, <1>4, <2>4 DEF LinkOK
  <2>6. DiskOK(disk[a], q.f, a \in due) /\ KeepsCommitted(disk[a], fs[a], disk[a], q.f)
    BY <2>4, <2>5 DEF DiskOK, KeepsCommitted, Owned
  <2>7. MemOK(m1, q.f, a \in due, Serving) /\ LinkOK(m1, disk[a], a \in due, Serving)
    BY <1>4, <2>2, <2>5 DEF MemOK, LinkOK, Owned
  <2>8. Settled(m1, disk[a], at')  BY <2>2 DEF Settled
  <2>9. at' = "free" /\ due' \subseteq due \cup {a} /\ due \subseteq due' /\ (a \in due' <=> a \in due)
    BY <1>1, <1>6
  <2>10. at' # "down" /\ ExportOK' /\ (Serving' <=> Serving) /\ at' # "startsave"
    BY <1>4, <2>9 DEF Serving, ExportOK
  <2>11. MemOK(m1, q.f, a \in due', Serving) /\ LinkOK(m1, disk[a], a \in due', Serving)
         /\ DiskOK(disk[a], q.f, a \in due')
    BY <1>1, <2>6, <2>7
  <2>12. UNCHANGED <<disk, mode>> /\ fs' = [fs EXCEPT ![a] = q.f]  BY <1>1, <2>1
  <2>13. QED
    BY <1>4, <2>3, <2>6, <2>8, <2>9, <2>10, <2>11, <2>12, OneStep
<1>7. QED  BY <1>3, <1>5, <1>6

\* Retention takes only what the state file knows to be parked or over.
LEMMA DropHist == ASSUME BaseInv, HistInv, NEW a \in Attempts, Drop(a) PROVE HistInv' /\ Keeps
<1>1. /\ at \in {"free", "purge", "startsave"} /\ "drop" \in mode
      /\ j[a].phase \in {"parked", "over"} /\ ~j[a].running
      /\ at = "startsave" => disk[a].phase # "live"
      /\ at' = (IF at = "startsave" THEN at ELSE "purge") /\ due' = due \cup {a}
      /\ UNCHANGED <<disk, held, con, mode, born, lost>>
  BY DEF Drop
<1>2. PICK q \in Removed(j[a], fs[a], mode) :
        /\ Patch(a, [Nothing EXCEPT !.phase = "gone", !.size = q.m.size])
        /\ fs' = [fs EXCEPT ![a] = q.f]
  BY DEF Drop
<1>3. j[a] \in Mems /\ fs[a] \in Files /\ WriterOK(j[a], fs[a]) /\ disk[a] \in Disks
  BY <1>1, TypeParts DEF BaseInv
<1>4. /\ q.f \in Files /\ q.f.data = fs[a].data /\ q.f.synced = fs[a].synced
      /\ q.f.linked => fs[a].linked
  BY <1>2, <1>3, RemovedOK
<1> DEFINE m1 == [Nothing EXCEPT !.phase = "gone", !.size = q.m.size]
<1>5. m1.phase = "gone" /\ m1.index = {} /\ m1.off = 0 /\ m1.cache = <<>> /\ ~m1.dirty
  BY DEF Nothing
<1>6. j' = [j EXCEPT ![a] = m1]  BY <1>2 DEF Patch
<1> HIDE DEF m1
<1>7. /\ LinkOK(j[a], disk[a], a \in due, Serving) /\ DiskOK(disk[a], fs[a], a \in due)
      /\ "save" \notin mode /\ Settled(j[a], disk[a], at)
  BY <1>1 DEF HistInv, Apart
<1>8. disk[a].phase \in {"parked", "over"}
  <2>1. CASE at = "startsave"
    <3>1. ~Serving /\ j[a].phase \in Owned  BY <1>1, <2>1 DEF Serving, Owned
    <3>2. disk[a].phase \in Owned  BY <1>7, <3>1 DEF LinkOK
    <3>3. QED  BY <1>1, <2>1, <3>2 DEF Owned
  <2>2. CASE at # "startsave"  BY <1>1, <1>7, <2>2 DEF Settled, Between
  <2>3. QED  BY <2>1, <2>2
<1>9. disk[a].off > 0
  <2>1. disk[a].phase \in Owned /\ disk[a].phase # "live"  BY <1>8 DEF Owned
  <2>2. disk[a].off # 0  BY <1>7, <2>1 DEF DiskOK
  <2>3. QED  BY <1>3, <2>2 DEF Disks
<1>10. DiskOK(disk[a], q.f, TRUE)
  <2>1. disk[a].phase \in Owned /\ disk[a].phase # "gone"  BY <1>8 DEF Owned
  <2>2. q.f.linked => /\ Good(q.f.data, disk[a].off) /\ q.f.synced >= disk[a].off
                      /\ disk[a].cache = <<q.f.data[disk[a].off]>>
    BY <1>4, <1>7, <1>9, <2>1 DEF DiskOK
  <2>3. disk[a].off # 0  BY <1>3, <1>9 DEF Disks
  <2>4. QED  BY <1>8, <2>1, <2>2, <2>3 DEF DiskOK
<1>11. KeepsCommitted(disk[a], fs[a], disk[a], q.f)
  <2>1. disk[a].off \in Nat  BY <1>3 DEF Disks
  <2>2. QED  BY <1>4, <2>1 DEF KeepsCommitted
<1>12. MemOK(m1, q.f, TRUE, Serving) /\ LinkOK(m1, disk[a], TRUE, Serving)
  BY <1>5 DEF MemOK, LinkOK, Owned
<1>13. Settled(m1, disk[a], at')  BY <1>5 DEF Settled
<1>14. /\ at # "down" /\ at' # "down" /\ (Serving' <=> Serving) /\ ExportOK'
       /\ at' \in Calm => at \in Calm
       /\ at' \in Between => at \in Between
       /\ at' = "startsave" => at = "startsave" /\ m1.phase # "live"
  BY <1>1, <1>5 DEF Serving, ExportOK, Calm, Between
<1>15. /\ (a \in due') = TRUE /\ due' \subseteq due \cup {a} /\ due \subseteq due'
       /\ UNCHANGED <<disk, mode>> /\ fs' = [fs EXCEPT ![a] = q.f]
  BY <1>1, <1>2
<1>16. /\ MemOK(m1, q.f, a \in due', Serving) /\ LinkOK(m1, disk[a], a \in due', Serving)
       /\ DiskOK(disk[a], q.f, a \in due')
  BY <1>10, <1>12, <1>15
<1>17. QED  BY <1>6, <1>11, <1>13, <1>14, <1>15, <1>16, OneStep

\* The process is down: only the files and the state file count.
LEMMA DownHist ==
    ASSUME HistInv, at' = "down", mode' = mode,
           \A a \in Attempts : DiskOK(disk'[a], fs'[a], a \in due')
    PROVE  HistInv'
<1>1. ExportOK' /\ \A m, d : Settled(m, d, at')  BY DEF ExportOK, Settled, Calm, Between
<1>2. QED  BY <1>1 DEF HistInv

LEMMA RecoverHist == ASSUME BaseInv, HistInv, NEW a \in Attempts, Recover(a) PROVE HistInv' /\ Keeps
<1> DEFINE m == [j[a] EXCEPT !.phase = "parked"]
           outs == IF Room THEN mode ELSE {}
<1>1. /\ at = "starting" /\ j[a].phase = "live" /\ UNCHANGED <<disk, held, mode, due, lost>>
      /\ \E r \in Results(a, m, "ask", outs) :
            /\ Wrote(a, r)
            /\ \/ r.ok /\ Patch(a, r.m) /\ at' = at
               \/ ~r.ok /\ at' = "down" /\ j' = [b \in Attempts |-> Nothing]
  BY DEF Recover
<1>2. /\ m \in Mems /\ SameWriter(m, j[a]) /\ m.phase = "parked"
      /\ m.cache = j[a].cache /\ m.index = j[a].index
  BY HandlerFacts, EditPhase
<1> HIDE DEF m, outs
<1>3. PICK r \in Results(a, m, "ask", outs) :
        /\ Wrote(a, r)
        /\ \/ r.ok /\ Patch(a, r.m) /\ at' = at
           \/ ~r.ok /\ at' = "down" /\ j' = [b \in Attempts |-> Nothing]
  BY <1>1
<1>4. ~Serving /\ at # "down" /\ "ask" \in Kinds  BY <1>1 DEF Serving, Kinds
<1>5. /\ MemOK(j[a], fs[a], a \in due, Serving) /\ LinkOK(j[a], disk[a], a \in due, Serving)
      /\ DiskOK(disk[a], fs[a], a \in due)
      /\ disk[a] \in Disks /\ disk \in [Attempts -> Disks] /\ fs \in [Attempts -> Files]
  BY <1>4, TypeParts DEF HistInv, BaseInv
<1>6. disk[a].phase = "live" /\ ~j[a].dirty /\ j[a].index = {}  BY <1>1, <1>4, <1>5 DEF LinkOK
<1>7. a \notin due  BY <1>5, <1>6 DEF DiskOK
<1>8. disk[a].off <= j[a].off /\ j[a].phase \in Owned /\ disk[a].phase \in Owned
  BY <1>1, <1>5, <1>6 DEF LinkOK, Owned
<1>9. m.off = j[a].off /\ m.off \in Nat /\ (m.dirty <=> j[a].dirty)
  BY <1>2 DEF SameWriter, Mems
<1>10. \/ HistoryOK(m, fs[a]) /\ m.off > 0
       \/ m.off = 0 /\ Seed(m.cache)
  <2>1. CASE m.off = 0  BY <1>2, <1>5, <1>8, <1>9, <2>1 DEF MemOK
  <2>2. CASE m.off # 0
    <3>1. m.off > 0  BY <1>9, <2>2
    <3>2. HistoryOK(j[a], fs[a])  BY <1>5, <1>7, <1>8, <1>9, <3>1 DEF MemOK
    <3>3. QED  BY <1>2, <3>1, <3>2, SameHistoryFrom, SameHistoryOK
  <2>3. QED  BY <2>1, <2>2
<1>11. /\ Extends(m, fs[a], OtherBytes(a), Ev(m, "ask"), r)
       /\ Ev(m, "ask") \in Events /\ fs[a] \in Files /\ OtherBytes(a) \in Nat
       /\ WriterOK(m, fs[a]) /\ fs' = [fs EXCEPT ![a] = r.f]
  <2>1. fs[a] \in Files /\ OtherBytes(a) \in Nat  BY <1>4, HandlerFacts, OthersOK
  <2>2. Wrote(a, r)  BY <1>3
  <2>3. /\ Ev(m, "ask") \in Events /\ Extends(m, fs[a], OtherBytes(a), Ev(m, "ask"), r)
        /\ fs' = [fs EXCEPT ![a] = r.f]
    BY <1>2, <1>4, <2>2, Appended
  <2>4. WriterOK(m, fs[a])  BY <1>2, <1>4, SameWriterOK DEF BaseInv
  <2>5. QED  BY <2>1, <2>3, <2>4
<1>12. DiskOK(disk[a], r.f, a \in due) /\ KeepsCommitted(disk[a], fs[a], disk[a], r.f)
  <2>1. disk[a].off > 0 => fs[a].linked /\ m.off <= Len(fs[a].data)
    <3>1. disk[a].off > 0 => m.off # 0  BY <1>5, <1>8, <1>9 DEF Disks
    <3>2. QED  BY <1>10, <3>1 DEF HistoryOK, Good
  <2>2. (a \in due) \in BOOLEAN  OBVIOUS
  <2>3. QED  BY <1>2, <1>5, <1>8, <1>9, <1>11, <2>1, <2>2, AppendKeepsDisk
<1>13. CASE r.ok /\ Patch(a, r.m) /\ at' = at
  <2>1. HistoryOK(r.m, r.f)
    <3>1. "write" \in outs => ~m.dirty  BY <1>6, <1>9
    <3>2. \/ HistoryOK(m, fs[a])
          \/ r.ok /\ m.off = 0 /\ m.index = {} /\ (m.cache = <<>> \/ Seed(m.cache))
      BY <1>2, <1>6, <1>10, <1>13
    <3>3. Wrote(a, r)  BY <1>3
    <3>4. QED  BY <1>2, <1>4, <3>1, <3>2, <3>3, AppendHistory
  <2>2. /\ r.m \in Mems /\ r.m.phase = "parked" /\ m.off <= r.m.off
    BY <1>2, <1>11 DEF Extends
  <2>3. j' = [j EXCEPT ![a] = r.m]  BY <1>13 DEF Patch
  <2>4. r.m.off > 0 /\ r.m.off \in Nat  BY <2>1, <2>2 DEF HistoryOK, Mems
  <2>5. r.m.phase \in Owned  BY <2>2 DEF Owned
  <2>6. MemOK(r.m, r.f, a \in due, Serving)  BY <2>1, <2>4, <2>5 DEF MemOK
  <2>7. LinkOK(r.m, disk[a], a \in due, Serving)
    <3>1. disk[a].off <= r.m.off  BY <1>5, <1>8, <1>9, <2>2, <2>4 DEF Disks
    <3>2. QED  BY <1>4, <1>6, <1>8, <2>2, <3>1 DEF LinkOK
  <2>8. /\ at' = "starting" /\ due' \subseteq due \cup {a} /\ due \subseteq due'
        /\ UNCHANGED <<disk, mode>> /\ (a \in due' <=> a \in due)
    BY <1>1, <1>13
  <2>9. /\ at' # "down" /\ (Serving' <=> Serving) /\ ExportOK' /\ at' # "startsave"
        /\ Settled(r.m, disk[a], at') /\ at' \notin Calm /\ at' \notin Between
    BY <1>1, <2>8 DEF Serving, ExportOK, Settled, Calm, Between
  <2>10. /\ MemOK(r.m, r.f, a \in due', Serving) /\ LinkOK(r.m, disk[a], a \in due', Serving)
         /\ DiskOK(disk[a], r.f, a \in due')
    BY <1>12, <2>6, <2>7, <2>8
  <2>11. QED  BY <1>4, <1>11, <1>12, <2>3, <2>8, <2>9, <2>10, OneStep
<1>14. CASE ~r.ok /\ at' = "down" /\ j' = [b \in Attempts |-> Nothing]
  <2>1. ASSUME NEW b \in Attempts
        PROVE  /\ DiskOK(disk'[b], fs'[b], b \in due')
               /\ KeepsCommitted(disk[b], fs[b], disk'[b], fs'[b])
    <3>1. disk' = disk /\ due' = due  BY <1>1
    <3>2. CASE b = a
      <4>1. fs'[b] = r.f  BY <1>5, <1>11, <3>2
      <4>2. QED  BY <1>12, <3>1, <3>2, <4>1
    <3>3. CASE b # a
      <4>1. fs'[b] = fs[b]  BY <1>5, <1>11, <3>3
      <4>2. DiskOK(disk[b], fs[b], b \in due) /\ disk[b].off \in Nat
        BY <1>5 DEF HistInv, Disks
      <4>3. QED  BY <3>1, <4>1, <4>2, KeepsSame
    <3>4. QED  BY <3>2, <3>3
  <2>2. HistInv'  BY <1>1, <1>14, <2>1, DownHist
  <2>3. QED  BY <2>1, <2>2 DEF Keeps
<1>15. QED  BY <1>3, <1>13, <1>14

LEMMA RecoveredHist == ASSUME BaseInv, HistInv, Recovered PROVE HistInv' /\ Keeps
<1>1. /\ at = "starting" /\ \A a \in Attempts : j[a].phase # "live" /\ at' = "startsave"
      /\ UNCHANGED <<j, fs, disk, held, con, mode, due, born, lost>>
  BY DEF Recovered
<1>2. at' = "startsave"  BY DEF Recovered
<1>3. \A a \in Attempts : disk[a].off \in Nat  BY TypeParts DEF BaseInv, Disks
<1>4. Keeps  BY <1>1, <1>3, KeepsSame DEF Keeps, Recovered
<1>5. /\ UNCHANGED <<j, fs, disk, held, con, mode, due, born, lost>>
      /\ (Serving' <=> Serving) /\ ExportOK' /\ \A m, d : Settled(m, d, at')
  BY <1>1, <1>2 DEF Serving, ExportOK, Settled, Calm, Between, Recovered
<1>6. at # "down"  BY DEF Recovered
<1>7. QED  BY <1>1, <1>4, <1>5, <1>6 DEF HistInv, MemOK, LinkOK

\* A journal that is not there anymore.
LEMMA NoJournal ==
    ASSUME NEW d, NEW f, NEW gone, DiskOK(d, f, gone), d.phase \in Owned /\ d.off > 0 => gone
    PROVE  DiskOK(d, NoFile, gone) /\ KeepsCommitted(d, f, d, NoFile)
<1>1. ~NoFile.linked  BY DEF NoFile
<1>2. QED  BY <1>1 DEF DiskOK, KeepsCommitted

\* What survives of the files when the process dies.
LEMMA CrashHist == ASSUME BaseInv, HistInv, Crash PROVE HistInv' /\ Keeps
<1>1. PICK keep \in [Attempts -> 0..Max({Len(fs[a].data) : a \in Attempts})] :
        /\ \A a \in Attempts : keep[a] \in fs[a].synced..Len(fs[a].data)
        /\ fs' = [a \in Attempts |->
                     IF fs[a].linked
                     THEN [fs[a] EXCEPT !.data = SubSeq(@, 1, keep[a]), !.synced = keep[a]]
                     ELSE NoFile]
  BY DEF Crash
<1>2. at' = "down" /\ UNCHANGED <<disk, mode, due>>  BY DEF Crash
<1>3. ASSUME NEW a \in Attempts
      PROVE  /\ DiskOK(disk'[a], fs'[a], a \in due')
             /\ KeepsCommitted(disk[a], fs[a], disk'[a], fs'[a])
  <2>1. /\ fs[a] \in Files /\ disk[a] \in Disks /\ DiskOK(disk[a], fs[a], a \in due)
        /\ fs[a].data \in Seq(Events) /\ fs[a].synced \in Nat /\ Len(fs[a].data) \in Nat
        /\ disk[a].off \in Nat /\ disk'[a] = disk[a] /\ (a \in due' <=> a \in due)
    BY <1>2, TypeParts DEF BaseInv, HistInv, Files, Disks
  <2>5. (a \in due) \in BOOLEAN  OBVIOUS
  <2>2. CASE fs[a].linked
    <3> DEFINE k == keep[a]
               d == SubSeq(fs[a].data, 1, k)
    <3>1. k \in Nat /\ k >= fs[a].synced /\ k <= Len(fs[a].data)
      <4>1. k \in fs[a].synced..Len(fs[a].data)  BY <1>1
      <4> HIDE DEF k
      <4>2. QED  BY <2>1, <4>1
    <3>2. fs'[a] = [fs[a] EXCEPT !.data = d, !.synced = k]  BY <1>1, <2>2
    <3> HIDE DEF k
    <3>3. /\ d \in Seq(Events) /\ Len(d) = k /\ \A i \in 1..k : d[i] = fs[a].data[i]
      <4>1. \A i \in 1..k : fs[a].data[i] \in Events /\ (1 + i) - 1 = i
        BY <2>1, <3>1, ElementOfSeq
      <4>2. k - 1 + 1 = k /\ (1 <= k \/ k = 0)  BY <3>1
      <4>3. /\ d \in Seq(Events) /\ Len(d) = IF 1 <= k THEN k - 1 + 1 ELSE 0
            /\ \A i \in 1..(k - 1 + 1) : d[i] = fs[a].data[1 + i - 1]
        BY <3>1, <4>1, SubSeqProperties
      <4>4. QED  BY <3>1, <4>1, <4>2, <4>3
    <3> HIDE DEF d
    <3>4. /\ fs'[a] \in Files /\ fs'[a].data = d /\ fs'[a].synced = k
          /\ (fs'[a].linked <=> fs[a].linked)
      BY <2>1, <3>1, <3>2, <3>3 DEF Files
    <3>5. disk[a].phase \in Owned /\ disk[a].off > 0 =>
             /\ disk[a].off <= Len(fs'[a].data) /\ fs'[a].synced >= disk[a].off
             /\ \A i \in 1..disk[a].off : fs'[a].data[i] = fs[a].data[i]
      <4>1. SUFFICES ASSUME disk[a].phase \in Owned /\ disk[a].off > 0
                     PROVE  /\ disk[a].off <= Len(fs'[a].data) /\ fs'[a].synced >= disk[a].off
                            /\ \A i \in 1..disk[a].off : fs'[a].data[i] = fs[a].data[i]
        OBVIOUS
      <4>2. fs[a].synced >= disk[a].off  BY <2>1, <2>2, <4>1 DEF DiskOK
      <4>3. disk[a].off <= k  BY <2>1, <3>1, <4>2
      <4>4. \A i \in 1..disk[a].off : i \in 1..k  BY <2>1, <3>1, <4>3
      <4>5. QED  BY <3>3, <3>4, <4>3, <4>4
    <3>6. disk[a].phase \in Owned /\ disk[a].off > 0 => (a \in due \/ fs'[a].linked)
      BY <2>2, <3>4
    <3>7. DiskOK(disk[a], fs'[a], a \in due) /\ KeepsCommitted(disk[a], fs[a], disk[a], fs'[a])
      <4> DEFINE x == disk[a]
                 f == fs[a]
                 ff == fs'[a]
                 gone == a \in due
      <4>1. x \in Disks /\ f \in Files /\ ff \in Files /\ gone \in BOOLEAN /\ DiskOK(x, f, gone)
        BY <2>1, <2>5, <3>4
      <4>2. /\ x.phase \in Owned /\ x.off > 0 /\ f.linked =>
                  /\ x.off <= Len(ff.data) /\ ff.synced >= x.off
                  /\ \A i \in 1..x.off : ff.data[i] = f.data[i]
            /\ x.phase \in Owned /\ x.off > 0 =>
                  (ff.linked => f.linked) /\ (gone \/ ff.linked)
        BY <3>4, <3>5, <3>6
      <4> HIDE DEF x, f, ff, gone
      <4>3. DiskOK(x, ff, gone) /\ KeepsCommitted(x, f, x, ff)  BY <4>1, <4>2, DiskKept
      <4>4. QED  BY <4>3 DEF x, f, ff, gone
    <3>8. QED  BY <2>1, <3>7
  <2>3. CASE ~fs[a].linked
    <3>1. fs'[a] = NoFile  BY <1>1, <2>3
    <3>2. disk[a].phase \in Owned /\ disk[a].off > 0 => a \in due
      BY <2>1, <2>3 DEF DiskOK
    <3>3. DiskOK(disk[a], NoFile, a \in due) /\ KeepsCommitted(disk[a], fs[a], disk[a], NoFile)
      BY <2>1, <3>2, NoJournal
    <3>4. QED  BY <2>1, <3>1, <3>3
  <2>4. QED  BY <2>2, <2>3
<1>4. QED  BY <1>2, <1>3, DownHist DEF Keeps

\* A start takes the memory from the state file.
LEMMA RestartHist == ASSUME BaseInv, HistInv, Restart PROVE HistInv' /\ Keeps
<1> DEFINE S(a) == [Nothing EXCEPT !.phase = disk[a].phase, !.failed = disk[a].failed,
                                   !.off = disk[a].off, !.cache = disk[a].cache,
                                   !.size = Len(fs'[a].data)]
<1>1. /\ at = "down"
      /\ fs' = [a \in Attempts |-> IF disk[a].phase \in Owned /\ fs[a].linked
                                   THEN fs[a] ELSE NoFile]
      /\ j' = [a \in Attempts |-> S(a)]
      /\ at' = "starting" /\ UNCHANGED <<disk, mode, due>>
  BY DEF Restart
<1>2. ~Serving' /\ ExportOK' /\ \A m, d : Settled(m, d, at')
  BY <1>1 DEF Serving, ExportOK, Settled, Calm, Between
<1>3. ASSUME NEW a \in Attempts
      PROVE  /\ MemOK(j'[a], fs'[a], a \in due', Serving')
             /\ LinkOK(j'[a], disk'[a], a \in due', Serving')
             /\ DiskOK(disk'[a], fs'[a], a \in due')
             /\ KeepsCommitted(disk[a], fs[a], disk'[a], fs'[a])
  <2>1. /\ fs[a] \in Files /\ disk[a] \in Disks /\ DiskOK(disk[a], fs[a], a \in due)
        /\ fs[a].data \in Seq(Events) /\ disk[a].off \in Nat /\ disk'[a] = disk[a]
        /\ (a \in due' <=> a \in due)
    BY <1>1, TypeParts DEF BaseInv, HistInv, Files, Disks
  <2>2. DiskOK(disk[a], fs'[a], a \in due) /\ KeepsCommitted(disk[a], fs[a], disk[a], fs'[a])
    <3>1. CASE disk[a].phase \in Owned /\ fs[a].linked
      <4>1. fs'[a] = fs[a]  BY <1>1, <3>1
      <4>2. QED  BY <2>1, <4>1, KeepsSame
    <3>2. CASE ~(disk[a].phase \in Owned /\ fs[a].linked)
      <4>1. fs'[a] = NoFile  BY <1>1, <3>2
      <4>2. disk[a].phase \in Owned /\ disk[a].off > 0 => a \in due
        BY <2>1, <3>2 DEF DiskOK
      <4>3. DiskOK(disk[a], NoFile, a \in due) /\ KeepsCommitted(disk[a], fs[a], disk[a], NoFile)
        BY <2>1, <4>2, NoJournal
      <4>4. QED  BY <4>1, <4>3
    <3>3. QED  BY <3>1, <3>2
  <2> DEFINE m == j'[a]
  <2>3. /\ m.phase = disk[a].phase /\ m.off = disk[a].off /\ m.cache = disk[a].cache
        /\ m.index = {} /\ ~m.dirty
    <3>1. m = S(a)  BY <1>1
    <3>2. QED  BY <3>1 DEF Nothing
  <2> HIDE DEF m
  <2>4. LinkOK(m, disk[a], a \in due, Serving')
    <3>1. disk[a].off <= disk[a].off  BY <2>1
    <3>2. QED  BY <1>2, <2>2, <2>3, <3>1 DEF LinkOK, DiskOK, Owned
  <2>5. MemOK(m, fs'[a], a \in due, Serving')
    <3>1. ASSUME m.phase \in Owned, a \notin due, m.off > 0 PROVE HistoryOK(m, fs'[a])
      <4> DEFINE n == disk[a].off
      <4>1. /\ fs'[a].linked /\ Good(fs'[a].data, n) /\ fs'[a].synced >= n
            /\ disk[a].cache = <<fs'[a].data[n]>>
        BY <2>2, <2>3, <3>1 DEF DiskOK
      <4>2. n \in Nat /\ n > 0  BY <2>1, <2>3, <3>1
      <4> HIDE DEF n
      <4>3. EndOf(disk[a].cache, fs'[a].data, n)
        <5>1. Len(disk[a].cache) = 1 /\ disk[a].cache[1] = fs'[a].data[n]  BY <4>1
        <5>2. 1 \in 1..n /\ \A k \in 1..1 : (n - 1) + k = n /\ k = 1  BY <4>2
        <5>3. QED  BY <5>1, <5>2 DEF EndOf
      <4>4. QED  BY <2>3, <4>1, <4>2, <4>3 DEF HistoryOK, n
    <3>2. m.phase \in Owned /\ m.off = 0 => m.phase = "live" /\ Seed(m.cache)
      BY <2>2, <2>3 DEF DiskOK
    <3>3. m.phase \notin Owned => m.index = {} /\ m.off = 0 /\ m.cache = <<>>
      BY <2>2, <2>3 DEF DiskOK
    <3>4. QED  BY <1>2, <3>1, <3>2, <3>3 DEF MemOK
  <2>6. QED  BY <2>1, <2>2, <2>4, <2>5 DEF m
<1>4. Apart(mode')  BY <1>1 DEF HistInv
<1>5. at' # "startsave"  BY <1>1
<1>6. QED  BY <1>2, <1>3, <1>4, <1>5 DEF HistInv, Keeps

\* What a save commits: everything of the attempts that are there, nothing of those taken.
Saveable(a) ==
    /\ a \in due => j[a].phase = "gone"
    /\ j[a].phase \in Owned => HistoryOK(j[a], fs[a])

LEMMA SavedFile ==
    ASSUME BaseInv, at # "down", NEW a \in Attempts, HistoryOK(j[a], fs[a])
    PROVE  /\ SyncedFiles[a].linked /\ Good(SyncedFiles[a].data, j[a].off)
           /\ SyncedFiles[a].synced >= j[a].off
<1>1. /\ fs \in [Attempts -> Files] /\ j[a] \in Mems /\ WriterOK(j[a], fs[a])
  BY TypeParts DEF BaseInv
<1>2. /\ SyncedFiles[a].data = fs[a].data /\ (SyncedFiles[a].linked <=> fs[a].linked)
      /\ SyncedFiles[a].synced = IF j[a].wend # NoWriter /\ j[a].dirty
                                 THEN Len(fs[a].data) ELSE fs[a].synced
  BY <1>1, SyncedFilesOK
<1>3. fs[a].linked /\ Good(fs[a].data, j[a].off) /\ (j[a].dirty \/ fs[a].synced >= j[a].off)
  BY DEF HistoryOK
<1>4. j[a].off \in Nat /\ Len(fs[a].data) >= j[a].off  BY <1>1, <1>3 DEF Good, Mems, Files
<1>5. j[a].dirty => j[a].wend # NoWriter
  <2>1. j[a].dirty => j[a].wend = j[a].off  BY <1>1 DEF WriterOK
  <2>2. QED  BY <1>4, <2>1 DEF NoWriter
<1>6. QED  BY <1>2, <1>3, <1>4, <1>5

LEMMA SavedDisk ==
    ASSUME BaseInv, HistInv, at # "down", NEW a \in Attempts, Saveable(a)
    PROVE  /\ DiskOK(Image[a], SyncedFiles[a], a \in due)
           /\ KeepsCommitted(disk[a], fs[a], Image[a], SyncedFiles[a])
<1>1. /\ fs \in [Attempts -> Files] /\ j \in [Attempts -> Mems] /\ j[a] \in Mems
      /\ disk[a] \in Disks /\ LinkOK(j[a], disk[a], a \in due, Serving)
      /\ MemOK(j[a], fs[a], a \in due, Serving)
  BY TypeParts DEF BaseInv, HistInv
<1>2. SyncedFiles[a].data = fs[a].data /\ (SyncedFiles[a].linked <=> fs[a].linked)
  BY <1>1, SyncedFilesOK
<1>3. /\ Image[a].phase = j[a].phase /\ Image[a].off = j[a].off
      /\ Image[a].cache = IF j[a].off > 0 /\ Len(j[a].cache) > 1
                          THEN <<Last(j[a].cache)>> ELSE j[a].cache
  BY <1>1, ImageOK
<1>4. KeepsCommitted(disk[a], fs[a], Image[a], SyncedFiles[a])
  <2>1. j[a].phase \in Owned /\ disk[a].phase \in Owned => disk[a].off <= j[a].off
    BY <1>1 DEF LinkOK
  <2>2. QED  BY <1>2, <1>3, <2>1 DEF KeepsCommitted
<1>5. CASE j[a].phase \in Owned
  <2>1. HistoryOK(j[a], fs[a]) /\ a \notin due  BY <1>5 DEF Saveable, Owned
  <2>2. /\ SyncedFiles[a].linked /\ Good(SyncedFiles[a].data, j[a].off)
        /\ SyncedFiles[a].synced >= j[a].off
    BY <2>1, SavedFile
  <2>3. j[a].off \in Nat /\ j[a].off > 0 /\ j[a].off # 0  BY <1>1, <2>1 DEF HistoryOK, Mems
  <2>4. Image[a].cache = <<fs[a].data[j[a].off]>>
    <3>1. /\ j[a].cache \in Seq(Events) /\ Last(j[a].cache) = fs[a].data[j[a].off]
      BY <1>1, <2>1, CursorOfEnd
    <3>2. Len(j[a].cache) \in Nat /\ Len(j[a].cache) >= 1
      BY <2>1, <2>3 DEF HistoryOK, EndOf
    <3>3. CASE Len(j[a].cache) > 1  BY <1>3, <2>3, <3>1, <3>3
    <3>4. CASE Len(j[a].cache) = 1
      <4> DEFINE t == <<j[a].cache[1]>>
      <4>a. j[a].cache[1] \in Events  BY <3>1, <3>4, ElementOfSeq
      <4>b. t \in Seq(Events) /\ Len(t) = 1 /\ t[1] = j[a].cache[1]  BY <4>a
      <4>c. \A i \in 1..1 : i = 1  OBVIOUS
      <4> HIDE DEF t
      <4>d. \A i \in 1..Len(j[a].cache) : j[a].cache[i] = t[i]  BY <3>4, <4>b, <4>c
      <4>e. j[a].cache = t  BY <3>1, <3>4, <4>b, <4>d, SeqEqual
      <4>1. j[a].cache = <<j[a].cache[1]>>  BY <4>e DEF t
      <4>2. Last(j[a].cache) = j[a].cache[1]  BY <3>4 DEF Last
      <4>3. j[a].cache[1] = fs[a].data[j[a].off]  BY <3>1, <4>2
      <4>4. ~(Len(j[a].cache) > 1)  BY <3>4
      <4>5. Image[a].cache = j[a].cache  BY <1>3, <4>4
      <4>6. QED  BY <4>1, <4>3, <4>5, Zenon
    <3>5. Len(j[a].cache) > 1 \/ Len(j[a].cache) = 1
      <4>1. \A n \in Nat : n >= 1 => n > 1 \/ n = 1  OBVIOUS
      <4>2. QED  BY <3>2, <4>1, Zenon
    <3>6. QED  BY <3>3, <3>4, <3>5, Zenon
  <2>5. Image[a].phase # "gone"  BY <1>3, <1>5 DEF Owned
  <2>6. DiskOK(Image[a], SyncedFiles[a], a \in due)
    <3>1. /\ SyncedFiles[a].linked /\ Good(SyncedFiles[a].data, Image[a].off)
          /\ SyncedFiles[a].synced >= Image[a].off
          /\ Image[a].cache = <<SyncedFiles[a].data[Image[a].off]>>
      BY <1>2, <1>3, <2>2, <2>4
    <3>2. Image[a].phase \in Owned /\ Image[a].off # 0 /\ a \notin due
      BY <1>3, <1>5, <2>1, <2>3
    <3>3. QED  BY <2>5, <3>1, <3>2 DEF DiskOK
  <2>7. QED  BY <1>4, <2>6
<1>6. CASE j[a].phase \notin Owned
  <2>1. j[a].off = 0 /\ j[a].cache = <<>>  BY <1>1, <1>6 DEF MemOK
  <2>2. Image[a].off = 0 /\ Image[a].cache = <<>> /\ Image[a].phase \notin Owned
    BY <1>3, <1>6, <2>1
  <2>3. (Image[a].phase = "gone" => a \in due) /\ (a \in due => Image[a].phase = "gone")
    BY <1>1, <1>3 DEF LinkOK, Saveable
  <2>4. QED  BY <1>4, <2>2, <2>3 DEF DiskOK
<1>7. QED  BY <1>5, <1>6

\* The history of an attempt survives its save.
LEMMA SavedHistory ==
    ASSUME BaseInv, at # "down", NEW a \in Attempts, HistoryOK(j[a], fs[a]),
           NEW m, m.off = j[a].off, m.cache = j[a].cache, m.index = j[a].index
    PROVE  HistoryOK(m, SyncedFiles[a])
<1>1. fs \in [Attempts -> Files]  BY TypeParts DEF BaseInv
<1>2. SyncedFiles[a].data = fs[a].data  BY <1>1, SyncedFilesOK
<1>3. SyncedFiles[a].linked /\ SyncedFiles[a].synced >= j[a].off  BY SavedFile
<1>4. QED  BY <1>2, <1>3 DEF HistoryOK

\* Every attempt is saved, and the engine goes on.
LEMMA SavedHist ==
    ASSUME BaseInv, HistInv, at # "down", \A a \in Attempts : Saveable(a),
           fs' = SyncedFiles, disk' = Image, UNCHANGED <<mode, due>>,
           at' # "export", Serving',
           \A a \in Attempts :
              /\ j'[a].phase = j[a].phase /\ j'[a].off = j[a].off /\ j'[a].cache = j[a].cache
              /\ j'[a].index = j[a].index /\ ~j'[a].dirty
    PROVE  HistInv' /\ Keeps
<1>1. /\ fs \in [Attempts -> Files] /\ j \in [Attempts -> Mems]
  BY TypeParts DEF BaseInv
<1>2. ASSUME NEW a \in Attempts
      PROVE  /\ MemOK(j'[a], fs'[a], a \in due', Serving')
             /\ LinkOK(j'[a], disk'[a], a \in due', Serving')
             /\ DiskOK(disk'[a], fs'[a], a \in due')
             /\ KeepsCommitted(disk[a], fs[a], disk'[a], fs'[a])
             /\ Settled(j'[a], disk'[a], at')
  <2>1. /\ DiskOK(Image[a], SyncedFiles[a], a \in due)
        /\ KeepsCommitted(disk[a], fs[a], Image[a], SyncedFiles[a])
    BY SavedDisk
  <2>2. fs'[a] = SyncedFiles[a] /\ disk'[a] = Image[a] /\ (a \in due' <=> a \in due)
    OBVIOUS
  <2>3. Image[a].phase = j[a].phase /\ Image[a].off = j[a].off  BY <1>1, ImageOK
  <2>4. /\ MemOK(j[a], fs[a], a \in due, Serving) /\ LinkOK(j[a], disk[a], a \in due, Serving)
        /\ (a \in due => j[a].phase = "gone") /\ (j[a].phase \in Owned => HistoryOK(j[a], fs[a]))
        /\ j[a].off \in Nat
    BY <1>1 DEF HistInv, Saveable, Mems
  <2> DEFINE m == j'[a]
  <2>5. /\ m.phase = j[a].phase /\ m.off = j[a].off /\ m.cache = j[a].cache
        /\ m.index = j[a].index /\ ~m.dirty
    OBVIOUS
  <2> HIDE DEF m
  <2>6. MemOK(m, SyncedFiles[a], a \in due, TRUE)
    <3>1. m.phase \in Owned => HistoryOK(m, SyncedFiles[a]) /\ m.off # 0
      <4>1. SUFFICES ASSUME m.phase \in Owned
                     PROVE  HistoryOK(m, SyncedFiles[a]) /\ m.off # 0
        OBVIOUS
      <4>2. HistoryOK(j[a], fs[a])  BY <2>4, <2>5, <4>1
      <4>3. HistoryOK(m, SyncedFiles[a])  BY <2>5, <4>2, SavedHistory
      <4>4. m.off > 0 /\ m.off \in Nat  BY <2>4, <2>5, <4>3 DEF HistoryOK
      <4>5. QED  BY <4>3, <4>4
    <3>2. m.phase \notin Owned => m.index = {} /\ m.off = 0 /\ m.cache = <<>>
      BY <2>4, <2>5 DEF MemOK
    <3>3. QED  BY <3>1, <3>2 DEF MemOK
  <2>7. LinkOK(m, Image[a], a \in due, TRUE)
    <3>1. Image[a].off <= m.off  BY <2>3, <2>4, <2>5
    <3>2. m.phase = "gone" => a \in due  BY <2>4, <2>5 DEF LinkOK
    <3>3. QED  BY <2>3, <2>4, <2>5, <3>1, <3>2 DEF LinkOK
  <2>8. Settled(m, Image[a], at')  BY <2>3, <2>5 DEF Settled
  <2>9. Serving' = TRUE  BY DEF Serving
  <2>10. QED  BY <2>1, <2>2, <2>6, <2>7, <2>8, <2>9 DEF m
<1>3. Apart(mode') /\ ExportOK' /\ at' # "startsave"  BY DEF HistInv, ExportOK, Serving
<1>4. QED  BY <1>2, <1>3 DEF HistInv, Keeps

\* While the engine serves, a save takes all there is.
LEMMA ServingSaves ==
    ASSUME BaseInv, HistInv, Serving, NEW a \in Attempts PROVE Saveable(a)
<1>1. at # "down"  BY DEF Serving
<1>2. /\ MemOK(j[a], fs[a], a \in due, Serving) /\ LinkOK(j[a], disk[a], a \in due, Serving)
      /\ j[a] \in Mems
  BY <1>1, TypeParts DEF HistInv, BaseInv
<1>3. a \in due => j[a].phase = "gone"  BY <1>2 DEF LinkOK
<1>4. j[a].phase \in Owned => j[a].off > 0  BY <1>2 DEF MemOK, Mems
<1>5. QED  BY <1>2, <1>3, <1>4 DEF MemOK, Saveable

LEMMA PersistHist == ASSUME BaseInv, HistInv, Persist PROVE HistInv' /\ Keeps
<1>1. /\ at \in {"purge", "launch", "save", "eventsave", "exportsave"}
      /\ fs' = SyncedFiles /\ disk' = Image /\ j' = AfterSave
      /\ at' = "free" /\ UNCHANGED <<mode, due>>
  BY DEF Persist, SaveOk
<1>2. Serving /\ at # "down" /\ Serving' /\ at' # "export"  BY <1>1 DEF Serving
<1>3. j \in [Attempts -> Mems]  BY TypeParts DEF BaseInv
<1>4. \A a \in Attempts :
         /\ j'[a].phase = j[a].phase /\ j'[a].off = j[a].off /\ j'[a].cache = j[a].cache
         /\ j'[a].index = j[a].index /\ ~j'[a].dirty
  BY <1>1, <1>3, AfterSaveOK
<1>5. \A a \in Attempts : Saveable(a)  BY <1>2, ServingSaves
<1>6. QED  BY <1>1, <1>2, <1>4, <1>5, SavedHist

\* A save that fails without landing changes nothing, and one that lands is a save.
LEMMA PersistFailsHist == ASSUME BaseInv, HistInv, PersistFails PROVE HistInv' /\ Keeps
<1>1. "export" \notin mode /\ at # "exportsave"  BY DEF HistInv, Apart, PersistFails
<1>2. /\ at \in {"purge", "launch", "save", "eventsave"} /\ SaveFails(j)
      /\ at' \in {"failing", "free"} /\ UNCHANGED <<mode, due>>
  BY <1>1 DEF PersistFails
<1>3. Serving /\ at # "down" /\ Serving' /\ at' # "export" /\ (Serving' <=> Serving)
      /\ at' # "startsave" /\ at' # "down"
  BY <1>2 DEF Serving
<1>4. /\ j \in [Attempts -> Mems] /\ \A a \in Attempts : disk[a].off \in Nat
  BY TypeParts DEF BaseInv, Disks
<1>5. CASE "save" \in mode /\ UNCHANGED <<fs, disk, j>>
  <2>1. ExportOK' /\ Keeps  BY <1>3, <1>4, <1>5, KeepsSame DEF ExportOK, Keeps
  <2>2. QED  BY <1>2, <1>3, <1>5, <2>1 DEF HistInv, MemOK, LinkOK
<1>6. CASE /\ fs' = SyncedFiles /\ disk' = Image
           /\ j' = [a \in Attempts |-> [j[a] EXCEPT !.dirty = FALSE]]
  <2>1. ASSUME NEW a \in Attempts
        PROVE  /\ j'[a].phase = j[a].phase /\ j'[a].off = j[a].off /\ j'[a].cache = j[a].cache
               /\ j'[a].index = j[a].index /\ ~j'[a].dirty
    <3>1. j[a] \in Mems  BY <1>4
    <3>2. j'[a] = [j[a] EXCEPT !.dirty = FALSE]  BY <1>6
    <3>3. QED  BY <3>1, <3>2 DEF Mems
  <2>2. \A a \in Attempts : Saveable(a)  BY <1>3, ServingSaves
  <2>3. QED  BY <1>2, <1>3, <1>6, <2>1, <2>2, SavedHist
<1>7. QED  BY <1>2, <1>5, <1>6 DEF SaveFails

\* What a start has recovered is saved whole, and what retention had taken is not there.
LEMMA StartSaves ==
    ASSUME BaseInv, HistInv, at = "startsave", NEW a \in Attempts,
           a \in due /\ j[a].phase \in {"parked", "over"} => disk[a].phase = "live"
    PROVE  Saveable(a)
<1>1. /\ MemOK(j[a], fs[a], a \in due, Serving) /\ LinkOK(j[a], disk[a], a \in due, Serving)
      /\ j[a] \in Mems /\ j[a].phase # "live" /\ DiskOK(disk[a], fs[a], a \in due)
      /\ disk[a] \in Disks
  BY TypeParts DEF HistInv, BaseInv
<1>2. a \in due => j[a].phase = "gone"
  <2>1. SUFFICES ASSUME a \in due PROVE j[a].phase = "gone"  OBVIOUS
  <2>2. disk[a].phase \in {"parked", "over", "gone"}  BY <1>1, <2>1 DEF DiskOK
  <2>3. j[a].phase \notin {"parked", "over"} /\ j[a].phase # "none"
    BY <1>1, <2>1, <2>2 DEF LinkOK
  <2>4. QED  BY <1>1, <2>3 DEF Mems, Phases, Owned
<1>3. j[a].phase \in Owned => j[a].off > 0  BY <1>1 DEF MemOK, Mems
<1>4. j[a].phase \in Owned => a \notin due  BY <1>2 DEF Owned
<1>5. QED  BY <1>1, <1>2, <1>3, <1>4 DEF MemOK, Saveable

LEMMA StartSaveHist == ASSUME BaseInv, HistInv, StartSave PROVE HistInv' /\ Keeps
<1>1. /\ at = "startsave" /\ UNCHANGED <<mode, due>>
      /\ \A a \in due : j[a].phase \in {"parked", "over"} => disk[a].phase = "live"
      /\ \/ SaveOk /\ at' = "free"
         \/ SaveFails([a \in Attempts |-> Nothing]) /\ at' = "down"
  BY DEF StartSave
<1>2. \A a \in Attempts : Saveable(a)  BY <1>1, StartSaves
<1>3. j \in [Attempts -> Mems] /\ \A a \in Attempts : disk[a].off \in Nat
  BY TypeParts DEF BaseInv, Disks
<1>4. CASE SaveOk /\ at' = "free"
  <2>1. fs' = SyncedFiles /\ disk' = Image /\ j' = AfterSave  BY <1>4 DEF SaveOk
  <2>2. \A a \in Attempts :
           /\ j'[a].phase = j[a].phase /\ j'[a].off = j[a].off /\ j'[a].cache = j[a].cache
           /\ j'[a].index = j[a].index /\ ~j'[a].dirty
    BY <1>3, <2>1, AfterSaveOK
  <2>3. at # "down" /\ Serving' /\ at' # "export"  BY <1>1, <1>4 DEF Serving
  <2>4. QED  BY <1>1, <1>2, <2>1, <2>2, <2>3, SavedHist
<1>5. CASE SaveFails([a \in Attempts |-> Nothing]) /\ at' = "down"
  <2>1. UNCHANGED <<fs, disk>> \/ (fs' = SyncedFiles /\ disk' = Image)
    BY <1>5 DEF SaveFails
  <2>2. ASSUME NEW a \in Attempts
        PROVE  /\ DiskOK(disk'[a], fs'[a], a \in due')
               /\ KeepsCommitted(disk[a], fs[a], disk'[a], fs'[a])
    <3>1. CASE UNCHANGED <<fs, disk>>
      <4>1. DiskOK(disk[a], fs[a], a \in due) /\ KeepsCommitted(disk[a], fs[a], disk[a], fs[a])
        BY <1>3, KeepsSame DEF HistInv
      <4>2. QED  BY <1>1, <3>1, <4>1
    <3>2. CASE fs' = SyncedFiles /\ disk' = Image
      <4>1. /\ DiskOK(Image[a], SyncedFiles[a], a \in due)
            /\ KeepsCommitted(disk[a], fs[a], Image[a], SyncedFiles[a])
        BY <1>1, <1>2, SavedDisk
      <4>2. QED  BY <1>1, <3>2, <4>1
    <3>3. QED  BY <2>1, <3>1, <3>2
  <2>3. HistInv'  BY <1>1, <1>5, <2>2, DownHist
  <2>4. QED  BY <2>2, <2>3 DEF Keeps
<1>6. QED  BY <1>1, <1>4, <1>5

\* What a replay learns of the index is in the journal.
LEMMA LearnedHistory ==
    ASSUME NEW m \in Mems, NEW f \in Files, HistoryOK(m, f), NEW after \in Nat, NEW n,
           n.off = m.off, n.cache = m.cache, n.dirty <=> m.dirty,
           n.index = Learned(m, f.data, Scanned(m, f.data, after))
    PROVE  HistoryOK(n, f)
<1>1. f.data \in Seq(Events) /\ m.off \in Nat /\ Len(f.data) \in Nat  BY DEF Files, Mems
<1>2. \A p \in Scanned(m, f.data, after) : p \in 1..Len(f.data) /\ p <= m.off
  BY <1>1, ScannedInside
<1>3. ASSUME NEW x \in n.index PROVE x[2] < m.off /\ f.data[x[2] + 1].cur = x[1]
  <2>1. \/ x \in m.index
        \/ \E p \in Scanned(m, f.data, after) : x = <<f.data[p].cur, p - 1>>
    BY <1>1, <1>2, LearnedOK
  <2>2. CASE x \in m.index  BY <2>2 DEF HistoryOK
  <2>3. CASE \E p \in Scanned(m, f.data, after) : x = <<f.data[p].cur, p - 1>>
    <3>1. PICK p \in Scanned(m, f.data, after) : x = <<f.data[p].cur, p - 1>>  BY <2>3
    <3>2. p \in 1..Len(f.data) /\ p <= m.off  BY <1>2
    <3>3. x[1] = f.data[p].cur /\ x[2] = p - 1  BY <3>1
    <3>4. (p - 1) + 1 = p /\ p - 1 < m.off  BY <1>1, <3>2
    <3>5. QED  BY <3>3, <3>4
  <2>4. QED  BY <2>1, <2>2, <2>3
<1>4. QED  BY <1>3 DEF HistoryOK

LEMMA ConnectHist == ASSUME BaseInv, HistInv, Connect PROVE HistInv' /\ Keeps
<1> DEFINE L == Learned(Mine, File, Scanned(Mine, File, con.last))
           a == Followed
<1>1. /\ at = "free" /\ Mine.phase \in Owned /\ UNCHANGED <<fs, disk, at, held, mode, due>>
      /\ \/ j' = [j EXCEPT ![a] = [Mine EXCEPT !.index = L]]
         \/ j' = [j EXCEPT ![a] = Mine]
  BY DEF Connect, Admitted, Patch
<1>2. /\ a \in Attempts /\ Mine = j[a] /\ File = fs[a].data /\ con.last \in Nat
      /\ j[a] \in Mems /\ fs[a] \in Files /\ disk[a] \in Disks
      /\ j \in [Attempts -> Mems] /\ fs \in [Attempts -> Files]
  BY TypeParts, JournalAssumption DEF BaseInv, Mine, File, Readers
<1>3. CASE j' = [j EXCEPT ![a] = Mine]
  <2>1. j' = j  BY <1>2, <1>3
  <2>2. QED  BY <1>1, <2>1, StillHist
<1>4. CASE j' = [j EXCEPT ![a] = [Mine EXCEPT !.index = L]]
  <2> DEFINE m == [j[a] EXCEPT !.index = L]
  <2>1. /\ m.phase = j[a].phase /\ m.off = j[a].off /\ m.cache = j[a].cache
        /\ (m.dirty <=> j[a].dirty) /\ m.running = j[a].running
        /\ m.index = Learned(j[a], fs[a].data, Scanned(j[a], fs[a].data, con.last))
    BY <1>2 DEF Mems
  <2>2. j' = [j EXCEPT ![a] = m]  BY <1>2, <1>4
  <2> HIDE DEF m, L, a
  <2>3. Serving /\ at # "down" /\ at' # "down" /\ (Serving' <=> Serving) /\ ExportOK'
        /\ at' # "startsave"
    BY <1>1 DEF Serving, ExportOK
  <2>4. /\ MemOK(j[a], fs[a], a \in due, Serving) /\ LinkOK(j[a], disk[a], a \in due, Serving)
        /\ DiskOK(disk[a], fs[a], a \in due)
        /\ "save" \notin mode => Settled(j[a], disk[a], at)
    BY <1>2, <2>3 DEF HistInv
  <2>5. HistoryOK(j[a], fs[a]) /\ j[a].off # 0
    <3>1. j[a].off # 0 /\ j[a].off \in Nat  BY <1>1, <1>2, <2>3, <2>4 DEF MemOK, Mems
    <3>2. j[a].off > 0  BY <3>1
    <3>3. QED  BY <1>1, <1>2, <2>3, <2>4, <3>1, <3>2 DEF MemOK
  <2>6. HistoryOK(m, fs[a])  BY <1>2, <2>1, <2>5, LearnedHistory
  <2>7. MemOK(m, fs[a], a \in due, Serving)  BY <1>1, <1>2, <2>1, <2>5, <2>6 DEF MemOK
  <2>8. LinkOK(m, disk[a], a \in due, Serving)  BY <2>1, <2>3, <2>4 DEF LinkOK
  <2>9. "save" \notin mode => Settled(m, disk[a], at')  BY <1>1, <2>1, <2>4 DEF Settled
  <2>10. KeepsCommitted(disk[a], fs[a], disk[a], fs[a])
    <3>1. disk[a].off \in Nat  BY <1>2 DEF Disks
    <3>2. QED  BY <3>1, KeepsSame
  <2>11. /\ fs' = [fs EXCEPT ![a] = fs[a]] /\ UNCHANGED <<disk, mode>>
         /\ due' \subseteq due \cup {a} /\ due \subseteq due' /\ (a \in due' <=> a \in due)
         /\ at' = at
    BY <1>1, <1>2
  <2>12. /\ MemOK(m, fs[a], a \in due', Serving) /\ LinkOK(m, disk[a], a \in due', Serving)
         /\ DiskOK(disk[a], fs[a], a \in due')
    BY <2>4, <2>7, <2>8, <2>11
  <2>13. QED
    BY <1>2, <2>2, <2>3, <2>9, <2>10, <2>11, <2>12, OneStep
<1>5. QED  BY <1>1, <1>3, <1>4

\* No failure that a mode may combine takes the history apart (MCEventJournal: every set of
\* failures the runs explore).
ModesApart == \A md \in Modes : Apart(md)

LEMMA InitHist == ASSUME Init, ModesApart PROVE HistInv
<1>1. /\ j = [a \in Attempts |-> Nothing] /\ fs = [a \in Attempts |-> NoFile]
      /\ at = "down" /\ mode \in Modes /\ due = {}
  BY DEF Init
<1>2. PICK old \in Legacy :
        disk = [a \in Attempts |->
                   IF a = Followed /\ old # <<>>
                   THEN [Absent EXCEPT !.phase = "live", !.cache = old] ELSE Absent]
  BY DEF Init
<1>3. old # <<>> => Seed(old)
  <2>1. SUFFICES ASSUME old # <<>> PROVE Good(old, Len(old))  BY DEF Seed
  <2>2. /\ Len(old) \in Nat /\ old \in Seq(Events)
        /\ \A i \in 1..Len(old) : old[i].cur = old[1].cur + i - 1 /\ old[i].kind \in Kinds
                                   /\ old[i].cur \in Nat \ {0}
    BY LegacyOK
  <2>3. 1 \in 1..Len(old)  BY <2>1, <2>2, EmptySeq
  <2>4. ASSUME NEW i \in 1..Len(old)
        PROVE  old[i].kind \in Kinds /\ old[i].cur >= 1 /\ old[i].cur = old[1].cur + (i - 1)
    <3>1. old[i].cur = old[1].cur + i - 1 /\ old[1].cur \in Nat /\ old[i].cur \in Nat \ {0}
      BY <2>2, <2>3
    <3>2. \A x \in Nat : x + i - 1 = x + (i - 1)  OBVIOUS
    <3>3. QED  BY <2>2, <3>1, <3>2
  <2>5. QED  BY <2>2, <2>4 DEF Good
<1>4. ASSUME NEW a \in Attempts PROVE DiskOK(disk[a], fs[a], a \in due)
  <2>1. a \notin due  BY <1>1
  <2>2. CASE a = Followed /\ old # <<>>
    <3>1. disk[a] = [Absent EXCEPT !.phase = "live", !.cache = old]  BY <1>2, <2>2
    <3>2. disk[a].phase = "live" /\ disk[a].off = 0 /\ disk[a].cache = old
      BY <3>1 DEF Absent
    <3>3. QED  BY <1>3, <2>1, <2>2, <3>2 DEF DiskOK, Owned
  <2>3. CASE ~(a = Followed /\ old # <<>>)
    <3>1. disk[a] = Absent  BY <1>2, <2>3
    <3>2. disk[a].phase = "none" /\ disk[a].off = 0 /\ disk[a].cache = <<>>
      BY <3>1 DEF Absent
    <3>3. QED  BY <2>1, <3>2 DEF DiskOK, Owned
  <2>4. QED  BY <2>2, <2>3
<1>5. \A m, d : Settled(m, d, at)  BY <1>1 DEF Settled, Calm, Between
<1>6. Apart(mode) /\ ExportOK  BY <1>1 DEF ModesApart, ExportOK
<1>7. QED  BY <1>1, <1>4, <1>5, <1>6 DEF HistInv


LEMMA NextHist == ASSUME BaseInv, HistInv, [Next]_vars PROVE HistInv' /\ Keeps
<1>1. ASSUME NEW a \in Attempts,
             \/ Accept(a) \/ Relaunch(a)
             \/ \E kind \in Kinds : HarnessEvent(a, kind)
             \/ \E kind \in {"progress", "ask"} : Request(a, kind)
             \/ \E phase \in {"parked", "over"} : Finish(a, phase)
             \/ Export(a)
             \/ Drop(a)
             \/ Recover(a)
      PROVE  HistInv' /\ Keeps
  BY <1>1, AcceptHist, RelaunchHist, HarnessEventHist, RequestHist, FinishHist, ExportHist,
     DropHist, RecoverHist
<1>2. CASE FailHarnessEvent \/ ExportCompletes \/ ExportFailed
  BY <1>2, FailHarnessEventHist, ExportCompletesHist, ExportFailedHist
<1>3. CASE Persist \/ PersistFails  BY <1>3, PersistHist, PersistFailsHist
<1>4. CASE Crash \/ Restart \/ Recovered \/ StartSave
  BY <1>4, CrashHist, RestartHist, RecoveredHist, StartSaveHist
<1>5. CASE Connect  BY <1>5, ConnectHist
<1>6. CASE ConnectRefused \/ ReplayNext \/ CachedNext \/ LiveNext \/ Disconnect \/ UNCHANGED vars
  <2>1. UNCHANGED <<j, fs, disk, at, held, mode, due>>
    BY <1>6 DEF ConnectRefused, ReplayNext, CachedNext, LiveNext, Disconnect, vars
  <2>2. QED  BY <2>1, StillHist
<1>7. QED  BY <1>1, <1>2, <1>3, <1>4, <1>5, <1>6 DEF Next

\* The history of every attempt: its journal up to the offset is a sequence of events with
\* consecutive cursors, its cache is the end of it and its index points into it; and the
\* state file never names an offset that the journal does not hold, synced
\* (event_journal.go: appendEvent; store.go: save; runner.go: recoverLocked).
THEOREM HistoryKept == ModesApart => (Spec => [](BaseInv /\ HistInv))
<1>1. Init /\ ModesApart => BaseInv /\ HistInv  BY InitBase, InitHist
<1>2. (BaseInv /\ HistInv) /\ [Next]_vars => (BaseInv /\ HistInv)'
  BY NextBase, NextHist
<1>3. QED  BY <1>1, <1>2, PTL DEF Spec

\* The files fit the engine's state: the quota counts what is there, and whatever was lost
\* with the machine, a start finds the committed prefix of every journal it appends to.
THEOREM FilesAlwaysFit == ModesApart => (Spec => []FilesFitState)
<1>1. ASSUME BaseInv, HistInv PROVE Restartable
  <2>1. SUFFICES ASSUME NEW a \in Attempts, disk[a].phase = "live"
                 PROVE  fs[a].synced >= disk[a].off
    BY DEF Restartable
  <2>2. /\ DiskOK(disk[a], fs[a], a \in due) /\ disk[a].off \in Nat /\ fs[a].synced \in Nat
    BY <1>1, TypeParts DEF BaseInv, HistInv, Disks, Files
  <2>3. a \notin due /\ disk[a].phase \in Owned  BY <2>1, <2>2 DEF DiskOK, Owned
  <2>4. CASE disk[a].off = 0  BY <2>2, <2>4
  <2>5. CASE disk[a].off # 0
    <3>1. disk[a].off > 0  BY <2>2, <2>5
    <3>2. QED  BY <2>2, <2>3, <3>1 DEF DiskOK
  <2>6. QED  BY <2>4, <2>5
<1>2. BaseInv /\ HistInv => Restartable  BY <1>1
<1>3. QED  BY <1>2, HistoryKept, UsageStaysExact, PTL DEF FilesFitState

\* A replay finds the event after any cursor that the journal holds.
LEMMA ReplayFinds ==
    ASSUME NEW m \in Mems, NEW f \in Files, HistoryOK(m, f),
           NEW after \in (f.data[1].cur - 1)..(Cursor(m) - 1)
    PROVE  LET k == (after + 2) - f.data[1].cur IN
           /\ ReplayFrom(m, f.data, after) = k /\ k \in 1..m.off
           /\ Cursor(m) = f.data[1].cur + (m.off - 1)
           /\ after = (f.data[1].cur + k) - 2
<1> DEFINE d == f.data
           c1 == d[1].cur
           k == (after + 2) - c1
           s == ScanStart(m, after)
           R == Scanned(m, d, after)
<1>1. /\ d \in Seq(Events) /\ m.off \in Nat /\ m.off >= 1 /\ Len(d) \in Nat /\ m.off <= Len(d)
      /\ m.index \in SUBSET (Nat \X Nat)
  BY DEF HistoryOK, Good, Mems, Files
<1>2. /\ \A i \in 1..m.off : d[i].kind \in Kinds /\ d[i].cur = c1 + (i - 1)
      /\ c1 >= 1
  <2>1. 1 \in 1..m.off  BY <1>1
  <2>2. /\ \A i \in 1..m.off : d[i].kind \in Kinds /\ d[i].cur = c1 + (i - 1)
        /\ \A i \in 1..m.off : d[i].cur >= 1
    BY DEF HistoryOK, Good
  <2>3. QED  BY <2>1, <2>2, Zenon
<1>3. c1 \in Nat
  <2>1. d[1] \in Events  BY <1>1, ElementOfSeq
  <2>2. QED  BY <2>1 DEF Events
<1>4. Cursor(m) = c1 + (m.off - 1)
  <2>1. Cursor(m) = d[m.off].cur  BY CursorOfEnd
  <2>2. m.off \in 1..m.off  BY <1>1
  <2>3. QED  BY <1>2, <2>1, <2>2
<1>5. after \in (c1 - 1)..(Cursor(m) - 1)  OBVIOUS
<1> HIDE DEF d, c1
<1>6. k \in 1..m.off /\ after \in Nat /\ after = (c1 + k) - 2
  BY <1>1, <1>2, <1>3, <1>4, <1>5
<1>7. s \in Nat /\ s + 1 <= k
  <2>1. /\ s \in Nat
        /\ s # 0 => \E p \in m.index : p[2] = s /\ p[1] <= after + 1 /\ s < m.off
    BY <1>6, ScanStartOK
  <2> HIDE DEF s
  <2>2. CASE s = 0  BY <1>6, <2>2
  <2>3. CASE s # 0
    <3>1. PICK p \in m.index : p[2] = s /\ p[1] <= after + 1 /\ s < m.off  BY <2>1, <2>3
    <3>2. d[s + 1].cur = p[1]  BY <3>1 DEF HistoryOK, d
    <3>3. s + 1 \in 1..m.off  BY <1>1, <2>1, <3>1
    <3>4. d[s + 1].cur = c1 + ((s + 1) - 1)  BY <1>2, <3>3
    <3>5. c1 + ((s + 1) - 1) <= after + 1  BY <3>1, <3>2, <3>4
    <3>6. QED  BY <1>3, <1>6, <2>1, <3>5
  <2>4. QED  BY <2>2, <2>3
<1>8. Min({m.off, Len(d)}) = m.off
  <2>1. Min({m.off, Len(d)}) = IF m.off <= Len(d) THEN m.off ELSE Len(d)  BY <1>1, Min2
  <2>2. QED  BY <1>1, <2>1
<1>9. k \in (s + 1)..m.off  BY <1>1, <1>6, <1>7
<1> HIDE DEF k, s
<1>10. d[k].cur = after + 1
  <2>1. d[k].cur = c1 + (k - 1)  BY <1>2, <1>6
  <2>2. QED  BY <1>1, <1>3, <1>6, <2>1
<1>11. \/ R = {} /\ \A p \in (s + 1)..m.off : d[p].cur <= after
       \/ \E e \in (s + 1)..m.off :
             /\ R = (s + 1)..e /\ Max(R) = e /\ d[e].cur > after
             /\ \A p \in (s + 1)..m.off : p < e => d[p].cur <= after
  BY <1>1, <1>6, <1>8, ScannedOK DEF s
<1> HIDE DEF R
<1>12. PICK e \in (s + 1)..m.off :
         /\ R = (s + 1)..e /\ Max(R) = e /\ d[e].cur > after
         /\ \A p \in (s + 1)..m.off : p < e => d[p].cur <= after
  <2>1. ~(d[k].cur <= after)  BY <1>6, <1>10
  <2>2. QED  BY <1>9, <1>11, <2>1
<1>13. e = k
  <2>1. ~(k < e)
    <3>1. ~(d[k].cur <= after)  BY <1>6, <1>10
    <3>2. QED  BY <1>9, <1>12, <3>1
  <2>2. e \in 1..m.off  BY <1>7, <1>12
  <2>3. c1 + (e - 1) > (c1 + k) - 2
    <3>1. d[e].cur = c1 + (e - 1)  BY <1>2, <2>2
    <3>2. QED  BY <1>6, <1>12, <3>1
  <2>4. QED  BY <1>3, <1>6, <2>1, <2>2, <2>3
<1>14. Torn \notin {d[p] : p \in R}
  <2>1. ASSUME NEW p \in R PROVE d[p] # Torn
    <3>1. p \in 1..m.off
      <4>1. p \in (s + 1)..k  BY <1>12, <1>13
      <4>2. QED  BY <1>1, <1>6, <1>7, <4>1
    <3>2. d[p].kind \in Kinds  BY <1>2, <3>1
    <3>3. Torn.kind \notin Kinds  BY DEF Torn, Kinds
    <3>4. QED  BY <3>2, <3>3
  <2>2. QED  BY <2>1
<1>15. R # {}  BY <1>9, <1>12, <1>13
<1>16. ReplayFrom(m, d, after) = k
  <2>1. Max(R) = k /\ d[Max(R)].cur = after + 1  BY <1>10, <1>12, <1>13
  <2>2. ReplayFrom(m, d, after) = IF /\ R # {} /\ Torn \notin {d[p] : p \in R}
                                     /\ d[Max(R)].cur = after + 1
                                  THEN Max(R) ELSE 0
    BY DEF ReplayFrom, R
  <2>3. QED  BY <1>14, <1>15, <2>1, <2>2, Zenon
<1>17. QED  BY <1>4, <1>6, <1>16 DEF k, d, c1

LEMMA HistoryReplays ==
    ASSUME NEW m \in Mems, NEW f \in Files, HistoryOK(m, f),
           NEW after \in (f.data[1].cur - 1)..(Cursor(m) - 1)
    PROVE  LET d == f.data
               p == ReplayFrom(m, d, after) IN
           /\ p # 0
           /\ \A i \in 0..((Cursor(m) - after) - 1) :
                 /\ p + i <= m.off /\ d[p + i].cur = (after + 1) + i
                 /\ \A k \in DOMAIN m.cache : m.cache[k].cur = d[p + i].cur => m.cache[k] = d[p + i]
<1> DEFINE d == f.data
           c1 == d[1].cur
           p == (after + 2) - c1
           l == Len(m.cache)
<1>1. /\ ReplayFrom(m, d, after) = p /\ p \in 1..m.off /\ Cursor(m) = c1 + (m.off - 1)
      /\ after = (c1 + p) - 2
  BY ReplayFinds
<1>2. /\ d \in Seq(Events) /\ m.off \in Nat /\ m.cache \in Seq(Events) /\ l \in Nat
      /\ Len(d) \in Nat /\ m.off <= Len(d) /\ l \in 1..m.off
      /\ DOMAIN m.cache = 1..l
  BY LenProperties DEF HistoryOK, Good, EndOf, Mems, Files
<1>3. \A i \in 1..m.off : d[i].cur = c1 + (i - 1)  BY DEF HistoryOK, Good
<1>4. \A k \in 1..l : m.cache[k] = d[(m.off - l) + k]  BY DEF HistoryOK, EndOf
<1>5. c1 \in Nat
  <2>1. d[1] \in Events  BY <1>1, <1>2, ElementOfSeq
  <2>2. QED  BY <2>1 DEF Events
<1> HIDE DEF p, d, c1, l
<1>6. ASSUME NEW i \in 0..((Cursor(m) - after) - 1)
      PROVE  /\ p + i \in 1..m.off /\ d[p + i].cur = (after + 1) + i
             /\ \A k \in 1..l : m.cache[k].cur = d[p + i].cur => m.cache[k] = d[p + i]
  <2>a. (Cursor(m) - after) - 1 = m.off - p
    <3>1. Cursor(m) = c1 + (m.off - 1) /\ after = (c1 + p) - 2 /\ p \in Nat  BY <1>1, <1>2
    <3>2. \A x \in Nat, y \in Nat, z \in Nat : ((x + (y - 1)) - ((x + z) - 2)) - 1 = y - z
      OBVIOUS
    <3>3. QED  BY <1>2, <1>5, <3>1, <3>2
  <2>b. i \in 0..(m.off - p)  BY <2>a
  <2>1. i \in Nat /\ p + i \in 1..m.off
    <3>1. p \in 1..m.off  BY <1>1
    <3>2. QED  BY <1>2, <2>b, <3>1
  <2>2. d[p + i].cur = c1 + ((p + i) - 1)  BY <1>3, <2>1
  <2>3. c1 + ((p + i) - 1) = (after + 1) + i  BY <1>1, <1>2, <1>5, <2>1
  <2>4. ASSUME NEW k \in 1..l, m.cache[k].cur = d[p + i].cur PROVE m.cache[k] = d[p + i]
    <3> DEFINE x == (m.off - l) + k
    <3>1. x \in 1..m.off  BY <1>2
    <3>2. m.cache[k] = d[x]  BY <1>4
    <3> HIDE DEF x
    <3>3. d[x].cur = c1 + (x - 1)  BY <1>3, <3>1
    <3>4. c1 + (x - 1) = c1 + ((p + i) - 1)  BY <2>2, <2>4, <3>2, <3>3
    <3>5. x = p + i  BY <1>2, <1>5, <2>1, <3>1, <3>4
    <3>6. QED  BY <3>2, <3>5
  <2>5. QED  BY <2>1, <2>2, <2>3, <2>4
<1>7. p # 0  BY <1>1, <1>2
<1>8. ASSUME NEW i \in 0..((Cursor(m) - after) - 1)
      PROVE  /\ p + i <= m.off /\ d[p + i].cur = (after + 1) + i
             /\ \A k \in DOMAIN m.cache : m.cache[k].cur = d[p + i].cur => m.cache[k] = d[p + i]
  <2>1. p + i <= m.off  BY <1>2, <1>6
  <2>2. QED  BY <1>2, <1>6, <2>1, Zenon
<1>9. ReplayFrom(m, d, after) = p  BY <1>1
<1>10. QED  BY <1>7, <1>8, <1>9, Zenon DEF d

\* A replay from any cursor that the journal still holds is complete, in order, and agrees
\* with the cache: replayEvents and next do not fail on what appendEvent wrote.
THEOREM ReplayIsComplete == ModesApart => (Spec => []ReplayComplete)
<1>1. ASSUME BaseInv, HistInv PROVE ReplayComplete
  <2>1. SUFFICES ASSUME NEW a \in Attempts, Serving, j[a].phase \in Owned,
                        NEW after \in (fs[a].data[1].cur - 1)..(Cursor(j[a]) - 1)
                 PROVE  LET m == j[a]
                            d == fs[a].data
                            p == ReplayFrom(m, d, after) IN
                        /\ p # 0
                        /\ \A i \in 0..(Cursor(m) - after - 1) :
                              /\ p + i <= m.off /\ d[p + i].cur = after + 1 + i
                              /\ \A k \in DOMAIN m.cache :
                                    m.cache[k].cur = d[p + i].cur => m.cache[k] = d[p + i]
    BY DEF ReplayComplete
  <2>2. Saveable(a)  BY <1>1, <2>1, ServingSaves
  <2>3. HistoryOK(j[a], fs[a]) /\ j[a] \in Mems /\ fs[a] \in Files
    BY <1>1, <2>1, <2>2, TypeParts DEF BaseInv, Saveable
  <2>4. QED  BY <2>1, <2>3, HistoryReplays
<1>2. BaseInv /\ HistInv => ReplayComplete  BY <1>1
<1>3. QED  BY <1>2, HistoryKept, PTL

-----------------------------------------------------------------------------
(* The committed journals are logs                                         *)

\* The committed part of a journal.
Prefix(d, f) == IF d.phase \in Owned /\ f.linked
                THEN SubSeq(f.data, 1, Min({d.off, Len(f.data)})) ELSE <<>>

LEMMA PrefixOK ==
    ASSUME NEW d \in Disks, NEW f \in Files, NEW gone, DiskOK(d, f, gone)
    PROVE  /\ Prefix(d, f) \in Seq(Events)
           /\ d.phase \in Owned /\ f.linked =>
                 /\ Len(Prefix(d, f)) = d.off
                 /\ \A i \in 1..d.off : Prefix(d, f)[i] = f.data[i]
                 /\ Good(f.data, d.off)
           /\ ~(d.phase \in Owned /\ f.linked) => Prefix(d, f) = <<>>
<1>1. f.data \in Seq(Events) /\ Len(f.data) \in Nat /\ d.off \in Nat  BY DEF Files, Disks
<1>2. CASE ~(d.phase \in Owned /\ f.linked)
  <2>1. Prefix(d, f) = <<>>  BY <1>2 DEF Prefix
  <2>2. QED  BY <1>2, <2>1, EmptySeq
<1>3. CASE d.phase \in Owned /\ f.linked
  <2> DEFINE n == d.off
             s == f.data
             t == SubSeq(s, 1, n)
  <2>1. Good(s, n)
    <3>1. CASE n = 0  BY <1>1, <3>1 DEF Good
    <3>2. CASE n # 0
      <4>1. d.off > 0  BY <1>1, <3>2
      <4>2. QED  BY <1>3, <4>1 DEF DiskOK
    <3>3. QED  BY <3>1, <3>2
  <2>2. n <= Len(s)  BY <2>1 DEF Good
  <2>3. Min({n, Len(s)}) = n
    <3>1. Min({n, Len(s)}) = IF n <= Len(s) THEN n ELSE Len(s)  BY <1>1, Min2
    <3>2. QED  BY <2>2, <3>1, Zenon
  <2>4. Prefix(d, f) = t  BY <1>3, <2>3, Zenon DEF Prefix
  <2>5. t \in Seq(Events) /\ Len(t) = n /\ \A i \in 1..n : t[i] = s[i]
    <3> HIDE DEF n, s
    <3>1. n \in Nat /\ s \in Seq(Events) /\ n <= Len(s) /\ Len(s) \in Nat
      BY <1>1, <2>2 DEF n, s
    <3>2. \A i \in 1..n : s[i] \in Events /\ (1 + i) - 1 = i  BY <3>1, ElementOfSeq
    <3>3. n - 1 + 1 = n /\ (1 <= n \/ n = 0)  BY <3>1
    <3>4. /\ t \in Seq(Events) /\ Len(t) = IF 1 <= n THEN n - 1 + 1 ELSE 0
          /\ \A i \in 1..(n - 1 + 1) : t[i] = s[1 + i - 1]
      BY <3>1, <3>2, SubSeqProperties
    <3>5. QED  BY <3>1, <3>2, <3>3, <3>4
  <2>6. QED  BY <1>3, <2>1, <2>4, <2>5, Zenon
<1>4. QED  BY <1>2, <1>3

\* A sequence that keeps the records of another one continues it.
LEMMA PrefixKept ==
    ASSUME NEW s \in Seq(Events), NEW t \in Seq(Events), Len(s) <= Len(t),
           \A i \in 1..Len(s) : t[i] = s[i]
    PROVE  Log!IsPrefix(s, t)
<1> DEFINE n == Len(s)
<1>1. n \in Nat /\ Len(t) \in Nat  OBVIOUS
<1> HIDE DEF n
<1>2. SubSeq(s, 1, n) = SubSeq(t, 1, n)
  <2>1. \A i \in 1..n : s[i] \in Events /\ t[i] \in Events /\ (1 + i) - 1 = i
    BY <1>1, ElementOfSeq DEF n
  <2>2. n - 1 + 1 = n /\ (1 <= n \/ n = 0)  BY <1>1
  <2>3. /\ SubSeq(s, 1, n) \in Seq(Events)
        /\ Len(SubSeq(s, 1, n)) = IF 1 <= n THEN n - 1 + 1 ELSE 0
        /\ \A i \in 1..(n - 1 + 1) : SubSeq(s, 1, n)[i] = s[1 + i - 1]
    BY <1>1, <2>1, SubSeqProperties
  <2>4. /\ SubSeq(t, 1, n) \in Seq(Events)
        /\ Len(SubSeq(t, 1, n)) = IF 1 <= n THEN n - 1 + 1 ELSE 0
        /\ \A i \in 1..(n - 1 + 1) : SubSeq(t, 1, n)[i] = t[1 + i - 1]
    BY <1>1, <2>1, SubSeqProperties
  <2> DEFINE x == SubSeq(s, 1, n)
             y == SubSeq(t, 1, n)
  <2>5. Len(x) = n /\ Len(y) = n  BY <1>1, <2>2, <2>3, <2>4
  <2>6. \A i \in 1..n : x[i] = s[i] /\ y[i] = t[i]  BY <2>1, <2>2, <2>3, <2>4
  <2>7. \A i \in 1..n : t[i] = s[i]  BY DEF n
  <2>8. x \in Seq(Events) /\ y \in Seq(Events)  BY <2>3, <2>4
  <2> HIDE DEF x, y
  <2>9. \A i \in 1..Len(x) : x[i] = y[i]  BY <2>5, <2>6, <2>7
  <2>10. x = y  BY <2>5, <2>8, <2>9, SeqEqual
  <2>11. QED  BY <2>10 DEF x, y
<1>3. QED  BY <1>2 DEF Log!IsPrefix, n

LEMMA CommittedPrefix ==
    ASSUME NEW a \in Attempts
    PROVE  Committed[a] = Prefix(disk[a], fs[a])
BY DEF Committed, Prefix

\* The committed part of one journal in a step: it grows at its end or goes, and its cursors
\* are consecutive.
LEMMA CommittedStep ==
    ASSUME NEW d \in Disks, NEW f \in Files, NEW gone, DiskOK(d, f, gone),
           NEW dd \in Disks, NEW ff \in Files, NEW away, DiskOK(dd, ff, away),
           KeepsCommitted(d, f, dd, ff)
    PROVE  /\ Log!IsPrefix(Prefix(d, f), Prefix(dd, ff)) \/ Prefix(dd, ff) = <<>>
           /\ Log!Consecutive(Prefix(dd, ff))
<1>1. /\ Prefix(d, f) \in Seq(Events) /\ Prefix(dd, ff) \in Seq(Events)
      /\ d.off \in Nat /\ dd.off \in Nat
  BY PrefixOK DEF Disks
<1>2. CASE ~(dd.phase \in Owned /\ ff.linked)
  <2>1. Prefix(dd, ff) = <<>>  BY <1>2, PrefixOK
  <2>2. Log!Consecutive(<<>>)
    <3>1. Len(<<>>) - 1 = -1 /\ 1..-1 = {}  BY EmptySeq
    <3>2. QED  BY <3>1 DEF Log!Consecutive
  <2>3. QED  BY <2>1, <2>2
<1>3. CASE dd.phase \in Owned /\ ff.linked
  <2> DEFINE t == Prefix(dd, ff)
             n == dd.off
  <2>1. /\ Len(t) = n /\ (\A i \in 1..n : t[i] = ff.data[i]) /\ Good(ff.data, n)
    BY <1>3, PrefixOK
  <2>2. Log!Consecutive(t)
    <3>1. \A i \in 1..n : t[i].cur = ff.data[1].cur + (i - 1)  BY <2>1 DEF Good
    <3>2. ASSUME NEW i \in 1..(n - 1) PROVE t[i + 1].cur = t[i].cur + 1
      <4>1. i \in 1..n /\ i + 1 \in 1..n /\ 1 \in 1..n  BY <1>1
      <4>2. ff.data[1].cur \in Nat
        <5>1. ff.data \in Seq(Events) /\ n <= Len(ff.data) /\ Len(ff.data) \in Nat
          BY <2>1 DEF Good, Files
        <5>2. ff.data[1] \in Events  BY <1>1, <4>1, <5>1, ElementOfSeq
        <5>3. QED  BY <5>2 DEF Events
      <4>3. \A x \in Nat : x + ((i + 1) - 1) = (x + (i - 1)) + 1  OBVIOUS
      <4>4. t[i + 1].cur = ff.data[1].cur + ((i + 1) - 1) /\ t[i].cur = ff.data[1].cur + (i - 1)
        BY <3>1, <4>1
      <4>5. QED  BY <4>2, <4>3, <4>4
    <3>3. QED  BY <2>1, <3>2 DEF Log!Consecutive
  <2>3. Log!IsPrefix(Prefix(d, f), t)
    <3>1. CASE d.phase \in Owned /\ f.linked
      <4>1. Len(Prefix(d, f)) = d.off /\ \A i \in 1..d.off : Prefix(d, f)[i] = f.data[i]
        BY <3>1, PrefixOK
      <4>2. d.off <= n /\ \A i \in 1..d.off : ff.data[i] = f.data[i]
        BY <1>3, <3>1 DEF KeepsCommitted
      <4>3. \A i \in 1..d.off : i \in 1..n  BY <1>1, <4>2
      <4> DEFINE u == Prefix(d, f)
      <4>4. \A i \in 1..Len(u) : t[i] = u[i]  BY <2>1, <4>1, <4>2, <4>3
      <4>5. Len(u) <= Len(t)  BY <2>1, <4>1, <4>2
      <4>6. u \in Seq(Events) /\ t \in Seq(Events)  BY <1>1
      <4> HIDE DEF u, t
      <4>7. QED  BY <4>4, <4>5, <4>6, PrefixKept DEF u
    <3>2. CASE ~(d.phase \in Owned /\ f.linked)
      <4>1. Prefix(d, f) = <<>> /\ Len(<<>>) = 0  BY <3>2, PrefixOK, EmptySeq
      <4>2. 0 <= Len(t) /\ 1..0 = {}  BY <1>1, <2>1
      <4>3. Log!IsPrefix(<<>>, t)
        <5>1. <<>> \in Seq(Events) /\ t \in Seq(Events)  BY <1>1, EmptySeq
        <5> HIDE DEF t
        <5>2. \A i \in 1..Len(<<>>) : t[i] = <<>>[i]  BY <4>1, <4>2
        <5>3. QED  BY <4>1, <4>2, <5>1, <5>2, PrefixKept
      <4>4. QED  BY <4>1, <4>3
    <3>3. QED  BY <3>1, <3>2
  <2>4. QED  BY <2>2, <2>3
<1>4. QED  BY <1>2, <1>3

\* What a step does to the committed journals is a step of the log.
LEMMA StepIsLogStep ==
    ASSUME BaseInv, HistInv, BaseInv', HistInv', Keeps PROVE Log!Next
<1>1. ASSUME NEW a \in Attempts
      PROVE  /\ Log!IsPrefix(Committed[a], Committed'[a]) \/ Committed'[a] = <<>>
             /\ Log!Consecutive(Committed'[a])
  <2>1. /\ disk[a] \in Disks /\ fs[a] \in Files /\ disk'[a] \in Disks /\ fs'[a] \in Files
    BY TypeParts, TypePartsNext DEF BaseInv
  <2>2. /\ DiskOK(disk[a], fs[a], a \in due) /\ DiskOK(disk'[a], fs'[a], a \in due')
        /\ KeepsCommitted(disk[a], fs[a], disk'[a], fs'[a])
    BY DEF HistInv, Keeps
  <2>3. /\ Log!IsPrefix(Prefix(disk[a], fs[a]), Prefix(disk'[a], fs'[a]))
              \/ Prefix(disk'[a], fs'[a]) = <<>>
        /\ Log!Consecutive(Prefix(disk'[a], fs'[a]))
    BY <2>1, <2>2, CommittedStep
  <2>4. Committed[a] = Prefix(disk[a], fs[a])  BY CommittedPrefix
  <2>5. Committed'[a] = Prefix(disk'[a], fs'[a])  BY DEF Committed, Prefix
  <2>6. QED  BY <2>3, <2>4, <2>5
<1>2. DOMAIN Committed' = Attempts  BY DEF Committed
<1>3. QED  BY <1>1, <1>2 DEF Log!Next

\* The committed journals implement the abstract log: no crash, failed write, failed save that
\* lands, reopened journal or retention changes an event whose offset was saved.
THEOREM CommittedIsLog == ModesApart => (Spec => LogSpec)
<1>1. Init => Log!Init
  <2>1. SUFFICES ASSUME Init PROVE Committed = [a \in Attempts |-> <<>>]
    BY DEF Log!Init
  <2>2. ASSUME NEW a \in Attempts PROVE Committed[a] = <<>>
    <3>1. fs[a] = NoFile  BY <2>1 DEF Init
    <3>2. ~fs[a].linked  BY <3>1 DEF NoFile
    <3>3. QED  BY <3>2 DEF Committed
  <2>3. QED  BY <2>2 DEF Committed
<1>2. (BaseInv /\ HistInv) /\ [Next]_vars => [Log!Next]_Committed
  <2>1. SUFFICES ASSUME BaseInv, HistInv, [Next]_vars PROVE Log!Next  OBVIOUS
  <2>2. BaseInv' /\ HistInv' /\ Keeps  BY <2>1, NextBase, NextHist
  <2>3. QED  BY <2>1, <2>2, StepIsLogStep
<1>3. QED  BY <1>1, <1>2, HistoryKept, PTL DEF Spec, LogSpec, Log!Spec

-----------------------------------------------------------------------------
(* What a consumer has got                                                 *)

\* Events with consecutive cursors.
Row(s) == \A k \in 1..Len(s) : s[k].cur = s[1].cur + (k - 1)

\* The stream by itself: what was delivered has consecutive cursors and ends at the
\* consumer's cursor, and what comes next cannot leave a gap.
StreamOK(c) ==
    /\ \A i \in 1..(Len(c.got) - 1) : c.got[i + 1].cur = c.got[i].cur + 1
    /\ c.got # <<>> => c.got[Len(c.got)].cur = c.last
    /\ c.at = "off" => c.chan = <<>>
    /\ c.at \in {"replay", "cache"} => c.events # <<>> /\ Row(c.events)
    /\ c.at = "cache" => c.events[1].cur <= c.last + 1
    /\ c.at = "replay" => c.through = c.events[Len(c.events)].cur

\* An event is among the first records, as many as the offset of m says.
Has(m, f, e) == \E p \in 1..m.off : f.data[p] = e

Holds(m, f, e) == m.phase \in Owned /\ Has(m, f, e)

\* What the stream has yet to deliver is in the journal.
SourceOK(m, f, c) ==
    /\ c.at = "replay" => f.data[c.pos].cur = c.last + 1
    /\ c.at # "off" /\ m.phase \in Owned =>
          /\ \A k \in 1..Len(c.events) : Has(m, f, c.events[k])
          /\ \A k \in 1..Len(c.chan) : Has(m, f, c.chan[k])

\* What was delivered is in the journal, or a crash has taken it back.
GotFrom(m, f, c, gone) == \A i \in 1..Len(c.got) : c.got[i] \in gone \/ Holds(m, f, c.got[i])

StreamInv ==
    /\ StreamOK(con)
    /\ Serving => SourceOK(Mine, fs[Followed], con)
    /\ Followed \notin due =>
          IF Serving THEN GotFrom(Mine, fs[Followed], con, lost)
          ELSE GotFrom(disk[Followed], fs[Followed], con, lost)

LEMMA HasKept ==
    ASSUME NEW m, NEW n, NEW f, NEW g, NEW e, m.off \in Nat, n.off \in Nat, m.off <= n.off,
           \A p \in 1..m.off : g.data[p] = f.data[p], Has(m, f, e)
    PROVE  Has(n, g, e)
<1>1. PICK p \in 1..m.off : f.data[p] = e  BY DEF Has
<1>2. p \in 1..n.off  BY <1>1
<1>3. g.data[p] = e  BY <1>1
<1>4. QED  BY <1>2, <1>3 DEF Has

\* The memory of an attempt and its journal in a step of the engine: the history grows, or
\* the attempt is taken.
Grows(m, f, n, g, gone) ==
    /\ m.phase \in Owned =>
          \/ /\ n.phase \in Owned /\ m.off \in Nat /\ n.off \in Nat /\ m.off <= n.off
             /\ \A p \in 1..m.off : g.data[p] = f.data[p]
          \/ n.phase = "gone" /\ gone /\ g.data = f.data
    /\ m.phase = "gone" => n.phase = "gone" /\ g.data = f.data

\* A step of the engine leaves the stream, or adds an event of the journal to its channel.
LEMMA EngineStream ==
    ASSUME BaseInv, StreamInv, Serving, Serving', lost' = lost, due \subseteq due',
           Grows(Mine, fs[Followed], Mine', fs'[Followed], Followed \in due'),
           con' \in Readers, con'.at = con.at, con'.pos = con.pos,
           con'.last = con.last, con'.got = con.got, con'.events = con.events,
           con'.through = con.through,
           \/ con'.chan = con.chan
           \/ con.at # "off" /\ \E e : con'.chan = Append(con.chan, e)
                                       /\ Has(Mine', fs'[Followed], e)
    PROVE  StreamInv'
<1> DEFINE m == Mine
           n == Mine'
           f == fs[Followed]
           g == fs'[Followed]
<1>1. con \in Readers  BY TypeParts DEF BaseInv
<1>2. con.at # "off" => m.phase \in Owned \cup {"gone"}  BY DEF BaseInv, ReaderOK, Mine
<1>3. m.phase \in Owned /\ n.phase \in Owned =>
         m.off \in Nat /\ n.off \in Nat /\ m.off <= n.off /\ \A p \in 1..m.off : g.data[p] = f.data[p]
  BY DEF Grows, Owned
<1>4. ASSUME NEW e, Holds(m, f, e), Followed \notin due' PROVE Holds(n, g, e)
  <2>1. n.phase \in Owned  BY <1>4 DEF Grows, Holds
  <2>2. QED  BY <1>3, <1>4, <2>1, HasKept DEF Holds
<1>5. StreamOK(con')
  <2>1. con'.at = "off" => con'.chan = <<>>  BY DEF StreamInv, StreamOK
  <2>2. QED  BY <2>1 DEF StreamInv, StreamOK
<1>6. con'.at = "replay" => g.data[con'.pos].cur = con'.last + 1
  <2>1. SUFFICES ASSUME con.at = "replay" PROVE g.data[con.pos] = f.data[con.pos]
    BY DEF StreamInv, SourceOK
  <2>2. con.pos \in 1..con.bytes /\ (m.phase \in Owned => con.bytes <= m.off)
    BY <2>1 DEF BaseInv, ReaderOK, Mine
  <2>3. CASE m.phase = "gone"  BY <2>3 DEF Grows
  <2>4. CASE m.phase \in Owned
    <3>1. CASE n.phase \in Owned
      <4>1. con.pos \in 1..m.off  BY <1>1, <1>3, <2>2, <2>4, <3>1 DEF Readers
      <4>2. QED  BY <1>3, <2>4, <3>1, <4>1
    <3>2. CASE n.phase \notin Owned  BY <2>4, <3>2 DEF Grows
    <3>3. QED  BY <3>1, <3>2
  <2>5. QED  BY <1>2, <2>1, <2>3, <2>4
<1>7. ASSUME con'.at # "off", n.phase \in Owned
      PROVE  /\ \A k \in 1..Len(con'.events) : Has(n, g, con'.events[k])
             /\ \A k \in 1..Len(con'.chan) : Has(n, g, con'.chan[k])
  <2>1. m.phase \in Owned  BY <1>2, <1>7 DEF Grows, Owned
  <2>2. /\ \A k \in 1..Len(con.events) : Has(m, f, con.events[k])
        /\ \A k \in 1..Len(con.chan) : Has(m, f, con.chan[k])
    BY <1>7, <2>1 DEF StreamInv, SourceOK
  <2>3. ASSUME NEW e, Has(m, f, e) PROVE Has(n, g, e)
    BY <1>3, <1>7, <2>1, <2>3, HasKept
  <2>4. \A k \in 1..Len(con'.events) : Has(n, g, con'.events[k])  BY <2>2, <2>3
  <2>5. ASSUME NEW k \in 1..Len(con'.chan) PROVE Has(n, g, con'.chan[k])
    <3>1. CASE con'.chan = con.chan  BY <2>2, <2>3, <2>5, <3>1
    <3>2. CASE \E e : con'.chan = Append(con.chan, e) /\ Has(n, g, e)
      <4>1. PICK e : con'.chan = Append(con.chan, e) /\ Has(n, g, e)  BY <3>2
      <4>2. con.chan \in Seq(Events)  BY <1>1 DEF Readers
      <4> DEFINE ch == con.chan
      <4>3. /\ Len(Append(ch, e)) = Len(ch) + 1 /\ Append(ch, e)[Len(ch) + 1] = e
            /\ \A i \in 1..Len(ch) : Append(ch, e)[i] = ch[i]
            /\ Len(ch) \in Nat
        BY <4>2
      <4> HIDE DEF ch
      <4>4. k \in 1..Len(ch) \/ k = Len(ch) + 1  BY <2>5, <4>1, <4>3 DEF ch
      <4>5. con'.chan[k] = (IF k = Len(ch) + 1 THEN e ELSE ch[k])  BY <4>1, <4>3, <4>4 DEF ch
      <4>6. CASE k = Len(ch) + 1  BY <4>1, <4>5, <4>6
      <4>7. CASE k \in 1..Len(ch) /\ k # Len(ch) + 1  BY <2>2, <2>3, <4>5, <4>7 DEF ch
      <4>8. QED  BY <4>4, <4>6, <4>7
    <3>3. QED  BY <3>1, <3>2
  <2>6. QED  BY <2>4, <2>5
<1>8. SourceOK(n, g, con')  BY <1>6, <1>7 DEF SourceOK
<1>9. ASSUME Followed \notin due' PROVE GotFrom(n, g, con', lost')
  <2>1. GotFrom(m, f, con, lost)  BY <1>9 DEF StreamInv
  <2>2. QED  BY <1>4, <1>9, <2>1 DEF GotFrom
<1>10. QED  BY <1>5, <1>8, <1>9 DEF StreamInv

LEMMA GrowsSelf ==
    ASSUME NEW m \in Mems, NEW f, NEW gone PROVE Grows(m, f, m, f, gone)
BY DEF Grows, Mems

\* A step of the engine that does not concern the followed attempt.
LEMMA OtherStream ==
    ASSUME BaseInv, StreamInv, Serving, Serving', UNCHANGED <<con, lost>>, due \subseteq due',
           Mine' = Mine, fs'[Followed] = fs[Followed]
    PROVE  StreamInv'
<1>1. con \in Readers /\ Mine \in Mems  BY TypeParts, JournalAssumption DEF BaseInv, Mine
<1>2. Grows(Mine, fs[Followed], Mine', fs'[Followed], Followed \in due')  BY <1>1, GrowsSelf
<1>3. QED  BY <1>1, <1>2, EngineStream

\* A handler that appends an event: a subscriber is sent what the journal has.
LEMMA AppendStream ==
    ASSUME BaseInv, HistInv, BaseInv', HistInv', StreamInv, Serving, Serving',
           NEW a \in Attempts, NEW m \in Mems, SameWriter(m, j[a]),
           NEW kind \in Kinds, NEW outs, NEW r \in Results(a, m, kind, outs), Wrote(a, r),
           j[a].phase \in Owned \cup {"none"},
           NEW m1 \in Mems, m1.off = r.m.off, m1.cache = r.m.cache, m1.phase \in Owned,
           j' = [j EXCEPT ![a] = m1], UNCHANGED <<due, lost>>
    PROVE  StreamInv'
<1>1. /\ at # "down" /\ j \in [Attempts -> Mems] /\ fs \in [Attempts -> Files] /\ con \in Readers
      /\ Followed \in Attempts /\ j[a] \in Mems /\ fs[a] \in Files
  BY TypeParts, JournalAssumption DEF BaseInv, Serving
<1>2. /\ Ev(m, kind) \in Events /\ Extends(m, fs[a], OtherBytes(a), Ev(m, kind), r)
      /\ fs' = [fs EXCEPT ![a] = r.f]
  BY <1>1, Appended
<1>3. CASE a # Followed
  <2>1. con' = con  BY <1>3 DEF Wrote
  <2>2. Mine' = Mine /\ fs'[Followed] = fs[Followed]  BY <1>1, <1>2, <1>3 DEF Mine
  <2>3. QED  BY <2>1, <2>2, OtherStream
<1>4. CASE a = Followed
  <2>1. Mine = j[a] /\ Mine' = m1 /\ fs'[Followed] = r.f  BY <1>1, <1>2, <1>4 DEF Mine
  <2>2. m.off = j[a].off /\ m.off \in Nat /\ r.m.off \in Nat /\ m.off <= r.m.off
    BY <1>2 DEF SameWriter, Extends, Mems
  <2>3. j[a].phase \in Owned => \A p \in 1..m.off : r.f.data[p] = fs[a].data[p]
    <3>1. SUFFICES ASSUME j[a].phase \in Owned PROVE \A p \in 1..m.off : r.f.data[p] = fs[a].data[p]
      OBVIOUS
    <3>2. fs[a].linked /\ m.off <= Len(fs[a].data)  BY <2>2, <3>1, ServedOK DEF HistoryOK, Good
    <3>3. QED  BY <1>2, <3>2 DEF Extends
  <2>4. Grows(Mine, fs[Followed], Mine', fs'[Followed], Followed \in due')
    <3>1. j[a].phase # "gone"  BY DEF Owned
    <3>2. QED  BY <1>4, <2>1, <2>2, <2>3, <3>1 DEF Grows
  <2>5. r.ok => r.m.cache = Hot(m.cache, Ev(m, kind)) /\ m.cache \in Seq(Events)
    BY <1>2 DEF Extends, Mems
  <2>6. r.ok => Last(r.m.cache) \in Events  BY <1>2, <2>5, HotLast
  <2>7. /\ con' \in Readers /\ con'.at = con.at /\ con'.pos = con.pos
        /\ con'.last = con.last /\ con'.got = con.got /\ con'.events = con.events
        /\ con'.through = con.through
    BY <1>1, <2>6, WroteStream
  <2>8. HistoryOK(m1, r.f) /\ m1.off \in Nat
    <3>1. j'[a] = m1 /\ fs'[a] = r.f  BY <1>1, <1>2
    <3>2. /\ MemOK(j'[a], fs'[a], a \in due', Serving') /\ at' # "down"
      BY DEF HistInv, Serving
    <3>3. m1.off \in Nat /\ m1.off # 0  BY <3>1, <3>2 DEF MemOK, Mems
    <3>4. m1.off > 0  BY <3>3
    <3>5. QED  BY <3>1, <3>2, <3>3, <3>4 DEF MemOK
  <2>9. Last(m1.cache) = r.f.data[m1.off]  BY <1>2, <2>8, CursorOfEnd DEF Extends
  <2>10. Has(Mine', fs'[Followed], Last(r.m.cache))
    <3>1. m1.off \in 1..m1.off  BY <2>8 DEF HistoryOK
    <3>2. QED  BY <2>1, <2>9, <3>1 DEF Has
  <2>11. \/ con'.chan = con.chan
         \/ con.at # "off" /\ con'.chan = Append(con.chan, Last(r.m.cache))
    <3>1. CASE con' = con  BY <3>1
    <3>2. CASE con.at # "off" /\ con' = [con EXCEPT !.chan = Append(@, Last(r.m.cache))]
      BY <1>1, <3>2 DEF Readers
    <3>3. QED  BY <3>1, <3>2 DEF Wrote
  <2>12. QED  BY <2>4, <2>7, <2>10, <2>11, EngineStream
<1>5. QED  BY <1>3, <1>4

LEMMA RelaunchStream ==
    ASSUME BaseInv, StreamInv, NEW a \in Attempts, Relaunch(a) PROVE StreamInv'
<1>1. /\ at = "free" /\ at' = "launch"
      /\ UNCHANGED <<j, fs, disk, con, mode, due, born, lost>>
  BY TakeOK DEF Relaunch
<1>2. Serving /\ Serving' /\ Mine' = Mine  BY <1>1 DEF Serving, Mine
<1>3. QED  BY <1>1, <1>2, OtherStream

LEMMA HarnessEventStream ==
    ASSUME BaseInv, HistInv, BaseInv', HistInv', StreamInv,
           NEW a \in Attempts, NEW kind \in Kinds, HarnessEvent(a, kind)
    PROVE  StreamInv'
<1>1. /\ at = "free" /\ j[a].phase \in Owned /\ UNCHANGED <<disk, mode, due, lost>>
  BY DEF HarnessEvent, Owned
<1>2. PICK r \in Results(a, j[a], kind, mode) :
        /\ Wrote(a, r)
        /\ \/ /\ r.ok /\ Take(a, "eventsave")
              /\ Patch(a, [r.m EXCEPT !.phase = IF kind = "ask" THEN "parked" ELSE "live"])
           \/ ~r.ok /\ Take(a, "failing") /\ Patch(a, r.m)
  BY DEF HarnessEvent
<1>3. r.m \in Mems /\ r.m.phase = j[a].phase
  BY <1>1, <1>2, HandlerFacts, Appended DEF Extends
<1>4. PICK m1 \in Mems : /\ m1.off = r.m.off /\ m1.cache = r.m.cache /\ m1.phase \in Owned
                         /\ j' = [j EXCEPT ![a] = m1]
  <2>1. CASE Patch(a, [r.m EXCEPT !.phase = IF kind = "ask" THEN "parked" ELSE "live"])
    <3> DEFINE p == IF kind = "ask" THEN "parked" ELSE "live"
               n == [r.m EXCEPT !.phase = p]
    <3>1. p \in Phases /\ p \in Owned  BY DEF Phases, Owned
    <3>2. j' = [j EXCEPT ![a] = n]  BY <2>1 DEF Patch
    <3> HIDE DEF p
    <3>3. n \in Mems /\ n.off = r.m.off /\ n.phase = p /\ n.cache = r.m.cache
      BY <1>3, <3>1 DEF Mems
    <3> HIDE DEF n
    <3>4. QED  BY <3>1, <3>2, <3>3
  <2>2. CASE Patch(a, r.m)  BY <1>1, <1>3, <2>2 DEF Patch
  <2>3. QED  BY <1>2, <2>1, <2>2
<1>5. at' \in {"eventsave", "failing"}  BY <1>2, TakeOK
<1>6. Serving /\ Serving'  BY <1>1, <1>5 DEF Serving
<1>7. j[a] \in Mems /\ SameWriter(j[a], j[a])  BY HandlerFacts
<1>8. QED  BY <1>1, <1>2, <1>4, <1>6, <1>7, AppendStream

LEMMA FailHarnessEventStream ==
    ASSUME BaseInv, HistInv, BaseInv', HistInv', StreamInv, FailHarnessEvent
    PROVE  StreamInv'
<1> DEFINE a == held.who
           m == [j[a] EXCEPT !.phase = "live", !.failed = TRUE]
<1>1. at = "failing" /\ UNCHANGED <<disk, mode, due, lost>>  BY DEF FailHarnessEvent
<1>2. \E r \in Results(a, m, "progress", mode) : Wrote(a, r) /\ Patch(a, r.m) /\ Take(a, "save")
  BY DEF FailHarnessEvent
<1>3. a \in Attempts /\ j[a].phase \in Owned
  BY <1>1, TypeParts DEF BaseInv, Helds, Goes
<1>4. m \in Mems /\ SameWriter(m, j[a]) /\ m.phase = "live"  BY <1>3, HandlerFacts, EditFailed
<1> HIDE DEF m, a
<1>5. PICK r \in Results(a, m, "progress", mode) :
        Wrote(a, r) /\ Patch(a, r.m) /\ Take(a, "save")
  BY <1>2
<1>6. r.m \in Mems /\ r.m.phase = m.phase /\ "progress" \in Kinds
  BY <1>1, <1>3, <1>4, <1>5, HandlerFacts, Appended DEF Extends
<1>7. r.m.phase \in Owned /\ j' = [j EXCEPT ![a] = r.m]  BY <1>4, <1>5, <1>6 DEF Owned, Patch
<1>8. at' = "save"  BY <1>3, <1>5, TakeOK
<1>9. Serving /\ Serving'  BY <1>1, <1>8 DEF Serving
<1>10. QED  BY <1>1, <1>3, <1>4, <1>5, <1>6, <1>7, <1>9, AppendStream

LEMMA RequestStream ==
    ASSUME BaseInv, HistInv, BaseInv', HistInv', StreamInv,
           NEW a \in Attempts, NEW kind \in {"progress", "ask"}, Request(a, kind)
    PROVE  StreamInv'
<1> DEFINE p == IF kind = "ask" THEN "parked" ELSE "live"
           m == [j[a] EXCEPT !.phase = p, !.failed = FALSE]
<1>1. /\ at = "free" /\ j[a].phase \in Owned /\ UNCHANGED <<disk, mode, due, lost>>
      /\ \E r \in Results(a, m, kind, mode) :
            /\ Wrote(a, r) /\ Patch(a, r.m)
            /\ Take(a, IF ~r.ok THEN "free" ELSE IF j[a].running THEN "save" ELSE "launch")
  BY DEF Request, Owned
<1>2. p \in Phases /\ p \in Owned /\ kind \in Kinds  BY DEF Phases, Owned, Kinds
<1> HIDE DEF p
<1>3. j[a] \in Mems /\ FALSE \in BOOLEAN  BY HandlerFacts
<1>4. m \in Mems /\ SameWriter(m, j[a]) /\ m.phase = p  BY <1>2, <1>3, EditFailed, Zenon
<1> HIDE DEF m
<1>5. PICK r \in Results(a, m, kind, mode) :
        /\ Wrote(a, r) /\ Patch(a, r.m)
        /\ Take(a, IF ~r.ok THEN "free" ELSE IF j[a].running THEN "save" ELSE "launch")
  BY <1>1
<1>6. r.m \in Mems /\ r.m.phase = m.phase
  BY <1>1, <1>2, <1>4, <1>5, HandlerFacts, Appended DEF Extends
<1>7. r.m.phase \in Owned /\ j' = [j EXCEPT ![a] = r.m]  BY <1>2, <1>4, <1>5, <1>6 DEF Patch
<1>8. at' \in {"free", "save", "launch"}
  <2>1. at' = IF ~r.ok THEN "free" ELSE IF j[a].running THEN "save" ELSE "launch"
    BY <1>5, TakeOK
  <2>2. QED  BY <2>1
<1>9. Serving /\ Serving'  BY <1>1, <1>8 DEF Serving
<1>10. QED  BY <1>1, <1>2, <1>4, <1>5, <1>6, <1>7, <1>9, AppendStream

LEMMA FinishesStream ==
    ASSUME BaseInv, HistInv, BaseInv', HistInv', StreamInv, Serving,
           NEW a \in Attempts, NEW phase \in {"parked", "over"},
           j[a].phase \in Owned, Finishes(a, phase)
    PROVE  StreamInv'
<1> DEFINE m == [j[a] EXCEPT !.phase = phase, !.running = FALSE]
           kind == IF phase = "parked" THEN "ask" ELSE "end"
<1>1. /\ \/ AlreadyRecorded(m, phase) /\ Patch(a, m) /\ UNCHANGED <<fs, con, born>>
         \/ /\ ~AlreadyRecorded(m, phase)
            /\ \E r \in Results(a, m, kind, mode) : Wrote(a, r) /\ Patch(a, r.m)
      /\ Take(a, "save") /\ UNCHANGED <<disk, mode, due, lost>>
  BY DEF Finishes
<1>2. phase \in Phases /\ phase \in Owned /\ kind \in Kinds  BY DEF Phases, Owned, Kinds
<1>3. j[a] \in Mems /\ FALSE \in BOOLEAN /\ at # "down"  BY HandlerFacts DEF Serving
<1>4. m \in Mems /\ SameWriter(m, j[a]) /\ m.phase = phase  BY <1>2, <1>3, EditFinished, Zenon
<1> HIDE DEF m, kind
<1>5. at' = "save" /\ Serving'  BY <1>1, TakeOK DEF Serving
<1>6. CASE Patch(a, m) /\ UNCHANGED <<fs, con, born>>
  <2>1. j \in [Attempts -> Mems] /\ con \in Readers /\ Followed \in Attempts
    BY TypeParts, JournalAssumption DEF BaseInv
  <2>2. Mine \in Mems /\ (Mine' = Mine \/ (Mine = j[a] /\ Mine' = m))
    BY <1>6, <2>1 DEF Mine, Patch
  <2>3. CASE Mine' = Mine  BY <1>1, <1>5, <1>6, <2>3, OtherStream
  <2>4. CASE Mine = j[a] /\ Mine' = m
    <3>1. m.off = Mine.off /\ m.off \in Nat  BY <1>4, <2>4 DEF SameWriter, Mems
    <3>2. m.phase \in Owned /\ Mine.phase # "gone"  BY <1>2, <1>4, <2>4 DEF Owned
    <3>3. Grows(Mine, fs[Followed], Mine', fs'[Followed], Followed \in due')
      BY <1>6, <2>4, <3>1, <3>2 DEF Grows
    <3>4. QED  BY <1>1, <1>5, <1>6, <2>1, <3>3, EngineStream
  <2>5. QED  BY <2>2, <2>3, <2>4
<1>7. CASE \E r \in Results(a, m, kind, mode) : Wrote(a, r) /\ Patch(a, r.m)
  <2>1. PICK r \in Results(a, m, kind, mode) : Wrote(a, r) /\ Patch(a, r.m)  BY <1>7
  <2>2. r.m \in Mems /\ r.m.phase = m.phase
    BY <1>2, <1>3, <1>4, <2>1, Appended DEF Extends
  <2>3. r.m.phase \in Owned /\ j' = [j EXCEPT ![a] = r.m]  BY <1>2, <1>4, <2>1, <2>2 DEF Patch
  <2>4. QED  BY <1>1, <1>2, <1>4, <1>5, <2>1, <2>2, <2>3, AppendStream
<1>8. QED  BY <1>1, <1>6, <1>7

LEMMA ExportStream ==
    ASSUME BaseInv, HistInv, BaseInv', HistInv', StreamInv, NEW a \in Attempts, Export(a)
    PROVE  StreamInv'
<1> DEFINE m == [j[a] EXCEPT !.running = FALSE]
<1>1. /\ at = "free" /\ j[a].phase = "live" /\ UNCHANGED <<disk, mode, due, lost>>
      /\ \E r \in Results(a, m, "progress", ExportFaults) :
            /\ Wrote(a, r) /\ Patch(a, r.m)
            /\ at' = IF r.ok THEN "export" ELSE "exportfailed"
  BY DEF Export
<1>2. m \in Mems /\ SameWriter(m, j[a]) /\ m.phase = "live"  BY <1>1, HandlerFacts, EditRunning
<1> HIDE DEF m
<1>3. PICK r \in Results(a, m, "progress", ExportFaults) :
        /\ Wrote(a, r) /\ Patch(a, r.m)
        /\ at' = IF r.ok THEN "export" ELSE "exportfailed"
  BY <1>1
<1>4. /\ Serving /\ Serving' /\ at # "down" /\ j[a].phase \in Owned /\ "progress" \in Kinds
  BY <1>1, <1>3 DEF Serving, Owned, Kinds
<1>5. r.m \in Mems /\ r.m.phase = m.phase  BY <1>2, <1>3, <1>4, Appended DEF Extends
<1>6. r.m.phase \in Owned /\ j' = [j EXCEPT ![a] = r.m]  BY <1>2, <1>3, <1>5 DEF Patch, Owned
<1>7. QED  BY <1>1, <1>2, <1>3, <1>4, <1>5, <1>6, AppendStream

LEMMA ExportCompletesStream ==
    ASSUME BaseInv, HistInv, BaseInv', HistInv', StreamInv, ExportCompletes
    PROVE  StreamInv'
<1> DEFINE a == held.who
           m == [j[a] EXCEPT !.phase = "over"]
<1>1. /\ at = "export" /\ UNCHANGED <<disk, held, mode, due, lost>>
      /\ \E r \in Results(a, m, "end", ExportFaults) :
            /\ Wrote(a, r)
            /\ Patch(a, IF r.ok THEN r.m ELSE Restored(r.m))
            /\ at' = IF r.ok THEN "exportsave" ELSE "exportfailed"
  BY DEF ExportCompletes
<1>2. a \in Attempts /\ j[a].phase \in Owned
  BY <1>1, TypeParts DEF BaseInv, Helds, Goes
<1>3. m \in Mems /\ SameWriter(m, j[a]) /\ m.phase = "over"  BY <1>2, HandlerFacts, EditPhase
<1> HIDE DEF m, a
<1>4. PICK r \in Results(a, m, "end", ExportFaults) :
        /\ Wrote(a, r)
        /\ Patch(a, IF r.ok THEN r.m ELSE Restored(r.m))
        /\ at' = IF r.ok THEN "exportsave" ELSE "exportfailed"
  BY <1>1
<1>5. Serving /\ Serving' /\ at # "down" /\ "end" \in Kinds  BY <1>1, <1>4 DEF Serving, Kinds
<1>6. r.ok  BY <1>1, <1>2, <1>4, ExportEnds DEF a, m
<1>7. r.m \in Mems /\ r.m.phase = m.phase  BY <1>2, <1>3, <1>4, <1>5, Appended DEF Extends
<1>8. r.m.phase \in Owned /\ j' = [j EXCEPT ![a] = r.m]
  BY <1>3, <1>4, <1>6, <1>7 DEF Patch, Owned
<1>9. QED  BY <1>1, <1>2, <1>3, <1>4, <1>5, <1>7, <1>8, AppendStream

LEMMA AcceptStream ==
    ASSUME BaseInv, HistInv, BaseInv', HistInv', StreamInv, NEW a \in Attempts, Accept(a)
    PROVE  StreamInv'
<1> DEFINE m == [j[a] EXCEPT !.phase = "live"]
           Falls(r) ==
              /\ \E q \in Removed(r.m, r.f, mode) :
                    /\ fs' = [fs EXCEPT ![a] = q.f]
                    /\ Patch(a, [Nothing EXCEPT !.size = q.m.size])
              /\ at' = "free" /\ UNCHANGED con
<1>1. /\ at \in {"free", "purge"} /\ j[a].phase = "none" /\ UNCHANGED <<disk, mode, due, lost>>
      /\ \E r \in Results(a, m, "progress", mode) :
            \/ r.ok /\ Wrote(a, r) /\ Patch(a, r.m) /\ Take(a, "launch")
            \/ Falls(r)
  BY DEF Accept
<1>2. m \in Mems /\ SameWriter(m, j[a]) /\ m.phase = "live"  BY HandlerFacts, EditPhase
<1> HIDE DEF m
<1>3. PICK r \in Results(a, m, "progress", mode) :
        \/ r.ok /\ Wrote(a, r) /\ Patch(a, r.m) /\ Take(a, "launch")
        \/ Falls(r)
  BY <1>1
<1>4. Serving /\ at # "down" /\ "progress" \in Kinds  BY <1>1 DEF Serving, Kinds
<1>5. CASE r.ok /\ Wrote(a, r) /\ Patch(a, r.m) /\ Take(a, "launch")
  <2>1. r.m \in Mems /\ r.m.phase = m.phase
    BY <1>2, <1>4, <1>5, Appended DEF Extends
  <2>2. r.m.phase \in Owned /\ j' = [j EXCEPT ![a] = r.m]  BY <1>2, <1>5, <2>1 DEF Patch, Owned
  <2>3. at' = "launch" /\ Serving'  BY <1>5, TakeOK DEF Serving
  <2>4. QED  BY <1>1, <1>2, <1>4, <1>5, <2>1, <2>2, <2>3, AppendStream
<1>6. CASE Falls(r)
  <2>1. PICK q \in Removed(r.m, r.f, mode) :
          fs' = [fs EXCEPT ![a] = q.f] /\ Patch(a, [Nothing EXCEPT !.size = q.m.size])
    BY <1>6
  <2> DEFINE m1 == [Nothing EXCEPT !.size = q.m.size]
  <2>2. j' = [j EXCEPT ![a] = m1]  BY <2>1 DEF Patch
  <2> HIDE DEF m1
  <2>3. /\ j \in [Attempts -> Mems] /\ fs \in [Attempts -> Files] /\ con \in Readers
        /\ Followed \in Attempts /\ Serving' /\ con' = con
    BY <1>6, TypeParts, JournalAssumption DEF BaseInv, Serving
  <2>4. CASE a # Followed
    <3>1. Mine' = Mine /\ fs'[Followed] = fs[Followed]  BY <2>1, <2>2, <2>3, <2>4 DEF Mine
    <3>2. QED  BY <1>1, <1>4, <2>3, <3>1, OtherStream
  <2>5. CASE a = Followed
    <3>1. Mine.phase = "none"  BY <1>1, <2>5 DEF Mine
    <3>2. Grows(Mine, fs[Followed], Mine', fs'[Followed], Followed \in due')
      BY <3>1 DEF Grows, Owned
    <3>3. QED  BY <1>1, <1>4, <2>3, <3>2, EngineStream
  <2>6. QED  BY <2>4, <2>5
<1>7. QED  BY <1>3, <1>5, <1>6

LEMMA SavedStream ==
    ASSUME BaseInv, StreamInv, Serving, Serving', UNCHANGED <<con, due, lost>>,
           fs' = fs \/ fs' = SyncedFiles,
           \A a \in Attempts : j'[a].phase = j[a].phase /\ j'[a].off = j[a].off
    PROVE  StreamInv'
<1>1. /\ j \in [Attempts -> Mems] /\ fs \in [Attempts -> Files] /\ con \in Readers
      /\ Followed \in Attempts
  BY TypeParts, JournalAssumption DEF BaseInv
<1>2. fs'[Followed].data = fs[Followed].data  BY <1>1, SyncedFilesOK
<1>3. Mine'.phase = Mine.phase /\ Mine'.off = Mine.off /\ Mine.off \in Nat
  BY <1>1 DEF Mine, Mems
<1>4. Grows(Mine, fs[Followed], Mine', fs'[Followed], Followed \in due')
  BY <1>2, <1>3 DEF Grows
<1>5. QED  BY <1>1, <1>4, EngineStream

LEMMA PersistStream == ASSUME BaseInv, StreamInv, Persist PROVE StreamInv'
<1>1. /\ at \in {"purge", "launch", "save", "eventsave", "exportsave"}
      /\ fs' = SyncedFiles /\ j' = AfterSave
      /\ at' = "free" /\ UNCHANGED <<con, due, lost>>
  BY DEF Persist, SaveOk
<1>2. Serving /\ Serving' /\ j \in [Attempts -> Mems]  BY <1>1, TypeParts DEF Serving, BaseInv
<1>3. \A a \in Attempts : j'[a].phase = j[a].phase /\ j'[a].off = j[a].off
  BY <1>1, <1>2, AfterSaveOK
<1>4. QED  BY <1>1, <1>2, <1>3, SavedStream

LEMMA PersistFailsStream == ASSUME BaseInv, HistInv, StreamInv, PersistFails PROVE StreamInv'
<1>1. "export" \notin mode /\ at # "exportsave"  BY DEF HistInv, Apart, PersistFails
<1>2. /\ at \in {"purge", "launch", "save", "eventsave"} /\ SaveFails(j)
      /\ at' \in {"failing", "free"} /\ UNCHANGED <<con, due, lost>>
  BY <1>1 DEF PersistFails
<1>3. Serving /\ Serving'  BY <1>2 DEF Serving
<1>4. j \in [Attempts -> Mems]  BY TypeParts DEF BaseInv
<1>5. CASE UNCHANGED <<fs, disk>> /\ j' = j  BY <1>2, <1>3, <1>5, SavedStream
<1>6. CASE fs' = SyncedFiles /\ j' = [a \in Attempts |-> [j[a] EXCEPT !.dirty = FALSE]]
  <2>1. ASSUME NEW a \in Attempts PROVE j'[a].phase = j[a].phase /\ j'[a].off = j[a].off
    <3>1. j[a] \in Mems /\ j'[a] = [j[a] EXCEPT !.dirty = FALSE]  BY <1>4, <1>6
    <3>2. QED  BY <3>1 DEF Mems
  <2>2. QED  BY <1>2, <1>3, <1>6, <2>1, SavedStream
<1>7. QED  BY <1>2, <1>5, <1>6 DEF SaveFails

\* A record that the state file commits stays committed.
LEMMA CommittedHolds ==
    ASSUME NEW d \in Disks, NEW f \in Files, DiskOK(d, f, FALSE),
           NEW dd \in Disks, NEW ff \in Files, DiskOK(dd, ff, FALSE),
           KeepsCommitted(d, f, dd, ff), dd.phase \in Owned, d.off <= dd.off,
           NEW e, Holds(d, f, e)
    PROVE  Holds(dd, ff, e)
<1>1. d.off \in Nat /\ dd.off \in Nat /\ d.phase \in Owned  BY DEF Disks, Holds
<1>2. PICK p \in 1..d.off : f.data[p] = e  BY DEF Holds, Has
<1>3. d.off > 0 /\ dd.off > 0 /\ p \in 1..dd.off  BY <1>1, <1>2
<1>4. f.linked /\ ff.linked  BY <1>1, <1>3 DEF DiskOK
<1>5. \A i \in 1..d.off : ff.data[i] = f.data[i]  BY <1>1, <1>4 DEF KeepsCommitted
<1>6. ff.data[p] = e  BY <1>2, <1>5
<1>7. QED  BY <1>3, <1>6 DEF Holds, Has

\* Without a process there is no stream, and with it no promise but what it has delivered.
LEMMA OffStream ==
    ASSUME BaseInv, StreamInv, con'.at = "off", con'.chan = <<>>, con'.got = con.got,
           con'.last = con.last, ~Serving',
           Followed \notin due' => GotFrom(disk'[Followed], fs'[Followed], con, lost')
    PROVE  StreamInv'
<1>1. StreamOK(con')  BY DEF StreamInv, StreamOK
<1>2. Followed \notin due' => GotFrom(disk'[Followed], fs'[Followed], con', lost')  BY DEF GotFrom
<1>3. QED  BY <1>1, <1>2 DEF StreamInv

\* While the runner starts or is down, the state file says what there is.
LEMMA DownStream ==
    ASSUME BaseInv, HistInv, BaseInv', HistInv', Keeps, StreamInv, ~Serving, ~Serving',
           UNCHANGED <<con, lost>>, due \subseteq due',
           Followed \notin due' /\ disk[Followed].phase \in Owned =>
              disk'[Followed].phase \in Owned /\ disk[Followed].off <= disk'[Followed].off
    PROVE  StreamInv'
<1>1. /\ disk[Followed] \in Disks /\ disk'[Followed] \in Disks
      /\ fs[Followed] \in Files /\ fs'[Followed] \in Files /\ Followed \in Attempts
  BY TypeParts, TypePartsNext, JournalAssumption DEF BaseInv
<1>2. con.at = "off"  BY DEF BaseInv, ReaderOK
<1>3. con'.chan = <<>>  BY <1>2 DEF StreamInv, StreamOK
<1>4. ASSUME Followed \notin due', NEW e, Holds(disk[Followed], fs[Followed], e)
      PROVE  Holds(disk'[Followed], fs'[Followed], e)
  <2>1. /\ DiskOK(disk[Followed], fs[Followed], FALSE)
        /\ DiskOK(disk'[Followed], fs'[Followed], FALSE)
        /\ KeepsCommitted(disk[Followed], fs[Followed], disk'[Followed], fs'[Followed])
    <3>1. /\ DiskOK(disk[Followed], fs[Followed], Followed \in due)
          /\ DiskOK(disk'[Followed], fs'[Followed], Followed \in due')
          /\ KeepsCommitted(disk[Followed], fs[Followed], disk'[Followed], fs'[Followed])
      BY <1>1 DEF HistInv, Keeps
    <3>2. (Followed \in due) = FALSE /\ (Followed \in due') = FALSE  BY <1>4
    <3>3. QED  BY <3>1, <3>2
  <2>2. disk[Followed].phase \in Owned  BY <1>4 DEF Holds
  <2>3. QED  BY <1>1, <1>4, <2>1, <2>2, CommittedHolds
<1>5. ASSUME Followed \notin due' PROVE GotFrom(disk'[Followed], fs'[Followed], con, lost')
  <2>1. GotFrom(disk[Followed], fs[Followed], con, lost)  BY <1>5 DEF StreamInv
  <2>2. QED  BY <1>4, <1>5, <2>1 DEF GotFrom
<1>6. QED  BY <1>2, <1>3, <1>5, OffStream

LEMMA DropStream ==
    ASSUME BaseInv, HistInv, BaseInv', HistInv', Keeps, StreamInv, NEW a \in Attempts, Drop(a)
    PROVE  StreamInv'
<1>1. /\ at \in {"free", "purge", "startsave"} /\ at' = (IF at = "startsave" THEN at ELSE "purge")
      /\ j[a].phase \in {"parked", "over"} /\ due' = due \cup {a}
      /\ UNCHANGED <<disk, con, lost>>
  BY DEF Drop
<1>2. PICK q \in Removed(j[a], fs[a], mode) :
        /\ Patch(a, [Nothing EXCEPT !.phase = "gone", !.size = q.m.size])
        /\ fs' = [fs EXCEPT ![a] = q.f]
  BY DEF Drop
<1>3. /\ j \in [Attempts -> Mems] /\ fs \in [Attempts -> Files] /\ con \in Readers
      /\ WriterOK(j[a], fs[a]) /\ Followed \in Attempts /\ disk[Followed] \in Disks
  BY <1>1, TypeParts, JournalAssumption DEF BaseInv
<1>4. q.f.data = fs[a].data  BY <1>2, <1>3, RemovedOK
<1> DEFINE m1 == [Nothing EXCEPT !.phase = "gone", !.size = q.m.size]
<1>5. m1.phase = "gone" /\ j' = [j EXCEPT ![a] = m1]  BY <1>2 DEF Nothing, Patch
<1> HIDE DEF m1
<1>6. CASE at = "startsave"
  <2>1. ~Serving /\ ~Serving'  BY <1>1, <1>6 DEF Serving
  <2>2. disk[Followed].off <= disk[Followed].off  BY <1>3 DEF Disks
  <2>3. QED  BY <1>1, <2>1, <2>2, DownStream
<1>7. CASE at \in {"free", "purge"}
  <2>1. Serving /\ Serving'  BY <1>1, <1>7 DEF Serving
  <2>2. CASE a # Followed
    <3>1. Mine' = Mine /\ fs'[Followed] = fs[Followed]  BY <1>2, <1>3, <1>5, <2>2 DEF Mine
    <3>2. QED  BY <1>1, <2>1, <3>1, OtherStream
  <2>3. CASE a = Followed
    <3>1. /\ Mine.phase # "gone" /\ Mine'.phase = "gone" /\ Followed \in due'
          /\ fs'[Followed].data = fs[Followed].data
      BY <1>1, <1>2, <1>3, <1>4, <1>5, <2>3 DEF Mine
    <3>2. Grows(Mine, fs[Followed], Mine', fs'[Followed], Followed \in due')
      BY <3>1 DEF Grows
    <3>3. QED  BY <1>1, <1>3, <2>1, <3>2, EngineStream
  <2>4. QED  BY <2>2, <2>3
<1>8. QED  BY <1>1, <1>6, <1>7

LEMMA RecoverStream ==
    ASSUME BaseInv, HistInv, BaseInv', HistInv', Keeps, StreamInv, NEW a \in Attempts, Recover(a)
    PROVE  StreamInv'
<1> DEFINE m == [j[a] EXCEPT !.phase = "parked"]
           outs == IF Room THEN mode ELSE {}
<1>1. /\ at = "starting" /\ at' \in {"starting", "down"} /\ UNCHANGED <<disk, due, lost>>
      /\ \E r \in Results(a, m, "ask", outs) : Wrote(a, r)
  BY DEF Recover
<1>2. ~Serving /\ ~Serving' /\ con.at = "off"  BY <1>1 DEF Serving, BaseInv, ReaderOK
<1>3. con' = con  BY <1>1, <1>2 DEF Wrote
<1>4. disk[Followed].off \in Nat  BY TypeParts, JournalAssumption DEF BaseInv, Disks
<1>5. disk[Followed].off <= disk'[Followed].off  BY <1>1, <1>4
<1>6. QED  BY <1>1, <1>2, <1>3, <1>5, DownStream

LEMMA StartingStream ==
    ASSUME BaseInv, HistInv, BaseInv', HistInv', Keeps, StreamInv, Restart \/ Recovered
    PROVE  StreamInv'
<1>1. /\ at \in {"down", "starting"} /\ at' \in {"starting", "startsave"}
      /\ UNCHANGED <<disk, con, due, lost>>
  BY DEF Restart, Recovered
<1>2. ~Serving /\ ~Serving'  BY <1>1 DEF Serving
<1>3. disk[Followed].off \in Nat  BY TypeParts, JournalAssumption DEF BaseInv, Disks
<1>4. disk[Followed].off <= disk'[Followed].off  BY <1>1, <1>3
<1>5. QED  BY <1>1, <1>2, <1>4, DownStream

\* A start that is done has in memory what the state file has.
LEMMA StartSaveStream ==
    ASSUME BaseInv, HistInv, BaseInv', HistInv', Keeps, StreamInv, StartSave
    PROVE  StreamInv'
<1>1. /\ at = "startsave" /\ UNCHANGED <<con, due, lost>>
      /\ \/ SaveOk /\ at' = "free"
         \/ SaveFails([a \in Attempts |-> Nothing]) /\ at' = "down"
  BY DEF StartSave
<1>2. ~Serving /\ con.at = "off"  BY <1>1 DEF Serving, BaseInv, ReaderOK
<1>3. /\ j \in [Attempts -> Mems] /\ fs \in [Attempts -> Files] /\ Followed \in Attempts
      /\ disk[Followed].off \in Nat /\ j[Followed].off \in Nat /\ j[Followed] \in Mems
  BY TypeParts, JournalAssumption DEF BaseInv, Disks, Mems
<1>4. Followed \notin due /\ disk[Followed].phase \in Owned =>
         j[Followed].phase \in Owned /\ disk[Followed].off <= j[Followed].off
  <2>1. LinkOK(j[Followed], disk[Followed], Followed \in due, Serving)
    BY <1>1, <1>3 DEF HistInv
  <2>2. SUFFICES ASSUME Followed \notin due, disk[Followed].phase \in Owned
                 PROVE  j[Followed].phase \in Owned
    BY <2>1 DEF LinkOK
  <2>3. j[Followed].phase # "none" /\ j[Followed].phase # "gone"
    BY <2>1, <2>2 DEF LinkOK, Owned
  <2>4. j[Followed].phase \in Phases  BY <1>3 DEF Mems
  <2>5. QED  BY <2>3, <2>4 DEF Phases
<1>5. CASE SaveOk /\ at' = "free"
  <2>1. fs' = SyncedFiles /\ j' = AfterSave /\ Serving'  BY <1>5 DEF SaveOk, Serving
  <2>2. fs'[Followed].data = fs[Followed].data  BY <1>3, <2>1, SyncedFilesOK
  <2>3. Mine'.phase = j[Followed].phase /\ Mine'.off = j[Followed].off
    BY <1>3, <2>1, AfterSaveOK DEF Mine
  <2>4. StreamOK(con') /\ SourceOK(Mine', fs'[Followed], con')
    BY <1>1, <1>2 DEF StreamInv, StreamOK, SourceOK
  <2>5. ASSUME Followed \notin due', NEW e, Holds(disk[Followed], fs[Followed], e)
        PROVE  Holds(Mine', fs'[Followed], e)
    <3>1. disk[Followed].phase \in Owned /\ Has(disk[Followed], fs[Followed], e)
      BY <2>5 DEF Holds
    <3>2. Mine'.phase \in Owned /\ disk[Followed].off <= Mine'.off /\ Mine'.off \in Nat
      BY <1>1, <1>3, <1>4, <2>3, <2>5, <3>1
    <3>3. Has(Mine', fs'[Followed], e)  BY <1>3, <2>2, <3>1, <3>2, HasKept
    <3>4. QED  BY <3>2, <3>3 DEF Holds
  <2>6. ASSUME Followed \notin due' PROVE GotFrom(Mine', fs'[Followed], con', lost')
    <3>1. GotFrom(disk[Followed], fs[Followed], con, lost)  BY <1>1, <1>2, <2>6 DEF StreamInv
    <3>2. QED  BY <1>1, <2>5, <2>6, <3>1 DEF GotFrom
  <2>7. QED  BY <2>1, <2>4, <2>6 DEF StreamInv
<1>6. CASE SaveFails([a \in Attempts |-> Nothing]) /\ at' = "down"
  <2>1. ~Serving' /\ (disk' = disk \/ disk' = Image)  BY <1>6 DEF Serving, SaveFails
  <2>2. Image[Followed].phase = j[Followed].phase /\ Image[Followed].off = j[Followed].off
    BY <1>3, ImageOK
  <2>3. disk[Followed].off <= disk[Followed].off  BY <1>3
  <2>4. QED  BY <1>1, <1>2, <1>4, <2>1, <2>2, <2>3, DownStream
<1>7. QED  BY <1>1, <1>5, <1>6

\* What the consumer got and the state file has not, the observer records as lost.
LEMMA CrashStream ==
    ASSUME BaseInv, HistInv, BaseInv', HistInv', Keeps, StreamInv, Crash
    PROVE  StreamInv'
<1>1. /\ at' = "down" /\ con' = Closed(con) /\ UNCHANGED <<disk, due>>
      /\ lost' = lost \cup (ToSet(con.got) \ ToSet(Committed[Followed]))
  BY DEF Crash
<1>2. /\ con \in Readers /\ Followed \in Attempts /\ disk[Followed] \in Disks
      /\ fs[Followed] \in Files /\ fs'[Followed] \in Files
  BY TypeParts, TypePartsNext, JournalAssumption DEF BaseInv
<1>3. /\ con'.at = "off" /\ con'.got = con.got /\ con'.last = con.last /\ ~Serving'
      /\ con'.chan = <<>>
  BY <1>1, <1>2, ClosedOK DEF Serving, Closed, Readers
<1>4. ASSUME Followed \notin due', NEW i \in 1..Len(con.got)
      PROVE  con.got[i] \in lost' \/ Holds(disk'[Followed], fs'[Followed], con.got[i])
  <2> DEFINE e == con.got[i]
             d == disk[Followed]
             f == fs[Followed]
  <2>1. e \in ToSet(con.got)
    <3>1. con.got \in Seq(Events) /\ DOMAIN con.got = 1..Len(con.got)  BY <1>2 DEF Readers
    <3>2. QED  BY <3>1 DEF ToSet
  <2>2. CASE e \notin ToSet(Committed[Followed])  BY <1>1, <2>1, <2>2
  <2>3. CASE e \in ToSet(Committed[Followed])
    <3>1. /\ DiskOK(d, f, FALSE) /\ DiskOK(disk'[Followed], fs'[Followed], FALSE)
          /\ KeepsCommitted(d, f, disk'[Followed], fs'[Followed])
      <4>1. /\ DiskOK(d, f, Followed \in due)
            /\ DiskOK(disk'[Followed], fs'[Followed], Followed \in due')
            /\ KeepsCommitted(d, f, disk'[Followed], fs'[Followed])
        BY <1>2 DEF HistInv, Keeps
      <4>2. (Followed \in due) = FALSE /\ (Followed \in due') = FALSE  BY <1>1, <1>4
      <4>3. QED  BY <4>1, <4>2
    <3>2. Committed[Followed] = Prefix(d, f)  BY <1>2, CommittedPrefix
    <3>3. PICK k \in DOMAIN Prefix(d, f) : Prefix(d, f)[k] = e  BY <2>3, <3>2 DEF ToSet
    <3>4. d.phase \in Owned /\ f.linked
      <4>1. CASE ~(d.phase \in Owned /\ f.linked)
        <5>1. Prefix(d, f) = <<>>  BY <4>1, Zenon DEF Prefix
        <5>2. \A q : q \notin DOMAIN <<>>  OBVIOUS
        <5>3. QED  BY <3>3, <5>1, <5>2
      <4>2. QED  BY <4>1
    <3>5. /\ Prefix(d, f) \in Seq(Events) /\ Len(Prefix(d, f)) = d.off
          /\ \A p \in 1..d.off : Prefix(d, f)[p] = f.data[p]
      BY <1>2, <3>1, <3>4, PrefixOK
    <3>6. k \in 1..d.off /\ f.data[k] = e  BY <3>3, <3>5
    <3>7. Holds(d, f, e)  BY <3>4, <3>6 DEF Holds, Has
    <3>8. disk'[Followed] = d /\ d.off <= d.off  BY <1>1, <1>2 DEF Disks
    <3>9. Holds(disk'[Followed], fs'[Followed], e)
      BY <1>2, <3>1, <3>4, <3>7, <3>8, CommittedHolds
    <3>10. QED  BY <3>9
  <2>4. QED  BY <2>2, <2>3
<1>5. Followed \notin due' => GotFrom(disk'[Followed], fs'[Followed], con, lost')
  BY <1>4 DEF GotFrom
<1>6. QED  BY <1>3, <1>5, OffStream

-----------------------------------------------------------------------------
(* The steps of the stream                                                 *)

\* The stream alone goes on: what it adds to the delivered events is in the journal.
LEMMA StreamAlone ==
    ASSUME StreamInv, Serving, UNCHANGED <<fs, at, due, lost>>,
           Mine'.phase = Mine.phase, Mine'.off = Mine.off,
           StreamOK(con'), SourceOK(Mine, fs[Followed], con'),
           \A i \in 1..Len(con'.got) :
              \/ i \in 1..Len(con.got) /\ con'.got[i] = con.got[i]
              \/ Followed \notin due => Holds(Mine, fs[Followed], con'.got[i])
    PROVE  StreamInv'
<1>1. Serving'  BY DEF Serving
<1>2. SourceOK(Mine', fs'[Followed], con')  BY DEF SourceOK, Has
<1>3. ASSUME Followed \notin due' PROVE GotFrom(Mine', fs'[Followed], con', lost')
  <2>1. GotFrom(Mine, fs[Followed], con, lost)  BY <1>3 DEF StreamInv
  <2>2. SUFFICES ASSUME NEW i \in 1..Len(con'.got)
                 PROVE  con'.got[i] \in lost \/ Holds(Mine, fs[Followed], con'.got[i])
    BY DEF GotFrom, Holds, Has
  <2>3. CASE i \in 1..Len(con.got) /\ con'.got[i] = con.got[i]  BY <2>1, <2>3 DEF GotFrom
  <2>4. CASE Followed \notin due => Holds(Mine, fs[Followed], con'.got[i])  BY <1>3, <2>4
  <2>5. QED  BY <2>2, <2>3, <2>4
<1>4. QED  BY <1>1, <1>2, <1>3 DEF StreamInv

\* The event that is due is delivered.
LEMMA DeliverStream ==
    ASSUME BaseInv, HistInv, StreamInv, Serving, con.at # "off",
           NEW e \in Events, e.cur = con.last + 1,
           Mine.phase \in Owned => Has(Mine, fs[Followed], e)
    PROVE  LET got == Append(con.got, e) IN
           /\ \A i \in 1..(Len(got) - 1) : got[i + 1].cur = got[i].cur + 1
           /\ got[Len(got)].cur = e.cur
           /\ \A i \in 1..Len(got) :
                 \/ i \in 1..Len(con.got) /\ got[i] = con.got[i]
                 \/ Followed \notin due => Holds(Mine, fs[Followed], got[i])
<1> DEFINE s == con.got
           got == Append(s, e)
<1>1. s \in Seq(Events) /\ Followed \in Attempts /\ con.last \in Nat
  BY TypeParts, JournalAssumption DEF BaseInv, Readers
<1>2. /\ Len(s) \in Nat /\ Len(got) = Len(s) + 1 /\ got[Len(s) + 1] = e
      /\ \A i \in 1..Len(s) : got[i] = s[i]
  BY <1>1
<1>3. /\ \A i \in 1..(Len(s) - 1) : s[i + 1].cur = s[i].cur + 1
      /\ Len(s) # 0 => s[Len(s)].cur = con.last
  <2>1. Len(s) # 0 => s # <<>>  BY <1>1, EmptySeq
  <2>2. QED  BY <2>1 DEF StreamInv, StreamOK
<1>4. Followed \notin due => Holds(Mine, fs[Followed], e)
  <2>1. SUFFICES ASSUME Followed \notin due PROVE Mine.phase \in Owned  BY DEF Holds
  <2>2. Mine.phase \in Owned \cup {"gone"}  BY DEF BaseInv, ReaderOK, Mine
  <2>3. LinkOK(j[Followed], disk[Followed], Followed \in due, Serving)
    BY <1>1 DEF HistInv, Serving
  <2>4. QED  BY <2>1, <2>2, <2>3 DEF LinkOK, Mine
<1> HIDE DEF s, got
<1>5. ASSUME NEW i \in 1..(Len(got) - 1) PROVE got[i + 1].cur = got[i].cur + 1
  <2>1. i \in 1..Len(s) /\ got[i] = s[i]  BY <1>2, <1>5
  <2>2. CASE i = Len(s)  BY <1>2, <1>3, <2>1, <2>2
  <2>3. CASE i # Len(s)
    <3>1. i \in 1..(Len(s) - 1) /\ i + 1 \in 1..Len(s)  BY <1>2, <2>1, <2>3
    <3>2. QED  BY <1>2, <1>3, <2>1, <3>1
  <2>4. QED  BY <2>2, <2>3
<1>6. ASSUME NEW i \in 1..Len(got)
      PROVE  \/ i \in 1..Len(s) /\ got[i] = s[i]
             \/ Followed \notin due => Holds(Mine, fs[Followed], got[i])
  <2>1. i \in 1..Len(s) \/ i = Len(s) + 1  BY <1>2, <1>6
  <2>2. QED  BY <1>2, <1>4, <2>1
<1>7. got[Len(got)].cur = e.cur  BY <1>2
<1>8. QED  BY <1>5, <1>6, <1>7 DEF got, s

LEMMA ClosedStream ==
    ASSUME BaseInv, StreamInv, con.at # "off", con' = Closed(con),
           UNCHANGED <<j, fs, disk, at, held, mode, due, born, lost>>
    PROVE  StreamInv'
<1>1. con \in Readers /\ Serving  BY TypeParts DEF BaseInv, ReaderOK
<1>2. /\ con'.at = "off" /\ con'.got = con.got /\ con'.last = con.last /\ con'.chan = <<>>
  BY <1>1, ClosedOK DEF Closed, Readers
<1>3. StreamOK(con') /\ SourceOK(Mine, fs[Followed], con')
  BY <1>2 DEF StreamInv, StreamOK, SourceOK
<1>4. Mine' = Mine  BY DEF Mine
<1>5. QED  BY <1>1, <1>2, <1>3, <1>4, StreamAlone

\* A replay sends the record it has read when the next one follows it.
LEMMA ReplayNextStream ==
    ASSUME BaseInv, HistInv, StreamInv, ReplayNext PROVE StreamInv'
<1> DEFINE e == File[con.pos]
           n == con.pos + 1
           D == Deliver(con, e)
           c == con
<1>1. /\ con.at = "replay" /\ UNCHANGED <<j, fs, disk, at, held, mode, due, born, lost>>
      /\ con' = IF e.cur = con.through THEN [D EXCEPT !.at = "cache"]
                ELSE IF n <= con.bytes /\ n <= Len(File) /\ File[n].cur = e.cur + 1
                THEN [D EXCEPT !.pos = n] ELSE Closed(con)
  BY DEF ReplayNext
<1>2. /\ con \in Readers /\ File \in Seq(Events) /\ Mine \in Mems /\ con.events \in Seq(Events)
      /\ con.last \in Nat /\ Serving /\ Mine.off \in Nat
  BY <1>1, TypeParts, JournalAssumption DEF BaseInv, ReaderOK, File, Files, Mine, Mems, Readers
<1>3. /\ con.pos \in 1..con.bytes /\ con.pos <= Len(File) /\ con.bytes \in Nat
      /\ Mine.phase \in Owned => con.bytes <= Mine.off
  BY <1>1, <1>2 DEF BaseInv, ReaderOK, Readers
<1>4. e \in Events /\ n \in Nat
  <2>1. con.pos \in 1..Len(File)  BY <1>2, <1>3
  <2>2. QED  BY <1>2, <2>1, ElementOfSeq
<1>5. e.cur = con.last + 1 /\ e.cur \in Nat
  BY <1>1, <1>2, <1>4 DEF StreamInv, SourceOK, File, Events
<1>6. Mine.phase \in Owned => Has(Mine, fs[Followed], e)
  <2>1. Mine.phase \in Owned => con.pos \in 1..Mine.off  BY <1>2, <1>3
  <2>2. QED  BY <2>1 DEF Has, File
<1>7. /\ con.events # <<>> /\ Row(con.events) /\ con.through = con.events[Len(con.events)].cur
      /\ Mine.phase \in Owned =>
            /\ \A k \in 1..Len(con.events) : Has(Mine, fs[Followed], con.events[k])
            /\ \A k \in 1..Len(con.chan) : Has(Mine, fs[Followed], con.chan[k])
  BY <1>1, <1>2 DEF StreamInv, StreamOK, SourceOK
<1> DEFINE got == Append(con.got, e)
<1>8. /\ \A i \in 1..(Len(got) - 1) : got[i + 1].cur = got[i].cur + 1
      /\ got[Len(got)].cur = e.cur
      /\ \A i \in 1..Len(got) :
            \/ i \in 1..Len(con.got) /\ got[i] = con.got[i]
            \/ Followed \notin due => Holds(Mine, fs[Followed], got[i])
  BY <1>1, <1>2, <1>4, <1>5, <1>6, DeliverStream
<1>9. /\ D \in Readers /\ D.last = e.cur /\ D.got = got /\ D.at = con.at
      /\ D.through = con.through /\ D.events = con.events /\ D.chan = con.chan
  BY <1>2, <1>4, DeliverOK
<1> HIDE DEF D, e, got, n
<1>10. Mine' = Mine  BY <1>1 DEF Mine
<1>11. CASE con' = [D EXCEPT !.at = "cache"] /\ e.cur = con.through
  <2>1. /\ con'.at = "cache" /\ con'.last = e.cur /\ con'.got = got
        /\ con'.events = con.events /\ con'.chan = con.chan
    BY <1>9, <1>11 DEF Readers
  <2>2. con.events[1].cur <= e.cur + 1
    <3> DEFINE l == Len(con.events)
    <3>1. l \in Nat /\ l >= 1  BY <1>2, <1>7, EmptySeq
    <3>2. l \in 1..l /\ 1 \in 1..l  BY <3>1
    <3>3. con.events[l].cur = con.events[1].cur + (l - 1)  BY <1>7, <3>2 DEF Row
    <3>4. con.events[1] \in Events  BY <1>2, <3>2, ElementOfSeq
    <3>5. con.events[1].cur \in Nat /\ con.events[l].cur = e.cur  BY <1>7, <1>11, <3>4 DEF Events
    <3> HIDE DEF l
    <3>6. QED  BY <1>5, <3>1, <3>3, <3>5
  <2>3. StreamOK(con')  BY <1>7, <1>8, <2>1, <2>2 DEF StreamOK
  <2>4. SourceOK(Mine, fs[Followed], con')  BY <1>7, <2>1 DEF SourceOK
  <2>5. QED  BY <1>1, <1>2, <1>8, <1>10, <2>1, <2>3, <2>4, StreamAlone
<1>12. CASE con' = [D EXCEPT !.pos = n] /\ File[n].cur = e.cur + 1
  <2>1. /\ con'.at = "replay" /\ con'.last = e.cur /\ con'.got = got /\ con'.pos = n
        /\ con'.events = con.events /\ con'.chan = con.chan /\ con'.through = con.through
    BY <1>1, <1>9, <1>12 DEF Readers
  <2>2. StreamOK(con')  BY <1>7, <1>8, <2>1 DEF StreamOK
  <2>3. SourceOK(Mine, fs[Followed], con')  BY <1>7, <1>12, <2>1 DEF SourceOK, File
  <2>4. QED  BY <1>1, <1>2, <1>8, <1>10, <2>1, <2>2, <2>3, StreamAlone
<1>13. CASE con' = Closed(con)  BY <1>1, <1>13, ClosedStream
<1>14. QED  BY <1>1, <1>11, <1>12, <1>13

\* The cached events leave no gap behind what the consumer has.
LEMMA CachedNextStream ==
    ASSUME BaseInv, HistInv, StreamInv, CachedNext PROVE StreamInv'
<1> DEFINE rest == {i \in DOMAIN con.events : con.events[i].cur > con.last}
<1>1. /\ con.at = "cache" /\ UNCHANGED <<j, fs, disk, at, held, mode, due, born, lost>>
      /\ con' = IF rest # {} THEN Deliver(con, con.events[Min(rest)])
                ELSE IF con.over THEN Closed(con) ELSE [con EXCEPT !.at = "live"]
  BY DEF CachedNext
<1>2. /\ con \in Readers /\ con.events \in Seq(Events) /\ con.last \in Nat /\ Serving
      /\ DOMAIN con.events = 1..Len(con.events) /\ Len(con.events) \in Nat
  BY <1>1, TypeParts DEF BaseInv, ReaderOK, Readers
<1>3. /\ con.events # <<>> /\ Row(con.events) /\ con.events[1].cur <= con.last + 1
      /\ Mine.phase \in Owned =>
            /\ \A k \in 1..Len(con.events) : Has(Mine, fs[Followed], con.events[k])
            /\ \A k \in 1..Len(con.chan) : Has(Mine, fs[Followed], con.chan[k])
  BY <1>1, <1>2 DEF StreamInv, StreamOK, SourceOK
<1>4. Mine' = Mine  BY <1>1 DEF Mine
<1>5. \A k \in 1..Len(con.events) : con.events[k].cur \in Nat
  <2>1. ASSUME NEW k \in 1..Len(con.events) PROVE con.events[k] \in Events
    BY <1>2, ElementOfSeq
  <2>2. QED  BY <2>1 DEF Events
<1>6. CASE rest # {} /\ con' = Deliver(con, con.events[Min(rest)])
  <2>1. rest \subseteq Nat  BY <1>2
  <2>2. Min(rest) \in rest /\ \A k \in rest : Min(rest) <= k  BY <1>6, <2>1, NatMin
  <2> DEFINE i == Min(rest)
             e == con.events[i]
             got == Append(con.got, e)
  <2>3. i \in 1..Len(con.events) /\ e.cur > con.last  BY <1>2, <2>2
  <2>4. e \in Events  BY <1>2, <2>3, ElementOfSeq
  <2>5. \A k \in 1..Len(con.events) : k < i => con.events[k].cur <= con.last
    <3>1. ASSUME NEW k \in 1..Len(con.events), k < i, con.events[k].cur > con.last PROVE FALSE
      <4>1. k \in rest  BY <1>2, <3>1
      <4>2. i <= k /\ i \in Nat /\ k \in Nat  BY <2>1, <2>2, <4>1
      <4>3. QED  BY <3>1, <4>2
    <3>2. QED  BY <1>2, <1>5, <3>1
  <2>6. con' = Deliver(con, e)  BY <1>6
  <2> HIDE DEF i
  <2>7. e.cur = con.last + 1
    <3>1. CASE i = 1  BY <1>2, <1>3, <1>5, <2>3, <3>1
    <3>2. CASE i # 1
      <4> DEFINE k == i - 1
      <4>1. k \in 1..Len(con.events) /\ k < i /\ i = k + 1 /\ k \in Nat  BY <1>2, <2>3, <3>2
      <4>2. con.events[k].cur <= con.last  BY <2>5, <4>1
      <4>3. /\ con.events[i].cur = con.events[1].cur + (i - 1)
            /\ con.events[k].cur = con.events[1].cur + (k - 1)
        BY <1>3, <2>3, <4>1 DEF Row
      <4>4. 1 \in 1..Len(con.events) /\ con.events[1].cur \in Nat  BY <1>2, <1>5, <2>3
      <4>5. i \in Nat /\ e.cur \in Nat /\ con.events[k].cur \in Nat /\ con.events[i] = e
        BY <1>2, <1>5, <2>3, <4>1
      <4> HIDE DEF k, e
      <4>6. e.cur = con.events[k].cur + 1  BY <4>1, <4>3, <4>4, <4>5
      <4>7. QED  BY <1>2, <2>3, <4>2, <4>5, <4>6
    <3>3. QED  BY <3>1, <3>2
  <2>8. Mine.phase \in Owned => Has(Mine, fs[Followed], e)  BY <1>3, <2>3
  <2>9. /\ \A k \in 1..(Len(got) - 1) : got[k + 1].cur = got[k].cur + 1
        /\ got[Len(got)].cur = e.cur
        /\ \A k \in 1..Len(got) :
              \/ k \in 1..Len(con.got) /\ got[k] = con.got[k]
              \/ Followed \notin due => Holds(Mine, fs[Followed], got[k])
    BY <1>1, <1>2, <2>4, <2>7, <2>8, DeliverStream
  <2> HIDE DEF e
  <2>10. /\ con'.last = e.cur /\ con'.got = got /\ con'.at = con.at
         /\ con'.events = con.events /\ con'.chan = con.chan
    BY <1>2, <2>4, <2>6, DeliverOK
  <2> HIDE DEF got
  <2>11. con.events[1].cur <= con'.last + 1
    <3>1. con.events[1].cur \in Nat  BY <1>2, <1>5, <2>3
    <3>2. QED  BY <1>2, <1>3, <2>7, <2>10, <3>1
  <2>12. StreamOK(con')  BY <1>1, <1>3, <2>9, <2>10, <2>11 DEF StreamOK
  <2>13. SourceOK(Mine, fs[Followed], con')  BY <1>1, <1>3, <2>10 DEF SourceOK
  <2>14. QED  BY <1>1, <1>2, <1>4, <2>9, <2>10, <2>12, <2>13, StreamAlone
<1>7. CASE con' = Closed(con)  BY <1>1, <1>7, ClosedStream
<1>8. CASE con' = [con EXCEPT !.at = "live"]
  <2>1. /\ con'.at = "live" /\ con'.last = con.last /\ con'.got = con.got
        /\ con'.events = con.events /\ con'.chan = con.chan
    BY <1>2, <1>8 DEF Readers
  <2>2. StreamOK(con')  BY <2>1 DEF StreamInv, StreamOK
  <2>3. SourceOK(Mine, fs[Followed], con')  BY <1>3, <2>1 DEF SourceOK
  <2>4. QED  BY <1>1, <1>2, <1>4, <2>1, <2>2, <2>3, StreamAlone
<1>9. QED  BY <1>1, <1>6, <1>7, <1>8

\* Only a live event that follows the last one is delivered.
LEMMA LiveNextStream ==
    ASSUME BaseInv, HistInv, StreamInv, LiveNext PROVE StreamInv'
<1> DEFINE e == Head(con.chan)
           c == [con EXCEPT !.chan = Tail(@)]
           got == Append(con.got, e)
<1>1. /\ con.at = "live" /\ con.chan # <<>>
      /\ UNCHANGED <<j, fs, disk, at, held, mode, due, born, lost>>
      /\ con' = IF e.cur <= con.last THEN c
                ELSE IF e.cur = con.last + 1 THEN Deliver(c, e) ELSE Closed(con)
  BY DEF LiveNext, LiveResult
<1>2. con \in Readers /\ con.chan \in Seq(Events) /\ Serving
  BY <1>1, TypeParts DEF BaseInv, ReaderOK, Readers
<1>3. /\ c \in Readers /\ c.at = con.at /\ c.last = con.last /\ c.got = con.got
      /\ c.events = con.events /\ c.chan = Tail(con.chan) /\ e \in Events
  BY <1>1, <1>2, PoppedOK
<1>4. Mine' = Mine  BY <1>1 DEF Mine
<1>5. Mine.phase \in Owned =>
         /\ \A k \in 1..Len(con.events) : Has(Mine, fs[Followed], con.events[k])
         /\ \A k \in 1..Len(con.chan) : Has(Mine, fs[Followed], con.chan[k])
  BY <1>1, <1>2 DEF StreamInv, SourceOK
<1>6. /\ Len(con.chan) \in Nat /\ Len(con.chan) >= 1 /\ e = con.chan[1]
      /\ Len(Tail(con.chan)) = Len(con.chan) - 1
      /\ \A k \in 1..Len(Tail(con.chan)) : Tail(con.chan)[k] = con.chan[k + 1]
  BY <1>1, <1>2, EmptySeq
<1>7. Mine.phase \in Owned =>
         /\ Has(Mine, fs[Followed], e)
         /\ \A k \in 1..Len(c.chan) : Has(Mine, fs[Followed], c.chan[k])
  <2>1. 1 \in 1..Len(con.chan)  BY <1>6
  <2>2. \A k \in 1..Len(c.chan) : k + 1 \in 1..Len(con.chan)  BY <1>3, <1>6
  <2>3. QED  BY <1>3, <1>5, <1>6, <2>1, <2>2
<1> HIDE DEF c, e
<1>8. CASE con' = c
  <2>1. StreamOK(con')  BY <1>1, <1>3, <1>8 DEF StreamInv, StreamOK
  <2>2. SourceOK(Mine, fs[Followed], con')  BY <1>1, <1>3, <1>5, <1>7, <1>8 DEF SourceOK
  <2>3. QED  BY <1>1, <1>2, <1>3, <1>4, <1>8, <2>1, <2>2, StreamAlone
<1>9. CASE con' = Deliver(c, e) /\ e.cur = con.last + 1
  <2>1. /\ \A i \in 1..(Len(got) - 1) : got[i + 1].cur = got[i].cur + 1
        /\ got[Len(got)].cur = e.cur
        /\ \A i \in 1..Len(got) :
              \/ i \in 1..Len(con.got) /\ got[i] = con.got[i]
              \/ Followed \notin due => Holds(Mine, fs[Followed], got[i])
    BY <1>1, <1>2, <1>3, <1>7, <1>9, DeliverStream
  <2>2. /\ con'.last = e.cur /\ con'.got = got /\ con'.at = con.at
        /\ con'.events = con.events /\ con'.chan = c.chan
    BY <1>3, <1>9, DeliverOK
  <2> HIDE DEF got
  <2>3. StreamOK(con')  BY <1>1, <2>1, <2>2 DEF StreamOK
  <2>4. SourceOK(Mine, fs[Followed], con')  BY <1>1, <1>5, <1>7, <2>2 DEF SourceOK
  <2>5. QED  BY <1>1, <1>2, <1>4, <2>1, <2>2, <2>3, <2>4, StreamAlone
<1>10. CASE con' = Closed(con)  BY <1>1, <1>10, ClosedStream
<1>11. QED  BY <1>1, <1>8, <1>9, <1>10

\* What a new stream starts with is the cache, or the journal up to it.
LEMMA ConnectStream ==
    ASSUME BaseInv, HistInv, StreamInv, Connect PROVE StreamInv'
<1> DEFINE f == fs[Followed]
           L == Learned(Mine, File, Scanned(Mine, File, con.last))
           w == IF FirstRecord # 0 THEN "replay" ELSE "cache"
           o == Mine.phase = "over"
<1>1. /\ at = "free" /\ con.at = "off" /\ Admitted
      /\ con' = [con EXCEPT !.at = w, !.through = Cursor(Mine), !.bytes = Mine.off,
                            !.pos = FirstRecord, !.events = Mine.cache, !.over = o]
      /\ Patch(Followed, IF Replays THEN [Mine EXCEPT !.index = L] ELSE Mine)
      /\ UNCHANGED <<fs, disk, at, held, mode, due, born, lost>>
  BY DEF Connect
<1>2. /\ j \in [Attempts -> Mems] /\ f \in Files /\ con \in Readers /\ Mine \in Mems
      /\ File = f.data /\ File \in Seq(Events) /\ con.last \in Nat /\ Followed \in Attempts
  BY TypeParts, JournalAssumption DEF BaseInv, Mine, File, Files, Readers
<1>3. Mine'.phase = Mine.phase /\ Mine'.off = Mine.off
  <2>1. j'[Followed] = [Mine EXCEPT !.index = L] \/ j'[Followed] = Mine
    BY <1>1, <1>2 DEF Patch
  <2> HIDE DEF L
  <2>2. [Mine EXCEPT !.index = L].phase = Mine.phase /\ [Mine EXCEPT !.index = L].off = Mine.off
    BY <1>2 DEF Mems
  <2>3. QED  BY <2>1, <2>2 DEF Mine
<1>4. Serving /\ Mine.phase \in Owned  BY <1>1 DEF Serving, Admitted
<1>5. HistoryOK(Mine, f)  BY <1>2, <1>4, ServedOK DEF Mine
<1>6. /\ w \in {"replay", "cache"} /\ (w = "replay" <=> FirstRecord # 0)
      /\ con'.at = w /\ con'.through = Cursor(Mine) /\ con'.pos = FirstRecord
      /\ con'.events = Mine.cache /\ con'.chan = con.chan
      /\ con'.last = con.last /\ con'.got = con.got
  BY <1>1, <1>2 DEF Readers
<1> HIDE DEF w, o, L
<1>7. con.chan = <<>>  BY <1>1 DEF StreamInv, StreamOK
<1> DEFINE c == Mine.cache
           n == Mine.off
           l == Len(c)
<1>8. /\ c \in Seq(Events) /\ c # <<>> /\ n \in Nat /\ l \in 1..n
      /\ Cursor(Mine) = c[l].cur
  BY <1>2, <1>5, CursorOfEnd DEF HistoryOK, EndOf, Cursor, Last
<1>9. \A k \in 1..l : (n - l) + k \in 1..n /\ c[k] = f.data[(n - l) + k]
  BY <1>5, <1>8 DEF HistoryOK, EndOf
<1>10. \A i \in 1..n : f.data[i].cur = f.data[1].cur + (i - 1)  BY <1>5 DEF HistoryOK, Good
<1>11. f.data[1].cur \in Nat
  <2>1. 1 \in 1..Len(f.data)  BY <1>2, <1>5, <1>8 DEF HistoryOK, Good
  <2>2. f.data[1] \in Events  BY <1>2, <2>1, ElementOfSeq
  <2>3. QED  BY <2>2 DEF Events
<1> HIDE DEF c, n, l
<1>12. Row(c)
  <2>1. SUFFICES ASSUME NEW k \in 1..l PROVE c[k].cur = c[1].cur + (k - 1)  BY DEF Row, l
  <2>2. 1 \in 1..l  BY <1>8
  <2>3. /\ c[k].cur = f.data[1].cur + (((n - l) + k) - 1)
        /\ c[1].cur = f.data[1].cur + (((n - l) + 1) - 1)
    BY <1>9, <1>10, <2>2
  <2>4. QED  BY <1>8, <1>11, <2>3
<1>13. \A k \in 1..l : Has(Mine, f, c[k])  BY <1>9 DEF Has, n
<1>14. FirstRecord # 0 => f.data[FirstRecord].cur = con.last + 1
  BY <1>2, ReplayFromOK DEF FirstRecord
<1>15. FirstRecord = 0 => c[1].cur <= con.last + 1
  <2>1. FirstRecord = 0 => ~Expired(Mine, con.last)  BY <1>1 DEF Admitted
  <2>2. 1 \in 1..l  BY <1>8
  <2>3. c[1].cur \in Nat
    <3>1. c[1] \in Events  BY <1>8, <2>2, ElementOfSeq DEF l
    <3>2. QED  BY <3>1 DEF Events
  <2>4. QED  BY <1>2, <1>8, <2>1, <2>3 DEF Expired, c
<1>16. StreamOK(con')
  <2>1. StreamOK(con)  BY DEF StreamInv
  <2>2. con'.events = c /\ con'.through = c[Len(c)].cur  BY <1>6, <1>8 DEF c, l
  <2>3. QED  BY <1>6, <1>8, <1>12, <1>15, <2>1, <2>2 DEF StreamOK
<1>17. SourceOK(Mine, f, con')
  <2>1. \A k \in 1..Len(con'.events) : Has(Mine, f, con'.events[k])
    BY <1>6, <1>13 DEF c, l
  <2>2. \A k \in 1..Len(con'.chan) : FALSE  BY <1>6, <1>7
  <2>3. QED  BY <1>6, <1>14, <2>1, <2>2 DEF SourceOK
<1>18. QED  BY <1>1, <1>3, <1>4, <1>6, <1>16, <1>17, StreamAlone

-----------------------------------------------------------------------------

LEMMA InitStream == ASSUME Init PROVE StreamInv
<1>1. /\ at = "down" /\ con.at = "off" /\ con.got = <<>> /\ con.chan = <<>>  BY DEF Init
<1>2. Len(con.got) = 0  BY <1>1
<1>3. StreamOK(con)  BY <1>1, <1>2 DEF StreamOK
<1>4. ~Serving  BY <1>1 DEF Serving
<1>5. \A m, f, gone : GotFrom(m, f, con, gone)  BY <1>2 DEF GotFrom
<1>6. QED  BY <1>3, <1>4, <1>5 DEF StreamInv

LEMMA StutterStream ==
    ASSUME StreamInv, ConnectRefused \/ UNCHANGED vars PROVE StreamInv'
<1>1. UNCHANGED vars  BY DEF ConnectRefused
<1>2. UNCHANGED <<j, fs, disk, at, con, due, lost>>  BY <1>1 DEF vars
<1>3. QED  BY <1>2 DEF StreamInv, Mine, Serving, SourceOK, GotFrom, Holds, Has

LEMMA NextStream ==
    ASSUME BaseInv, HistInv, StreamInv, [Next]_vars PROVE StreamInv'
<1>1. BaseInv' /\ HistInv' /\ Keeps  BY NextBase, NextHist
<1>2. ASSUME NEW a \in Attempts,
             \/ Accept(a) \/ Relaunch(a)
             \/ \E kind \in Kinds : HarnessEvent(a, kind)
             \/ \E kind \in {"progress", "ask"} : Request(a, kind)
             \/ \E phase \in {"parked", "over"} : Finish(a, phase)
             \/ Export(a)
             \/ Drop(a)
             \/ Recover(a)
      PROVE  StreamInv'
  <2>1. CASE \E phase \in {"parked", "over"} : Finish(a, phase)
    <3>1. PICK phase \in {"parked", "over"} : Finish(a, phase)  BY <2>1
    <3>2. Serving /\ j[a].phase \in Owned /\ Finishes(a, phase)
      BY <3>1 DEF Finish, Owned, Serving
    <3>3. QED  BY <1>1, <3>2, FinishesStream
  <2>2. QED
    BY <1>1, <1>2, <2>1, AcceptStream, RelaunchStream, HarnessEventStream, RequestStream,
       ExportStream, DropStream, RecoverStream
<1>3. CASE ExportFailed
  <2>1. /\ Serving /\ Finishes(held.who, "over") /\ held.who \in Attempts
        /\ j[held.who].phase \in Owned
    BY <1>3, TypeParts DEF ExportFailed, Serving, Goes, Helds, BaseInv
  <2>2. QED  BY <1>1, <2>1, FinishesStream
<1>4. CASE FailHarnessEvent \/ ExportCompletes
  BY <1>1, <1>4, FailHarnessEventStream, ExportCompletesStream
<1>5. CASE Persist \/ PersistFails  BY <1>1, <1>5, PersistStream, PersistFailsStream
<1>6. CASE Crash \/ Restart \/ Recovered \/ StartSave
  BY <1>1, <1>6, CrashStream, StartingStream, StartSaveStream
<1>7. CASE Connect \/ ReplayNext \/ CachedNext \/ LiveNext
  BY <1>7, ConnectStream, ReplayNextStream, CachedNextStream, LiveNextStream
<1>8. CASE Disconnect  BY <1>8, ClosedStream DEF Disconnect
<1>9. CASE ConnectRefused \/ UNCHANGED vars  BY <1>9, StutterStream
<1>10. QED  BY <1>2, <1>3, <1>4, <1>5, <1>6, <1>7, <1>8, <1>9 DEF Next

LEMMA StreamShown ==
    ASSUME BaseInv, HistInv, StreamInv PROVE StreamIsHistory
<1>1. con.got \in Seq(Events) /\ DOMAIN con.got = 1..Len(con.got) /\ Followed \in Attempts
  BY TypeParts, JournalAssumption DEF BaseInv, Readers
<1>2. ASSUME Serving, Mine.phase \in Owned, NEW i \in DOMAIN con.got
      PROVE  con.got[i] \in lost \/ \E p \in 1..Mine.off : File[p] = con.got[i]
  <2>1. Followed \notin due  BY <1>1, <1>2, ServedOK DEF Mine
  <2>2. GotFrom(Mine, fs[Followed], con, lost)  BY <1>2, <2>1 DEF StreamInv
  <2>3. QED  BY <1>1, <1>2, <2>2 DEF GotFrom, Holds, Has, File
<1>3. QED  BY <1>2 DEF StreamIsHistory, StreamInv, StreamOK

\* What a consumer of the stream has got, over any number of connections, crashes and
\* restarts of the runner, has consecutive cursors, and the journal has every event of it
\* but those a crash took back before their offset was saved (http.go: serveEvents;
\* event_journal.go: eventReplay.next; runner.go: Subscribe).
THEOREM StreamStaysHistory == ModesApart => (Spec => []StreamIsHistory)
<1>1. Init /\ ModesApart => BaseInv /\ HistInv /\ StreamInv  BY InitBase, InitHist, InitStream
<1>2. (BaseInv /\ HistInv /\ StreamInv) /\ [Next]_vars => (BaseInv /\ HistInv /\ StreamInv)'
  BY NextBase, NextHist, NextStream
<1>3. BaseInv /\ HistInv /\ StreamInv => StreamIsHistory  BY StreamShown
<1>4. QED  BY <1>1, <1>2, <1>3, PTL DEF Spec

=============================================================================
