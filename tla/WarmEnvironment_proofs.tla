----------------------- MODULE WarmEnvironment_proofs -----------------------
(***************************************************************************)
(* What is proved of the warm environments for any number of attempts,     *)
(* environments, hook runs, faults and crashes.                            *)
(*                                                                         *)
(* The invariant says the same thing, Sound, of the attempts and leases in *)
(* memory and of those in state.json: a crash replaces the one by the      *)
(* other, a save the other by the one, and a hook is started, an execution *)
(* launched only behind a save.  The rest relates the goroutines to the    *)
(* records: executions, hooks and fingerprints in progress.                *)
(***************************************************************************)
EXTENDS WarmEnvironment, FiniteSetTheorems, TLAPS

Gone == {"absent", "dropped"}
Live == {"accepted", "active", "parked"}

\* An attempt that has a checkout, and is the one that answers for it.
Holds(at, a, d) == at[a].phase \notin Gone /\ ~at[a].delegated /\ at[a].dir = d

\* An attempt that is there has a checkout of its environment, cloned for an
\* attempt that is known; one that may still run, or still has to be cleaned
\* up, has the lease.
AttemptSound(at, en, st, pr, a) ==
    /\ at[a].phase \in Gone <=> at[a].dir = None
    /\ at[a].dir # None => /\ EnvOf[at[a].dir] = EnvOf[a]
                           /\ at[at[a].dir].phase # "absent"
    /\ at[a].phase \in Live => /\ ~at[a].delegated
                               /\ ~at[a].done
                               /\ en[EnvOf[a]].time = "held"
                               /\ st[at[a].dir] = "intact"
    /\ at[a].phase \notin Gone /\ ~at[a].delegated /\ ~at[a].done => Owns(en, a)
    /\ at[a].phase = "absent" => st[a] = "intact" /\ pr[a] = a

\* A lease belongs to the holder of its checkout, or, after staged inputs could
\* not be consumed, to an attempt that does not exist; an idle one to an
\* attempt that is over; one that is not evicted has its stack, and one that
\* need not be prepared was prepared for its owner.
LeaseSound(at, st, pr, e, L) ==
    /\ EnvOf[L.owner] = e /\ EnvOf[L.dir] = e
    /\ at[L.owner].phase = "absent" \/ Holds(at, L.owner, L.dir)
    /\ \A a \in Attempts : Holds(at, a, L.dir) => a = L.owner
    /\ L.time # "held" => at[L.owner].phase = "over"
    /\ ~L.evicting => st[L.dir] = "intact"
    /\ ~L.prepare => pr[L.dir] = L.owner

\* A checkout has one holder.
OneHolder(at) ==
    \A a, b, d \in Attempts : Holds(at, a, d) /\ Holds(at, b, d) => a = b

Sound(at, en, st, pr) ==
    /\ \A a \in Attempts : AttemptSound(at, en, st, pr, a)
    /\ OneHolder(at)
    /\ \A e \in EnvIDs : en[e] # None => LeaseSound(at, st, pr, e, en[e])

\* A running execution has been saved, with its lease.
ExecsOK == \A a \in Attempts :
    /\ exec[a] # "none" => /\ att[a].phase = "active"
                           /\ Holds(disk.att, a, att[a].dir)
                           /\ ~disk.att[a].done
                           /\ Owns(disk.env, a)
    /\ exec[a] = "harness" => prepared[att[a].dir] = a

\* A cleanup hook runs for the holder of a checkout, whose stack it tears down.
HooksOK == \A a \in Attempts :
    /\ att[a].hook => /\ att[a].phase = "over"
                      /\ ~att[a].delegated
                      /\ ~att[a].done
                      /\ stack[att[a].dir] = "torn"
    /\ ~disk.att[a].hook

\* A lease that is verified is one of an attempt that is over, and not evicted;
\* what was seen of its checkout is still there.
VerifiesOK == \A e \in EnvIDs : verify[e] # None =>
    /\ env[e] # None
    /\ ~env[e].evicting
    /\ EnvOf[verify[e].who] = e
    /\ att[env[e].owner].phase = "over"
    /\ verify[e].by = "retain" => verify[e].who = env[e].owner
    /\ verify[e].seen \in Trees => verify[e].seen = tree[env[e].dir]

WarmInv ==
    /\ WarmTypeOK
    /\ Sound(att, env, stack, prepared)
    /\ Sound(disk.att, disk.env, stack, prepared)
    /\ ExecsOK
    /\ HooksOK
    /\ VerifiesOK

\* With every start that was admitted carried to its end, a lease has its owner,
\* and the holder of a stack that is not clean has not been cleaned up.
Answered(at, en, st, us) ==
    /\ \A e \in EnvIDs : en[e] # None => at[en[e].owner].phase # "absent"
    /\ \A d \in us : st[d] # "clean" =>
        \E x \in Attempts : Holds(at, x, d) /\ ~at[x].done

AnswerInv == Answered(att, env, stack, used) /\ Answered(disk.att, disk.env, stack, used)

-----------------------------------------------------------------------------
(* What keeps attempts and leases sound                                    *)

AttT == [Attempts -> AttemptRecords]
EnvT == [EnvIDs -> Leases \cup {None}]
StackT == [Attempts -> {"intact", "torn", "clean"}]
PrepT == [Attempts -> Attempts]

\* The phase of an attempt may change among those of a live one.
SameLife(x, y) ==
    /\ x.dir = y.dir /\ x.delegated = y.delegated /\ x.done = y.done
    /\ x.phase = y.phase \/ {x.phase, y.phase} \subseteq Live

\* Sound does not look at what SameLife does not: hooks, their runs, or which
\* of the live phases an attempt is in.
LEMMA SoundSimilar ==
    ASSUME NEW at \in AttT, NEW at2 \in AttT, NEW en \in EnvT, NEW st, NEW pr,
           Sound(at, en, st, pr),
           \A a \in Attempts : SameLife(at[a], at2[a])
    PROVE  Sound(at2, en, st, pr)
<1>1. \A a, d \in Attempts : Holds(at2, a, d) <=> Holds(at, a, d)
  BY DEF SameLife, Holds, Gone, Live
<1>2. \A a \in Attempts : /\ at2[a].phase \in Gone <=> at[a].phase \in Gone
                          /\ at2[a].phase \in Live <=> at[a].phase \in Live
                          /\ at2[a].phase = "absent" <=> at[a].phase = "absent"
                          /\ at2[a].phase = "over" <=> at[a].phase = "over"
  BY DEF SameLife, Gone, Live
<1>3. \A a \in Attempts : at[a].dir \in Attempts \cup {None}  BY DEF AttT, AttemptRecords
<1>4. \A e \in EnvIDs : en[e] # None => en[e].owner \in Attempts /\ en[e].dir \in Attempts
  BY DEF EnvT, Leases
<1>5. ASSUME NEW a \in Attempts PROVE AttemptSound(at2, en, st, pr, a)
  BY <1>2, <1>3 DEF Sound, AttemptSound, SameLife
<1>6. ASSUME NEW e \in EnvIDs, en[e] # None PROVE LeaseSound(at2, st, pr, e, en[e])
  BY <1>1, <1>2, <1>4, <1>6 DEF Sound, LeaseSound
<1>7. OneHolder(at2)  BY <1>1 DEF Sound, OneHolder
<1>8. QED  BY <1>5, <1>6, <1>7 DEF Sound

\* Nor does it mind a lease that is evicted, released by an attempt that is
\* over, or prepared for its owner.
LEMMA SoundLeases ==
    ASSUME NEW at \in AttT, NEW en \in EnvT, NEW en2 \in EnvT, NEW st, NEW pr,
           Sound(at, en, st, pr),
           \A e \in EnvIDs :
              /\ en2[e] = None <=> en[e] = None
              /\ en[e] # None =>
                    /\ en2[e].owner = en[e].owner /\ en2[e].dir = en[e].dir
                    /\ en2[e].time = en[e].time \/ at[en[e].owner].phase = "over"
                    /\ ~en2[e].evicting => ~en[e].evicting
                    /\ ~en2[e].prepare => ~en[e].prepare \/ pr[en[e].dir] = en[e].owner
    PROVE  Sound(at, en2, st, pr)
<1>1. ASSUME NEW a \in Attempts PROVE AttemptSound(at, en2, st, pr, a)
  <2>1. EnvOf[a] \in EnvIDs  BY WarmAssumption
  <2>2. Owns(en2, a) <=> Owns(en, a)  BY <2>1 DEF Owns
  <2>3. at[a].phase \in Live => Owns(en, a) /\ at[a].phase # "over"
    BY DEF Sound, AttemptSound, Gone, Live
  <2>4. at[a].phase \in Live => en2[EnvOf[a]].time = "held"
    BY <2>1, <2>3 DEF Sound, AttemptSound, Owns
  <2>5. QED  BY <2>2, <2>4 DEF Sound, AttemptSound
<1>2. ASSUME NEW e \in EnvIDs, en2[e] # None PROVE LeaseSound(at, st, pr, e, en2[e])
  <2>1. LeaseSound(at, st, pr, e, en[e]) /\ en[e] # None  BY <1>2 DEF Sound
  <2>2. QED  BY <2>1 DEF LeaseSound
<1>3. QED  BY <1>1, <1>2 DEF Sound

\* A stack may be torn down whose holder is over and has no lease that keeps it.
LEMMA SoundTorn ==
    ASSUME NEW at \in AttT, NEW en \in EnvT, NEW st \in StackT, NEW st2 \in StackT, NEW pr,
           Sound(at, en, st, pr),
           NEW S \in SUBSET Attempts,
           \A x \in S : /\ at[x].phase = "over" /\ ~at[x].delegated
                        /\ Owns(en, x) => en[EnvOf[x]].evicting,
           \A d \in Attempts : st2[d] = st[d] \/ \E x \in S : at[x].dir = d
    PROVE  Sound(at, en, st2, pr)
<1>1. \A x \in S : x \in Attempts /\ Holds(at, x, at[x].dir) /\ at[x].dir \in Attempts
  BY DEF Holds, Gone, AttT, AttemptRecords, Sound, AttemptSound
<1>2. ASSUME NEW a \in Attempts PROVE AttemptSound(at, en, st2, pr, a)
  <2>1. at[a].phase \in Live => st2[at[a].dir] = st[at[a].dir]
    <3> SUFFICES ASSUME at[a].phase \in Live, NEW x \in S, at[x].dir = at[a].dir PROVE FALSE
      BY DEF Sound, AttemptSound, Gone, Live, AttT, AttemptRecords
    <3>1. Holds(at, a, at[a].dir)  BY DEF Holds, Sound, AttemptSound, Gone, Live
    <3>2. a = x  BY <1>1, <3>1 DEF Sound, OneHolder
    <3>3. QED  BY <3>2 DEF Live
  <2>2. at[a].phase = "absent" => st2[a] = st[a]
    BY <1>1 DEF Sound, AttemptSound, Holds
  <2>3. QED  BY <2>1, <2>2 DEF Sound, AttemptSound
<1>3. ASSUME NEW e \in EnvIDs, en[e] # None PROVE LeaseSound(at, st2, pr, e, en[e])
  <2>1. en[e].dir \in Attempts  BY <1>3 DEF EnvT, Leases
  <2>2. LeaseSound(at, st, pr, e, en[e])  BY <1>3 DEF Sound
  <2>3. ~en[e].evicting => st2[en[e].dir] = st[en[e].dir]
    <3> SUFFICES ASSUME ~en[e].evicting, NEW x \in S, at[x].dir = en[e].dir PROVE FALSE
      BY <2>1
    <3>1. x = en[e].owner  BY <1>1, <2>2 DEF LeaseSound
    <3>2. Owns(en, x) /\ EnvOf[x] = e  BY <1>3, <2>2, <3>1 DEF Owns, LeaseSound
    <3>3. QED  BY <3>2
  <2>4. QED  BY <2>2, <2>3 DEF LeaseSound
<1>4. QED  BY <1>2, <1>3 DEF Sound

\* A checkout is prepared for its holder, which has the lease.
LEMMA SoundPrepared ==
    ASSUME NEW at \in AttT, NEW en \in EnvT, NEW st, NEW pr \in PrepT, Sound(at, en, st, pr),
           NEW a \in Attempts, NEW d \in Attempts, Holds(at, a, d), Owns(en, a)
    PROVE  Sound(at, en, st, [pr EXCEPT ![d] = a])
<1> DEFINE pr2 == [pr EXCEPT ![d] = a]
<1>0. \A x \in Attempts : x # d => pr2[x] = pr[x]  BY DEF PrepT
<1>1. ASSUME NEW b \in Attempts PROVE AttemptSound(at, en, st, pr2, b)
  <2>1. at[d].phase # "absent"
    BY WarmAssumption DEF Holds, Sound, AttemptSound
  <2>2. at[b].phase = "absent" => pr2[b] = pr[b]  BY <1>0, <2>1
  <2> HIDE DEF pr2
  <2>3. QED  BY <2>2 DEF Sound, AttemptSound
<1>2. ASSUME NEW e \in EnvIDs, en[e] # None PROVE LeaseSound(at, st, pr2, e, en[e])
  <2>1. en[e].dir \in Attempts  BY <1>2 DEF EnvT, Leases
  <2>2. LeaseSound(at, st, pr, e, en[e])  BY <1>2 DEF Sound
  <2>3. en[e].dir = d => en[e].owner = a  BY <2>2 DEF LeaseSound
  <2>4. pr2[d] = a  BY DEF PrepT
  <2> HIDE DEF pr2
  <2>5. QED  BY <1>0, <2>1, <2>2, <2>3, <2>4 DEF LeaseSound
<1>3. QED  BY <1>1, <1>2 DEF Sound

\* An attempt that is live ends.
LEMMA SoundOver ==
    ASSUME NEW at \in AttT, NEW at2 \in AttT, NEW en \in EnvT, NEW st, NEW pr,
           Sound(at, en, st, pr),
           NEW a \in Attempts, at[a].phase \in Live, at2[a].phase = "over",
           at2[a].dir = at[a].dir, at2[a].delegated = at[a].delegated, at2[a].done = at[a].done,
           \A b \in Attempts : b # a => at2[b] = at[b]
    PROVE  Sound(at2, en, st, pr)
<1>1. \A b, d \in Attempts : Holds(at2, b, d) <=> Holds(at, b, d)
  BY DEF Holds, Gone, Live
<1>2. \A b \in Attempts : /\ at2[b].phase \in Gone <=> at[b].phase \in Gone
                          /\ at2[b].phase \in Live => at[b].phase \in Live
                          /\ at2[b].phase = "absent" <=> at[b].phase = "absent"
                          /\ at[b].phase = "over" => at2[b].phase = "over"
                          /\ at2[b].dir = at[b].dir /\ at2[b].delegated = at[b].delegated
                          /\ at2[b].done = at[b].done
  BY DEF Gone, Live
<1>3. \A b \in Attempts : at[b].dir \in Attempts \cup {None}  BY DEF AttT, AttemptRecords
<1>4. \A e \in EnvIDs : en[e] # None => en[e].owner \in Attempts /\ en[e].dir \in Attempts
  BY DEF EnvT, Leases
<1>5. ASSUME NEW b \in Attempts PROVE AttemptSound(at2, en, st, pr, b)
  BY <1>2, <1>3 DEF Sound, AttemptSound
<1>6. ASSUME NEW e \in EnvIDs, en[e] # None PROVE LeaseSound(at2, st, pr, e, en[e])
  BY <1>1, <1>2, <1>4, <1>6 DEF Sound, LeaseSound
<1>7. OneHolder(at2)  BY <1>1 DEF Sound, OneHolder
<1>8. QED  BY <1>5, <1>6, <1>7 DEF Sound

\* An attempt without a lease is dropped.
LEMMA SoundDrop ==
    ASSUME NEW at \in AttT, NEW en \in EnvT, NEW st, NEW pr, Sound(at, en, st, pr),
           NEW a \in Attempts, at[a].phase # "absent", ~Owns(en, a)
    PROVE  Sound([at EXCEPT ![a] = [Absent EXCEPT !.phase = "dropped"]], en, st, pr)
<1> DEFINE at2 == [at EXCEPT ![a] = [Absent EXCEPT !.phase = "dropped"]]
<1>1. at2[a].phase = "dropped" /\ at2[a].dir = None /\ \A b \in Attempts : b # a => at2[b] = at[b]
  BY DEF AttT, Absent
<1> HIDE DEF at2
<1>2. \A b, d \in Attempts : Holds(at2, b, d) => Holds(at, b, d)
  BY <1>1 DEF Holds, Gone
<1>3. \A b \in Attempts : at[b].dir \in Attempts \cup {None}  BY DEF AttT, AttemptRecords
<1>4. ASSUME NEW b \in Attempts PROVE AttemptSound(at2, en, st, pr, b)
  <2>1. CASE b = a  BY <1>1, <2>1 DEF AttemptSound, Gone, Live
  <2>2. CASE b # a
    <3>1. at[b].dir # None /\ at[at[b].dir].phase # "absent" => at2[at[b].dir].phase # "absent"
      BY <1>1, <1>3
    <3>2. QED  BY <1>1, <2>2, <3>1 DEF Sound, AttemptSound
  <2>3. QED  BY <2>1, <2>2
<1>5. ASSUME NEW e \in EnvIDs, en[e] # None PROVE LeaseSound(at2, st, pr, e, en[e])
  <2>1. en[e].owner \in Attempts /\ en[e].dir \in Attempts  BY <1>5 DEF EnvT, Leases
  <2>2. LeaseSound(at, st, pr, e, en[e])  BY <1>5 DEF Sound
  <2>3. en[e].owner # a  BY <1>5, <2>2 DEF LeaseSound, Owns
  <2>4. at2[en[e].owner] = at[en[e].owner]  BY <1>1, <2>1, <2>3
  <2>5. QED  BY <1>2, <2>1, <2>2, <2>4 DEF LeaseSound, Holds
<1>6. OneHolder(at2)  BY <1>2 DEF Sound, OneHolder
<1>7. QED  BY <1>4, <1>5, <1>6 DEF Sound, at2

\* A cleanup hook ends: its attempt is done and loses its lease, or neither.
LEMMA SoundHookEnds ==
    ASSUME NEW at \in AttT, NEW at2 \in AttT, NEW en \in EnvT, NEW st, NEW pr,
           Sound(at, en, st, pr),
           NEW a \in Attempts, at[a].phase = "over", ~at[a].delegated, ~at[a].done,
           st[at[a].dir] # "intact", NEW done \in BOOLEAN,
           at2[a].phase = at[a].phase, at2[a].dir = at[a].dir,
           at2[a].delegated = at[a].delegated, at2[a].done = done,
           \A b \in Attempts : b # a => at2[b] = at[b]
    PROVE  Sound(at2, LeasesAfterHook(en, a, done), st, pr)
<1> DEFINE en2 == LeasesAfterHook(en, a, done)
<1>1. \A b \in Attempts : /\ at2[b].phase = at[b].phase /\ at2[b].dir = at[b].dir
                          /\ at2[b].delegated = at[b].delegated
                          /\ at2[b].done = IF b = a THEN done ELSE at[b].done
  BY DEF AttT, AttemptRecords
<1>2. \A b, d \in Attempts : Holds(at2, b, d) <=> Holds(at, b, d)
  BY <1>1 DEF Holds
<1>3. \A b \in Attempts : at[b].dir \in Attempts \cup {None}  BY DEF AttT, AttemptRecords
<1>4. \A e \in EnvIDs : /\ en2[e] = en[e] \/ (done /\ en2[e] = None /\ en[e] # None /\ en[e].owner = a)
                        /\ en[e] # None => en[e].owner \in Attempts /\ en[e].dir \in Attempts
  BY DEF EnvT, Leases, LeasesAfterHook
<1> HIDE DEF en2
<1>5. ASSUME NEW b \in Attempts PROVE AttemptSound(at2, en2, st, pr, b)
  <2>1. EnvOf[b] \in EnvIDs  BY WarmAssumption
  <2>2. AttemptSound(at, en, st, pr, b)  BY DEF Sound
  <2>3. b # a => (Owns(en2, b) <=> Owns(en, b))  BY <1>4, <2>1 DEF Owns
  <2>4. ~done => en2[EnvOf[b]] = en[EnvOf[b]]  BY <1>4, <2>1
  <2>5. b # a /\ Owns(en, b) => en2[EnvOf[b]] = en[EnvOf[b]]  BY <1>4, <2>1 DEF Owns
  <2>6. CASE b = a
    <3>1. at2[a].phase = "over" /\ at2[a].dir = at[a].dir /\ at2[at[a].dir].phase = at[at[a].dir].phase
      BY <1>1, <1>3, <2>2, <2>6 DEF AttemptSound, Gone
    <3>2. ~at2[a].done => Owns(en2, a)
      BY <1>1, <2>2, <2>4, <2>6 DEF AttemptSound, Gone, Owns
    <3>3. at[a].dir # None /\ EnvOf[at[a].dir] = EnvOf[a] /\ at[at[a].dir].phase # "absent"
      <4>1. AttemptSound(at, en, st, pr, a)  BY DEF Sound
      <4>2. at[a].phase \notin Gone  BY DEF Gone
      <4>3. QED  BY <4>1, <4>2 DEF AttemptSound
    <3>4. at2[a].phase \notin Gone /\ at2[a].phase \notin Live /\ at2[a].phase # "absent"
      BY <3>1 DEF Gone, Live
    <3>5. AttemptSound(at2, en2, st, pr, a)  BY <3>1, <3>2, <3>3, <3>4 DEF AttemptSound
    <3>6. QED  BY <2>6, <3>5
  <2>7. CASE b # a
    <3>1. at2[b] = at[b]  BY <2>7
    <3>2. at[b].dir # None => at2[at[b].dir].phase = at[at[b].dir].phase  BY <1>1, <1>3
    <3>3. at[b].phase \in Live => en2[EnvOf[b]].time = "held"
      BY <2>2, <2>5, <2>7 DEF AttemptSound, Gone, Live
    <3>4. QED  BY <2>2, <2>3, <2>7, <3>1, <3>2, <3>3 DEF AttemptSound
  <2>8. QED  BY <2>6, <2>7
<1>6. ASSUME NEW e \in EnvIDs, en2[e] # None PROVE LeaseSound(at2, st, pr, e, en2[e])
  <2>1. en2[e] = en[e]  BY <1>4, <1>6
  <2>2. LeaseSound(at, st, pr, e, en[e])  BY <1>6, <2>1 DEF Sound
  <2>3. en[e].owner \in Attempts /\ en[e].dir \in Attempts  BY <1>4, <1>6, <2>1
  <2>4. QED  BY <1>1, <1>2, <2>1, <2>2, <2>3 DEF LeaseSound
<1>7. OneHolder(at2)  BY <1>2 DEF Sound, OneHolder
<1>8. QED  BY <1>5, <1>6, <1>7 DEF Sound, en2

\* A lease is made for an attempt that is not there yet.
LEMMA SoundNewLease ==
    ASSUME NEW at \in AttT, NEW en \in EnvT, NEW st, NEW pr, Sound(at, en, st, pr),
           NEW a \in Attempts, at[a].phase = "absent", en[EnvOf[a]] = None
    PROVE  Sound(at, [en EXCEPT ![EnvOf[a]] = NewLease(a)], st, pr)
<1> DEFINE e == EnvOf[a]
           en2 == [en EXCEPT ![e] = NewLease(a)]
<1>1. e \in EnvIDs  BY WarmAssumption
<1>2. en2[e] = NewLease(a) /\ \A f \in EnvIDs : f # e => en2[f] = en[f]
  BY <1>1 DEF EnvT
<1>3. \A b \in Attempts : EnvOf[b] \in EnvIDs  BY WarmAssumption
<1>4. \A b \in Attempts : ~Holds(at, b, a)
  BY WarmAssumption DEF Holds, Sound, AttemptSound
<1> HIDE DEF en2
<1>5. ASSUME NEW b \in Attempts PROVE AttemptSound(at, en2, st, pr, b)
  <2>1. AttemptSound(at, en, st, pr, b)  BY DEF Sound
  <2>2. EnvOf[b] = e => ~Owns(en, b)  BY DEF Owns
  <2>3. Owns(en, b) => Owns(en2, b) /\ en2[EnvOf[b]] = en[EnvOf[b]]
    BY <1>2, <1>3, <2>2 DEF Owns
  <2>4. at[b].phase \in Live => Owns(en, b)
    BY <2>1 DEF AttemptSound, Gone, Live
  <2>5. QED  BY <2>1, <2>3, <2>4 DEF AttemptSound
<1>6. ASSUME NEW f \in EnvIDs, en2[f] # None PROVE LeaseSound(at, st, pr, f, en2[f])
  <2>1. CASE f # e  BY <1>2, <1>6, <2>1 DEF Sound
  <2>2. CASE f = e
    <3>1. en2[f].owner = a /\ en2[f].dir = a /\ en2[f].time = "held"
      BY <1>2, <2>2 DEF NewLease
    <3>2. st[a] = "intact" /\ pr[a] = a  BY DEF Sound, AttemptSound
    <3>3. QED  BY <1>4, <2>2, <3>1, <3>2 DEF LeaseSound
  <2>3. QED  BY <2>1, <2>2
<1>7. QED  BY <1>5, <1>6 DEF Sound, en2

\* A lease is handed over to an attempt that is not there yet, and the prior
\* owner's cleanup with it.
LEMMA SoundHandOver ==
    ASSUME NEW at \in AttT, NEW at2 \in AttT, NEW en \in EnvT, NEW st, NEW pr,
           Sound(at, en, st, pr),
           NEW a \in Attempts, at[a].phase = "absent",
           en[EnvOf[a]] # None, at[en[EnvOf[a]].owner].phase = "over",
           at2 = [at EXCEPT ![en[EnvOf[a]].owner].delegated = TRUE]
    PROVE  Sound(at2, [en EXCEPT ![EnvOf[a]] = Transferred(en[EnvOf[a]], a)], st, pr)
<1> DEFINE e == EnvOf[a]
           o == en[e].owner
           en2 == [en EXCEPT ![e] = Transferred(en[e], a)]
<1>1. e \in EnvIDs /\ en[e] \in Leases /\ o \in Attempts /\ en[e].dir \in Attempts
  BY WarmAssumption DEF EnvT, Leases
<1>2. LeaseSound(at, st, pr, e, en[e])  BY <1>1 DEF Sound
<1>3. /\ en2[e].owner = a /\ en2[e].dir = en[e].dir /\ en2[e].time = "held"
      /\ en2[e].prepare /\ en2[e].evicting = en[e].evicting
      /\ \A f \in EnvIDs : f # e => en2[f] = en[f]
  BY <1>1 DEF EnvT, Transferred, Leases
<1>4. Holds(at, o, en[e].dir)  BY <1>2 DEF LeaseSound
<1>5. \A b \in Attempts : /\ at2[b].phase = at[b].phase /\ at2[b].dir = at[b].dir
                          /\ at2[b].done = at[b].done
                          /\ at2[b].delegated = (at[b].delegated \/ b = o)
  BY <1>1 DEF AttT, AttemptRecords
<1>6. \A b, d \in Attempts : Holds(at2, b, d) <=> Holds(at, b, d) /\ b # o
  BY <1>5 DEF Holds
<1>7. \A b \in Attempts : EnvOf[b] \in EnvIDs /\ at[b].dir \in Attempts \cup {None}
  BY WarmAssumption DEF AttT, AttemptRecords
<1>8. \A f \in EnvIDs : en[f] # None => en[f].owner \in Attempts /\ en[f].dir \in Attempts
  BY DEF EnvT, Leases
<1> HIDE DEF en2
<1>9. ASSUME NEW b \in Attempts PROVE AttemptSound(at2, en2, st, pr, b)
  <2>1. AttemptSound(at, en, st, pr, b)  BY DEF Sound
  <2>2. Owns(en, b) /\ b # o => Owns(en2, b) /\ en2[EnvOf[b]] = en[EnvOf[b]]
    BY <1>3, <1>7 DEF Owns
  <2>3. at[b].phase \in Live => Owns(en, b) /\ b # o
    BY <2>1 DEF AttemptSound, Gone, Live
  <2>4. at[b].dir # None => at2[at[b].dir].phase = at[at[b].dir].phase  BY <1>5, <1>7
  <2>5. QED  BY <1>5, <2>1, <2>2, <2>3, <2>4 DEF AttemptSound
<1>10. ASSUME NEW f \in EnvIDs, en2[f] # None PROVE LeaseSound(at2, st, pr, f, en2[f])
  <2>1. CASE f # e
    <3>1. LeaseSound(at, st, pr, f, en[f]) /\ en2[f] = en[f]  BY <1>3, <1>10, <2>1 DEF Sound
    <3>2. en[f].owner # o  BY <1>2, <2>1, <3>1 DEF LeaseSound
    <3>3. en[f].owner \in Attempts /\ en[f].dir \in Attempts  BY <1>8, <1>10, <3>1
    <3>4. /\ at2[en[f].owner].phase = at[en[f].owner].phase
          /\ Holds(at2, en[f].owner, en[f].dir) <=> Holds(at, en[f].owner, en[f].dir)
          /\ \A b \in Attempts : Holds(at2, b, en[f].dir) => Holds(at, b, en[f].dir)
      BY <1>5, <1>6, <3>2, <3>3
    <3>5. LeaseSound(at2, st, pr, f, en[f])  BY <3>1, <3>4 DEF LeaseSound
    <3>6. QED  BY <3>1, <3>5
  <2>2. CASE f = e
    <3>1. at2[a].phase = "absent"  BY <1>5
    <3>2. \A b \in Attempts : ~Holds(at2, b, en[e].dir)
      BY <1>1, <1>2, <1>6 DEF LeaseSound
    <3>3. EnvOf[en[e].dir] = e /\ (~en[e].evicting => st[en[e].dir] = "intact")
      BY <1>2 DEF LeaseSound
    <3>4. LeaseSound(at2, st, pr, e, en2[e])  BY <1>3, <3>1, <3>2, <3>3 DEF LeaseSound
    <3>5. QED  BY <2>2, <3>4
  <2>3. QED  BY <2>1, <2>2
<1>11. OneHolder(at2)  BY <1>6 DEF Sound, OneHolder
<1>12. QED  BY <1>9, <1>10, <1>11 DEF Sound, en2

\* The attempt for which there is a lease comes to be.
LEMMA SoundJoin ==
    ASSUME NEW at \in AttT, NEW at2 \in AttT, NEW en \in EnvT, NEW st, NEW pr,
           Sound(at, en, st, pr),
           NEW a \in Attempts, at[a].phase = "absent", en[EnvOf[a]] # None,
           en[EnvOf[a]].owner = a, en[EnvOf[a]].time = "held", ~en[EnvOf[a]].evicting,
           at[en[EnvOf[a]].dir].phase # "absent" \/ en[EnvOf[a]].dir = a,
           at2[a].phase \in Live, at2[a].dir = en[EnvOf[a]].dir,
           ~at2[a].delegated, ~at2[a].done,
           \A b \in Attempts : b # a => at2[b] = at[b]
    PROVE  Sound(at2, en, st, pr)
<1> DEFINE e == EnvOf[a]
           d == en[e].dir
<1>1. e \in EnvIDs /\ d \in Attempts /\ d # None
  BY WarmAssumption DEF EnvT, Leases
<1>2. LeaseSound(at, st, pr, e, en[e])  BY <1>1 DEF Sound
<1>3. \A b \in Attempts : ~Holds(at, b, d)
  BY <1>2 DEF LeaseSound, Holds, Gone
<1>4. Holds(at2, a, d) /\ \A b, c \in Attempts : b # a => (Holds(at2, b, c) <=> Holds(at, b, c))
  BY DEF Holds, Gone, Live
<1>5. \A b \in Attempts : at[b].dir \in Attempts \cup {None}  BY DEF AttT, AttemptRecords
<1>6. \A f \in EnvIDs : en[f] # None => en[f].owner \in Attempts /\ en[f].dir \in Attempts
  BY DEF EnvT, Leases
<1>7. \A b \in Attempts : at[b].phase # "absent" => at2[b].phase # "absent"
  BY DEF Live
<1>8. at2[a].phase \notin Gone /\ at2[a].phase # "absent" /\ at2[a].phase # "over"
  BY DEF Live, Gone
<1>9. ASSUME NEW b \in Attempts PROVE AttemptSound(at2, en, st, pr, b)
  <2>1. CASE b = a
    <3>1. at2[d].phase # "absent"  BY <1>1, <1>7, <1>8
    <3>2. st[d] = "intact" /\ EnvOf[d] = e  BY <1>2 DEF LeaseSound
    <3>3. Owns(en, a)  BY DEF Owns
    <3>4. AttemptSound(at2, en, st, pr, a)
      BY <1>1, <1>8, <3>1, <3>2, <3>3 DEF AttemptSound
    <3>5. QED  BY <2>1, <3>4
  <2>2. CASE b # a
    <3>1. AttemptSound(at, en, st, pr, b) /\ at2[b] = at[b]  BY <2>2 DEF Sound
    <3>2. QED  BY <1>5, <1>7, <3>1 DEF AttemptSound
  <2>3. QED  BY <2>1, <2>2
<1>10. ASSUME NEW f \in EnvIDs, en[f] # None PROVE LeaseSound(at2, st, pr, f, en[f])
  <2>1. CASE f = e
    <3>1. \A b \in Attempts : Holds(at2, b, d) => b = a  BY <1>1, <1>3, <1>4
    <3>2. QED  BY <1>2, <1>4, <2>1, <3>1 DEF LeaseSound
  <2>2. CASE f # e
    <3>1. LeaseSound(at, st, pr, f, en[f])  BY <1>10 DEF Sound
    <3>2. en[f].owner # a /\ en[f].dir # d  BY <1>2, <2>2, <3>1 DEF LeaseSound
    <3>3. ~Holds(at2, a, en[f].dir)  BY <3>2 DEF Holds
    <3>4. at2[en[f].owner] = at[en[f].owner]  BY <1>6, <1>10, <3>2
    <3>5. QED  BY <1>4, <1>6, <1>10, <3>1, <3>2, <3>3, <3>4 DEF LeaseSound
  <2>3. QED  BY <2>1, <2>2
<1>11. OneHolder(at2)
  <2>1. ASSUME NEW b \in Attempts, NEW c \in Attempts, NEW x \in Attempts,
               Holds(at2, b, x), Holds(at2, c, x)
        PROVE  b = c
    <3>1. b = a \/ c = a => x = d  BY <2>1 DEF Holds
    <3>2. QED  BY <1>1, <1>3, <1>4, <2>1, <3>1 DEF Sound, OneHolder
  <2>2. QED  BY <2>1 DEF OneHolder
<1>12. QED  BY <1>9, <1>10, <1>11 DEF Sound

-----------------------------------------------------------------------------
(* What the handlers share                                                 *)

DiskT == [att : AttT, env : EnvT]

\* The part of the invariant about the records, in memory and on disk.
RecordsInv ==
    /\ att \in AttT /\ env \in EnvT /\ disk \in DiskT /\ stack \in StackT /\ prepared \in PrepT
    /\ Sound(att, env, stack, prepared)
    /\ Sound(disk.att, disk.env, stack, prepared)
    /\ HooksOK

\* The part of the type invariant about the rest.
RestTyped ==
    /\ verify \in [EnvIDs -> Verifications \cup {None}]
    /\ exec \in [Attempts -> {"none", "prepare", "harness", "failed"}]
    /\ tree \in [Attempts -> Trees]
    /\ pending \subseteq Attempts
    /\ budget \in 0..MaxFaults
    /\ used \subseteq Attempts

LEMMA InvParts == WarmInv <=> RecordsInv /\ RestTyped /\ ExecsOK /\ VerifiesOK
BY DEF WarmInv, WarmTypeOK, RecordsInv, RestTyped, AttT, EnvT, StackT, PrepT, DiskT

LEMMA InvPartsNext == WarmInv' <=> RecordsInv' /\ RestTyped' /\ ExecsOK' /\ VerifiesOK'
BY DEF WarmInv, WarmTypeOK, RecordsInv, RestTyped, AttT, EnvT, StackT, PrepT, DiskT

\* What a save writes is what it is given, without the running hooks.
LEMMA ImageOf ==
    ASSUME NEW at \in AttT, NEW en \in EnvT
    PROVE  /\ Image(at, en) \in DiskT
           /\ Image(at, en).env = en
           /\ \A a \in Attempts : /\ SameLife(at[a], Image(at, en).att[a])
                                  /\ Image(at, en).att[a].phase = at[a].phase
                                  /\ ~Image(at, en).att[a].hook
<1>1. \A a \in Attempts : at[a] \in AttemptRecords  BY DEF AttT
<1>2. \A a \in Attempts : [at[a] EXCEPT !.hook = FALSE] \in AttemptRecords
  BY <1>1 DEF AttemptRecords
<1>3. QED  BY <1>1, <1>2 DEF Image, DiskT, AttT, SameLife, AttemptRecords

LEMMA SoundImage ==
    ASSUME NEW at \in AttT, NEW en \in EnvT, NEW st, NEW pr, Sound(at, en, st, pr)
    PROVE  Sound(Image(at, en).att, Image(at, en).env, st, pr)
<1>1. Image(at, en).att \in AttT /\ Image(at, en).env = en
      /\ \A a \in Attempts : SameLife(at[a], Image(at, en).att[a])
  BY ImageOf DEF DiskT
<1>2. QED  BY <1>1, SoundSimilar

\* What starting hooks does to the attempts.
LEMMA HooksStartedOf ==
    ASSUME NEW at \in AttT, NEW S \in SUBSET Attempts, \A a \in S : HookDue(at, a)
    PROVE  /\ HooksStarted(at, S) \in AttT
           /\ \A a \in Attempts :
                 /\ SameLife(at[a], HooksStarted(at, S)[a])
                 /\ HooksStarted(at, S)[a].phase = at[a].phase
                 /\ HooksStarted(at, S)[a].hook <=> a \in S \/ at[a].hook
<1>1. \A a \in Attempts : at[a] \in AttemptRecords  BY DEF AttT
<1>2. \A a \in S : at[a].tries + 1 \in 0..MaxHookRuns
  BY <1>1, WarmAssumption DEF HookDue, AttemptRecords
<1>3. \A a \in S : [at[a] EXCEPT !.hook = TRUE, !.tries = @ + 1] \in AttemptRecords
  BY <1>1, <1>2 DEF AttemptRecords
<1>4. \A a \in S : SameLife(at[a], [at[a] EXCEPT !.hook = TRUE, !.tries = @ + 1])
                   /\ [at[a] EXCEPT !.hook = TRUE, !.tries = @ + 1].phase = at[a].phase
                   /\ [at[a] EXCEPT !.hook = TRUE, !.tries = @ + 1].hook
  BY <1>1 DEF AttemptRecords, SameLife
<1>5. \A a \in Attempts : SameLife(at[a], at[a])  BY DEF SameLife
<1>6. \A a \in Attempts : HooksStarted(at, S)[a] = IF a \in S
        THEN [at[a] EXCEPT !.hook = TRUE, !.tries = @ + 1] ELSE at[a]
  BY DEF HooksStarted
<1>7. HooksStarted(at, S) \in AttT  BY <1>1, <1>3 DEF HooksStarted, AttT
<1>8. ASSUME NEW a \in Attempts
      PROVE  /\ SameLife(at[a], HooksStarted(at, S)[a])
             /\ HooksStarted(at, S)[a].phase = at[a].phase
             /\ HooksStarted(at, S)[a].hook <=> a \in S \/ at[a].hook
  BY <1>1, <1>4, <1>5, <1>6 DEF AttemptRecords
<1>9. QED  BY <1>7, <1>8

\* Nothing torn down, nothing started.
LEMMA NoHooks ==
    ASSUME NEW at \in AttT, stack \in StackT
    PROVE  HooksStarted(at, {}) = at /\ Torn(at, {}) = stack
BY DEF HooksStarted, Torn, AttT, StackT

\* A handler has made at and en of the records; it starts the hooks of H,
\* none of which a lease forbids, and saves; without hooks it need not save.
LEMMA TearDown ==
    ASSUME stack \in StackT, prepared \in PrepT, disk \in DiskT,
           NEW at \in AttT, NEW en \in EnvT,
           Sound(at, en, stack, prepared),
           Sound(disk.att, disk.env, stack, prepared),
           \A a \in Attempts :
              /\ at[a].hook => /\ at[a].phase = "over" /\ ~at[a].delegated /\ ~at[a].done
                               /\ stack[at[a].dir] = "torn"
              /\ ~disk.att[a].hook,
           NEW H \in SUBSET Attempts,
           \A x \in H : HookDue(at, x) /\ (Owns(en, x) => en[EnvOf[x]].evicting),
           att' = HooksStarted(at, H), env' = en, stack' = Torn(at, H), prepared' = prepared,
           disk' = Image(att', env') \/ (H = {} /\ disk' = disk)
    PROVE  /\ RecordsInv'
           /\ \A a \in Attempts : SameLife(at[a], att'[a]) /\ att'[a].phase = at[a].phase
<1>1. /\ att' \in AttT
      /\ \A a \in Attempts : /\ SameLife(at[a], att'[a])
                             /\ att'[a].phase = at[a].phase
                             /\ att'[a].hook <=> a \in H \/ at[a].hook
  BY HooksStartedOf
<1>2. stack' \in StackT  BY DEF Torn, StackT
<1>3. Sound(at, en, stack', prepared)
  <2>1. \A d \in Attempts : stack'[d] = stack[d] \/ \E x \in H : at[x].dir = d
    BY DEF Torn, StackT
  <2>2. \A x \in H : /\ at[x].phase = "over" /\ ~at[x].delegated
                     /\ Owns(en, x) => en[EnvOf[x]].evicting
    BY DEF HookDue
  <2>3. QED  BY <1>2, <2>1, <2>2, SoundTorn
<1>4. Sound(att', env', stack', prepared')  BY <1>1, <1>3, SoundSimilar
<1>5. disk' \in DiskT  BY <1>1, ImageOf
<1>6. Sound(disk'.att, disk'.env, stack', prepared')
  <2>1. CASE disk' = Image(att', env')  BY <1>1, <1>4, <2>1, SoundImage
  <2>2. CASE H = {} /\ disk' = disk  BY <2>2, NoHooks
  <2>3. QED  BY <2>1, <2>2
<1>7. HooksOK'
  <2>1. ASSUME NEW a \in Attempts, att'[a].hook
        PROVE  att'[a].phase = "over" /\ ~att'[a].delegated /\ ~att'[a].done
               /\ stack'[att'[a].dir] = "torn"
    <3>1. a \in H \/ at[a].hook  BY <1>1, <2>1
    <3>2. at[a].phase = "over" /\ ~at[a].delegated /\ ~at[a].done  BY <3>1 DEF HookDue
    <3>3. at[a].dir \in Attempts
      BY <3>2 DEF Sound, AttemptSound, Gone, AttT, AttemptRecords
    <3>4. stack'[at[a].dir] = "torn"  BY <3>1, <3>3 DEF Torn, StackT
    <3>5. QED  BY <1>1, <3>2, <3>4 DEF SameLife
  <2>2. ASSUME NEW a \in Attempts PROVE ~disk'.att[a].hook  BY <1>1, ImageOf
  <2>3. QED  BY <2>1, <2>2 DEF HooksOK
<1>8. RecordsInv'  BY <1>1, <1>2, <1>4, <1>5, <1>6, <1>7 DEF RecordsInv
<1>9. QED  BY <1>1, <1>8

\* What evicting leases does to them.
IsEvicted(en, S, en2) ==
    /\ en2 \in EnvT
    /\ \A e \in EnvIDs :
        /\ e \notin S => en2[e] = en[e]
        /\ en2[e] = None <=> en[e] = None
        /\ en[e] # None =>
            /\ en2[e].owner = en[e].owner /\ en2[e].dir = en[e].dir
            /\ en2[e].time = en[e].time /\ en2[e].prepare = en[e].prepare
            /\ en2[e].evicting <=> en[e].evicting \/ e \in S

LEMMA EvictedOf ==
    ASSUME NEW en \in EnvT, NEW S \in SUBSET EnvIDs, \A e \in S : en[e] # None
    PROVE  IsEvicted(en, S, Evicted(en, S))
<1>1. \A e \in EnvIDs : en[e] # None => en[e] \in Leases  BY DEF EnvT
<1>2. \A e \in S : [en[e] EXCEPT !.evicting = TRUE] \in Leases  BY <1>1 DEF Leases
<1>3. \A e \in EnvIDs : Evicted(en, S)[e] = IF e \in S THEN [en[e] EXCEPT !.evicting = TRUE]
                                                       ELSE en[e]
  BY DEF Evicted
<1>4. Evicted(en, S) \in EnvT  BY <1>2 DEF Evicted, EnvT
<1>5. \A e \in EnvIDs : Evicted(en, S)[e] = None <=> en[e] = None
  BY <1>2, <1>3, NoneAssumption
<1>6. ASSUME NEW e \in EnvIDs, en[e] # None
      PROVE  /\ Evicted(en, S)[e].owner = en[e].owner
             /\ Evicted(en, S)[e].dir = en[e].dir
             /\ Evicted(en, S)[e].time = en[e].time
             /\ Evicted(en, S)[e].prepare = en[e].prepare
             /\ Evicted(en, S)[e].evicting <=> en[e].evicting \/ e \in S
  BY <1>1, <1>3, <1>6 DEF Leases
<1>7. QED  BY <1>3, <1>4, <1>5, <1>6 DEF IsEvicted

LEMMA SoundEvicted ==
    ASSUME NEW at \in AttT, NEW en \in EnvT, NEW st, NEW pr, Sound(at, en, st, pr),
           NEW S \in SUBSET EnvIDs, \A e \in S : en[e] # None
    PROVE  Sound(at, Evicted(en, S), st, pr)
<1>1. IsEvicted(en, S, Evicted(en, S))  BY EvictedOf
<1>2. QED  BY <1>1, SoundLeases DEF IsEvicted

\* The owner of an evicted lease has no other lease.
LEMMA EvictedOwner ==
    ASSUME NEW at \in AttT, NEW en \in EnvT, NEW st, NEW pr, Sound(at, en, st, pr),
           NEW S \in SUBSET EnvIDs, \A e \in S : en[e] # None,
           NEW x \in Attempts, \E e \in S : en[e].owner = x
    PROVE  Evicted(en, S)[EnvOf[x]].evicting
<1>1. PICK e \in S : en[e].owner = x  OBVIOUS
<1>2. e \in EnvIDs /\ en[e] # None /\ EnvOf[x] = e  BY <1>1 DEF Sound, LeaseSound
<1>3. IsEvicted(en, S, Evicted(en, S))  BY EvictedOf
<1>4. QED  BY <1>1, <1>2, <1>3 DEF IsEvicted

\* A save that fails is charged to the budget, which lasts.
LEMMA Budget ==
    ASSUME budget \in 0..MaxFaults, NEW ok \in BOOLEAN, ok \/ budget > 0, Charged(ok)
    PROVE  budget' \in 0..MaxFaults
BY WarmAssumption DEF Charged

LEMMA SavesOf ==
    ASSUME NEW ok \in Saves PROVE ok \in BOOLEAN /\ (ok \/ budget > 0)
BY DEF Saves, MayFail

LEMMA EvictAllKeeps ==
    ASSUME RecordsInv, RestTyped, NEW S \in SUBSET EnvIDs, \A e \in S : env[e] # None,
           EvictAll(S), prepared' = prepared
    PROVE  /\ RecordsInv' /\ budget' \in 0..MaxFaults
           /\ env' = Evicted(env, S)
           /\ \A a \in Attempts : SameLife(att[a], att'[a]) /\ att'[a].phase = att[a].phase
           /\ disk' = disk \/ disk' = Image(att', env')
<1> DEFINE hooks == EvictedOwners(att, env, S)
<1>1. PICK ok \in (IF hooks = {} THEN {TRUE} ELSE Saves) :
        /\ env' = Evicted(env, S)
        /\ att' = IF ok THEN HooksStarted(att, hooks) ELSE att
        /\ disk' = IF ok /\ hooks # {} THEN Image(att', env') ELSE disk
        /\ stack' = IF ok THEN Torn(att, hooks) ELSE stack
        /\ Charged(ok)
  BY DEF EvictAll
<1>2. ok \in BOOLEAN /\ (ok \/ budget > 0)  BY SavesOf
<1>3. budget' \in 0..MaxFaults  BY <1>1, <1>2, Budget DEF RestTyped
<1> DEFINE H == IF ok THEN hooks ELSE {}
<1>4. H \in SUBSET Attempts /\ \A x \in H : HookDue(att, x) /\ \E e \in S : env[e].owner = x
  BY DEF EvictedOwners
<1>5. att' = HooksStarted(att, H) /\ stack' = Torn(att, H)
  BY <1>1, NoHooks DEF RecordsInv
<1>6. disk' = Image(att', env') \/ (H = {} /\ disk' = disk)  BY <1>1
<1> HIDE DEF H, hooks
<1>7. Evicted(env, S) \in EnvT /\ Sound(att, Evicted(env, S), stack, prepared)
  BY EvictedOf, SoundEvicted DEF RecordsInv, IsEvicted
<1>8. \A x \in H : HookDue(att, x) /\ (Owns(Evicted(env, S), x) => Evicted(env, S)[EnvOf[x]].evicting)
  <2> SUFFICES ASSUME NEW x \in H PROVE Evicted(env, S)[EnvOf[x]].evicting  BY <1>4
  <2>1. x \in Attempts /\ \E e \in S : env[e].owner = x  BY <1>4
  <2>2. QED  BY <2>1, EvictedOwner DEF RecordsInv
<1>9. \A a \in Attempts :
              /\ att[a].hook => /\ att[a].phase = "over" /\ ~att[a].delegated /\ ~att[a].done
                                /\ stack[att[a].dir] = "torn"
              /\ ~disk.att[a].hook
  BY DEF RecordsInv, HooksOK
<1>10. stack \in StackT /\ prepared \in PrepT /\ disk \in DiskT /\ att \in AttT
       /\ Sound(disk.att, disk.env, stack, prepared)
  BY DEF RecordsInv
<1>11. /\ RecordsInv'
       /\ \A a \in Attempts : SameLife(att[a], att'[a]) /\ att'[a].phase = att[a].phase
  BY <1>1, <1>4, <1>5, <1>6, <1>7, <1>8, <1>9, <1>10, TearDown
<1>12. QED  BY <1>1, <1>3, <1>6, <1>11

LEMMA ScheduleKeeps ==
    ASSUME RecordsInv, RestTyped, NEW a \in Attempts, NEW at \in AttT, NEW en \in EnvT,
           NEW ver \in [EnvIDs -> Verifications \cup {None}], NEW saved,
           Sound(at, en, stack, prepared),
           \A x \in Attempts :
              at[x].hook => /\ at[x].phase = "over" /\ ~at[x].delegated /\ ~at[x].done
                            /\ stack[at[x].dir] = "torn",
           Schedule(a, at, en, ver, saved), prepared' = prepared
    PROVE  /\ RecordsInv' /\ budget' \in 0..MaxFaults
           /\ env' = en
           /\ \A x \in Attempts : SameLife(at[x], att'[x]) /\ att'[x].phase = at[x].phase
           /\ disk' = disk \/ disk' = Image(att', env')
           /\ \/ verify' = ver
              \/ /\ at[a].phase = "over" /\ Hashes(en, ver, a)
                 /\ verify' = [ver EXCEPT ![EnvOf[a]] =
                                [by |-> "retain", who |-> a, seen |-> "unread"]]
<1> DEFINE due  == {x \in {a} : HookDue(at, x) /\ ~LeaseKeeps(en, ver, x)}
           hash == at[a].phase = "over" /\ ~at[a].delegated /\ Hashes(en, ver, a)
<1>1. PICK ok \in (IF saved \/ due # {} THEN Saves ELSE {TRUE}) :
        /\ att' = IF ok THEN HooksStarted(at, due) ELSE at
        /\ env' = en
        /\ disk' = IF ok /\ (saved \/ due # {}) THEN Image(att', en) ELSE disk
        /\ stack' = IF ok THEN Torn(at, due) ELSE stack
        /\ verify' = IF hash
            THEN [ver EXCEPT ![EnvOf[a]] = [by |-> "retain", who |-> a, seen |-> "unread"]]
            ELSE ver
        /\ Charged(ok)
  BY DEF Schedule
<1>2. ok \in BOOLEAN /\ (ok \/ budget > 0)  BY SavesOf
<1>3. budget' \in 0..MaxFaults  BY <1>1, <1>2, Budget DEF RestTyped
<1> DEFINE H == IF ok THEN due ELSE {}
<1>4. H \in SUBSET Attempts /\ \A x \in H : HookDue(at, x) /\ ~LeaseKeeps(en, ver, x)
  OBVIOUS
<1>5. att' = HooksStarted(at, H) /\ stack' = Torn(at, H)
  BY <1>1, NoHooks DEF RecordsInv
<1>6. disk' = Image(att', env') \/ (H = {} /\ disk' = disk)  BY <1>1
<1>7. verify' = ver \/ (hash /\ verify' = [ver EXCEPT ![EnvOf[a]] =
                                [by |-> "retain", who |-> a, seen |-> "unread"]])
  BY <1>1
<1> HIDE DEF H, due, hash
<1>8. \A x \in H : HookDue(at, x) /\ (Owns(en, x) => en[EnvOf[x]].evicting)
  BY <1>4 DEF LeaseKeeps
<1>9. \A x \in Attempts :
              /\ at[x].hook => /\ at[x].phase = "over" /\ ~at[x].delegated /\ ~at[x].done
                               /\ stack[at[x].dir] = "torn"
              /\ ~disk.att[x].hook
  BY DEF RecordsInv, HooksOK
<1>10. stack \in StackT /\ prepared \in PrepT /\ disk \in DiskT
       /\ Sound(disk.att, disk.env, stack, prepared)
  BY DEF RecordsInv
<1>11. /\ RecordsInv'
       /\ \A x \in Attempts : SameLife(at[x], att'[x]) /\ att'[x].phase = at[x].phase
  BY <1>1, <1>4, <1>5, <1>6, <1>8, <1>9, <1>10, TearDown
<1>12. QED  BY <1>1, <1>3, <1>6, <1>7, <1>11 DEF hash

\* Executions: a new one begins behind a save, an old one keeps its checkout.
LEMMA ExecsKept ==
    ASSUME RecordsInv', ExecsOK,
           \A a \in Attempts :
              /\ exec'[a] # "none" =>
                    /\ att'[a].phase = "active"
                    /\ \/ disk' = Image(att', env')
                       \/ disk' = disk /\ exec[a] # "none" /\ att'[a].dir = att[a].dir
              /\ exec'[a] = "harness" => prepared'[att'[a].dir] = a
    PROVE  ExecsOK'
<1> SUFFICES ASSUME NEW a \in Attempts, exec'[a] # "none"
             PROVE  /\ Holds(disk'.att, a, att'[a].dir)
                    /\ ~disk'.att[a].done
                    /\ Owns(disk'.env, a)
  BY DEF ExecsOK
<1>1. CASE disk' = disk /\ exec[a] # "none" /\ att'[a].dir = att[a].dir  BY <1>1 DEF ExecsOK
<1>2. CASE disk' = Image(att', env')
  <2>1. att' \in AttT /\ env' \in EnvT /\ AttemptSound(att', env', stack', prepared', a)
    BY DEF RecordsInv, Sound
  <2>2. att'[a].phase = "active" /\ ~att'[a].delegated /\ ~att'[a].done /\ Owns(env', a)
    BY <2>1 DEF AttemptSound, Live, Gone
  <2>3. /\ SameLife(att'[a], disk'.att[a]) /\ disk'.att[a].phase = att'[a].phase
        /\ disk'.env = env'
    BY <1>2, <2>1, ImageOf
  <2>4. QED  BY <2>2, <2>3 DEF SameLife, Holds, Gone
<1>3. QED  BY <1>1, <1>2

\* Executions go on or end, and nothing is prepared.
LEMMA ExecsSame ==
    ASSUME RecordsInv', ExecsOK, disk' = disk \/ disk' = Image(att', env'),
           prepared' = prepared,
           \A a \in Attempts : exec'[a] # "none" =>
                exec'[a] = exec[a] /\ att'[a].phase = att[a].phase /\ att'[a].dir = att[a].dir
    PROVE  ExecsOK'
<1>1. \A a \in Attempts :
              /\ exec'[a] # "none" =>
                    /\ att'[a].phase = "active"
                    /\ \/ disk' = Image(att', env')
                       \/ disk' = disk /\ exec[a] # "none" /\ att'[a].dir = att[a].dir
              /\ exec'[a] = "harness" => prepared'[att'[a].dir] = a
  BY DEF ExecsOK
<1>2. QED  BY <1>1, ExecsKept

\* Verifications go on or end.
LEMMA VerifiesSame ==
    ASSUME VerifiesOK,
           \A e \in EnvIDs : verify'[e] # None =>
              /\ verify'[e] = verify[e] /\ env'[e] = env[e]
              /\ att'[env[e].owner].phase = att[env[e].owner].phase
              /\ tree'[env[e].dir] = tree[env[e].dir]
    PROVE  VerifiesOK'
BY DEF VerifiesOK

\* While a checkout is hashed its holder has no execution and no hook.
LEMMA VerifiedIsQuiet ==
    ASSUME WarmInv, NEW e \in EnvIDs, verify[e] # None
    PROVE  /\ env[e] \in Leases /\ env[e] # None /\ env[e].owner \in Attempts /\ env[e].dir \in Attempts
           /\ Holds(att, env[e].owner, env[e].dir) /\ att[env[e].owner].phase = "over"
           /\ EnvOf[env[e].owner] = e
           /\ ~att[env[e].owner].hook
           /\ \A a \in Attempts : att[a].dir = env[e].dir => exec[a] = "none" /\ ~att[a].hook
<1>1. env[e] \in Leases /\ env[e] # None /\ env[e].owner \in Attempts /\ env[e].dir \in Attempts
  BY DEF WarmInv, WarmTypeOK, VerifiesOK, Leases
<1>2. LeaseSound(att, stack, prepared, e, env[e])  BY <1>1 DEF WarmInv, Sound
<1>3. att[env[e].owner].phase = "over" /\ ~env[e].evicting  BY DEF WarmInv, VerifiesOK
<1>4. Holds(att, env[e].owner, env[e].dir) /\ EnvOf[env[e].owner] = e
  BY <1>2, <1>3 DEF LeaseSound
<1>5. stack[env[e].dir] = "intact"  BY <1>2, <1>3 DEF LeaseSound
<1>6. ASSUME NEW a \in Attempts, att[a].dir = env[e].dir
      PROVE  exec[a] = "none" /\ ~att[a].hook
  <2>1. ~att[a].hook  BY <1>5, <1>6 DEF WarmInv, HooksOK
  <2>2. exec[a] = "none"
    <3> SUFFICES ASSUME exec[a] # "none" PROVE FALSE  OBVIOUS
    <3>1. att[a].phase = "active"  BY DEF WarmInv, ExecsOK
    <3>2. Holds(att, a, env[e].dir)
      BY <1>6, <3>1 DEF WarmInv, Sound, AttemptSound, Live, Holds, Gone
    <3>3. a = env[e].owner  BY <1>2, <3>2 DEF LeaseSound
    <3>4. QED  BY <1>3, <3>1, <3>3
  <2>3. QED  BY <2>1, <2>2
<1>7. QED  BY <1>1, <1>3, <1>4, <1>6 DEF Holds

\* An eviction that leaves the leases alone whose verification goes on.
LEMMA EvictStep ==
    ASSUME WarmInv, NEW S \in SUBSET EnvIDs, \A e \in S : env[e] # None, EvictAll(S),
           \A e \in EnvIDs : verify'[e] \in {verify[e], None} /\ (e \in S => verify'[e] = None),
           verify' \in [EnvIDs -> Verifications \cup {None}],
           UNCHANGED <<exec, tree, pending, used, prepared>>
    PROVE  WarmInv'
<1>1. RecordsInv /\ RestTyped /\ ExecsOK /\ VerifiesOK  BY InvParts
<1>2. /\ RecordsInv' /\ budget' \in 0..MaxFaults
      /\ env' = Evicted(env, S)
      /\ \A a \in Attempts : SameLife(att[a], att'[a]) /\ att'[a].phase = att[a].phase
      /\ disk' = disk \/ disk' = Image(att', env')
  BY <1>1, EvictAllKeeps
<1>3. RestTyped'  BY <1>1, <1>2 DEF RestTyped
<1>4. ExecsOK'  BY <1>1, <1>2, ExecsSame DEF SameLife
<1>5. VerifiesOK'
  <2>1. IsEvicted(env, S, env')  BY <1>1, <1>2, EvictedOf DEF RecordsInv
  <2>2. ASSUME NEW e \in EnvIDs, verify'[e] # None
        PROVE  /\ verify'[e] = verify[e] /\ env'[e] = env[e]
               /\ att'[env[e].owner].phase = att[env[e].owner].phase
               /\ tree'[env[e].dir] = tree[env[e].dir]
    <3>1. e \notin S /\ verify'[e] = verify[e]  BY <2>2
    <3>2. env[e].owner \in Attempts  BY <2>2, <3>1, VerifiedIsQuiet
    <3>3. QED  BY <1>2, <2>1, <3>1, <3>2 DEF IsEvicted
  <2>3. QED  BY <1>1, <2>2, VerifiesSame
<1>6. QED  BY <1>2, <1>3, <1>4, <1>5, InvPartsNext

-----------------------------------------------------------------------------
(* Every step keeps the invariant                                          *)

LEMMA WarmInit == ASSUME Init PROVE WarmInv
<1> USE WarmAssumption DEF Init
<1>1. Absent \in AttemptRecords  BY DEF Absent, AttemptRecords
<1>2. att \in AttT /\ env \in EnvT /\ disk \in DiskT /\ stack \in StackT /\ prepared \in PrepT
  BY <1>1 DEF AttT, EnvT, DiskT, StackT, PrepT
<1>3. disk.att = att /\ disk.env = env  OBVIOUS
<1>4. ASSUME NEW a \in Attempts
      PROVE  /\ att[a].phase = "absent" /\ att[a].dir = None /\ ~att[a].hook
             /\ exec[a] = "none" /\ stack[a] = "intact" /\ prepared[a] = a
  BY DEF Absent
<1>5. Sound(att, env, stack, prepared)
  <2>1. \A a \in Attempts : AttemptSound(att, env, stack, prepared, a)
    BY <1>4 DEF AttemptSound, Gone, Live
  <2>2. OneHolder(att)  BY <1>4 DEF OneHolder, Holds, Gone
  <2>3. \A e \in EnvIDs : env[e] = None  OBVIOUS
  <2>4. QED  BY <2>1, <2>2, <2>3 DEF Sound
<1>6. HooksOK  BY <1>3, <1>4 DEF HooksOK
<1>7. RecordsInv  BY <1>2, <1>3, <1>5, <1>6 DEF RecordsInv
<1>8. RestTyped  BY DEF RestTyped, Trees
<1>9. ExecsOK  BY <1>4 DEF ExecsOK
<1>10. VerifiesOK  BY DEF VerifiesOK
<1>11. QED  BY <1>7, <1>8, <1>9, <1>10, InvParts

LEMMA EvictingSteps ==
    ASSUME WarmInv,
           \/ \E a \in Attempts : StartMakesRoom(a) \/ StartEvicts(a)
           \/ \E e \in EnvIDs : StartFindsChange(e)
           \/ Sweep
    PROVE  WarmInv'
<1>0. RestTyped /\ VerifiesOK  BY InvParts
<1>1. ASSUME NEW a \in Attempts, StartMakesRoom(a) PROVE WarmInv'
  <2>1. PICK e \in Idle(env) : EvictAll({e} \ Checking)
    BY <1>1 DEF StartMakesRoom, Evict
  <2>2. UNCHANGED <<verify, exec, tree, pending, used, prepared>> /\ Checking = {}
    BY <1>1 DEF StartMakesRoom, Admitted
  <2>3. {e} \ Checking = {e} /\ {e} \in SUBSET EnvIDs /\ \A f \in {e} : env[f] # None
    BY <2>2 DEF Idle
  <2>4. \A f \in EnvIDs : verify'[f] \in {verify[f], None} /\ (f \in {e} => verify'[f] = None)
    BY <2>2 DEF Checking
  <2>5. QED  BY <1>0, <2>1, <2>2, <2>3, <2>4, EvictStep DEF RestTyped
<1>2. ASSUME NEW a \in Attempts, StartEvicts(a) PROVE WarmInv'
  <2> DEFINE e == EnvOf[a]
  <2>1. e \in Idle(env) /\ EvictAll({e} \ Checking)  BY <1>2 DEF StartEvicts, Evict
  <2>2. UNCHANGED <<verify, exec, tree, pending, used, prepared>> /\ Checking = {}
    BY <1>2 DEF StartEvicts, Admitted
  <2>3. {e} \ Checking = {e} /\ {e} \in SUBSET EnvIDs /\ \A f \in {e} : env[f] # None
    BY <2>1, <2>2 DEF Idle
  <2>4. \A f \in EnvIDs : verify'[f] \in {verify[f], None} /\ (f \in {e} => verify'[f] = None)
    BY <2>2 DEF Checking
  <2>5. QED  BY <1>0, <2>1, <2>2, <2>3, <2>4, EvictStep DEF RestTyped
<1>3. ASSUME NEW e \in EnvIDs, StartFindsChange(e) PROVE WarmInv'
  <2>1. EvictAll({e}) /\ verify' = [verify EXCEPT ![e] = None] /\ verify[e] # None
        /\ UNCHANGED <<exec, tree, pending, used, prepared>>
    BY <1>3 DEF StartFindsChange
  <2>2. {e} \in SUBSET EnvIDs /\ \A f \in {e} : env[f] # None
    BY <1>0, <2>1 DEF VerifiesOK
  <2>3. \A f \in EnvIDs : verify'[f] \in {verify[f], None} /\ (f \in {e} => verify'[f] = None)
    BY <1>0, <2>1 DEF RestTyped
  <2>4. verify' \in [EnvIDs -> Verifications \cup {None}]  BY <1>0, <2>1 DEF RestTyped
  <2>5. QED  BY <2>1, <2>2, <2>3, <2>4, EvictStep
<1>4. ASSUME Sweep PROVE WarmInv'
  <2> DEFINE S == SweepDue \ Checking
  <2>1. EvictAll(S) /\ UNCHANGED <<verify, exec, tree, pending, used, prepared>>
    BY <1>4 DEF Sweep, Evict
  <2>2. S \in SUBSET EnvIDs /\ \A f \in S : env[f] # None  BY DEF SweepDue
  <2>3. \A f \in EnvIDs : verify'[f] \in {verify[f], None} /\ (f \in S => verify'[f] = None)
    BY <2>1 DEF Checking
  <2>4. verify' \in [EnvIDs -> Verifications \cup {None}]  BY <1>0, <2>1 DEF RestTyped
  <2> HIDE DEF S
  <2>5. QED  BY <2>1, <2>2, <2>3, <2>4, EvictStep
<1>5. QED  BY <1>1, <1>2, <1>3, <1>4

\* What a handler has made of the records, of the verifications and of the
\* variables outside of the records when it comes to scheduleCleanupLocked.
HandlerMade(at, en, ver) ==
    /\ at \in AttT /\ en \in EnvT /\ ver \in [EnvIDs -> Verifications \cup {None}]
    /\ Sound(at, en, stack, prepared)
    /\ \A x \in Attempts :
          at[x].hook => /\ at[x].phase = "over" /\ ~at[x].delegated /\ ~at[x].done
                        /\ stack[at[x].dir] = "torn"
    /\ \A x \in Attempts : exec'[x] # "none" =>
          exec'[x] = exec[x] /\ at[x].phase = att[x].phase /\ at[x].dir = att[x].dir
    /\ \A e \in EnvIDs : ver[e] # None =>
          /\ ver[e] = verify[e] /\ en[e] = env[e]
          /\ at[env[e].owner].phase = att[env[e].owner].phase
          /\ tree'[env[e].dir] = tree[env[e].dir]
    /\ exec' \in [Attempts -> {"none", "prepare", "harness", "failed"}]
    /\ tree' \in [Attempts -> Trees] /\ pending' \subseteq Attempts /\ used' \subseteq Attempts
    /\ prepared' = prepared

LEMMA ScheduleStep ==
    ASSUME WarmInv, NEW a \in Attempts, NEW at, NEW en, NEW ver, NEW saved,
           HandlerMade(at, en, ver), Schedule(a, at, en, ver, saved)
    PROVE  WarmInv'
<1> USE DEF HandlerMade
<1>1. RecordsInv /\ RestTyped /\ ExecsOK /\ VerifiesOK  BY InvParts
<1>2. /\ RecordsInv' /\ budget' \in 0..MaxFaults
      /\ env' = en
      /\ \A x \in Attempts : SameLife(at[x], att'[x]) /\ att'[x].phase = at[x].phase
      /\ disk' = disk \/ disk' = Image(att', env')
      /\ \/ verify' = ver
         \/ /\ at[a].phase = "over" /\ Hashes(en, ver, a)
            /\ verify' = [ver EXCEPT ![EnvOf[a]] =
                                [by |-> "retain", who |-> a, seen |-> "unread"]]
  BY <1>1, ScheduleKeeps
<1>3. EnvOf[a] \in EnvIDs  BY WarmAssumption
<1>4. [by |-> "retain", who |-> a, seen |-> "unread"] \in Verifications
  BY DEF Verifications
<1>5. verify' \in [EnvIDs -> Verifications \cup {None}]  BY <1>2, <1>4
<1>6. RestTyped'  BY <1>2, <1>5 DEF RestTyped
<1>7. ExecsOK'
  <2>1. \A x \in Attempts : exec'[x] # "none" =>
                exec'[x] = exec[x] /\ att'[x].phase = att[x].phase /\ att'[x].dir = att[x].dir
    BY <1>2 DEF SameLife
  <2>2. QED  BY <1>1, <1>2, <2>1, ExecsSame
<1>8. VerifiesOK'
  <2> SUFFICES ASSUME NEW e \in EnvIDs, verify'[e] # None
               PROVE  /\ env'[e] # None
                      /\ ~env'[e].evicting
                      /\ EnvOf[verify'[e].who] = e
                      /\ att'[env'[e].owner].phase = "over"
                      /\ verify'[e].by = "retain" => verify'[e].who = env'[e].owner
                      /\ verify'[e].seen \in Trees => verify'[e].seen = tree'[env'[e].dir]
    BY DEF VerifiesOK
  <2>1. CASE verify'[e] = ver[e]
    <3>1. verify[e] # None /\ verify'[e] = verify[e] /\ env'[e] = env[e]  BY <1>2, <2>1
    <3>2. env[e].owner \in Attempts  BY <3>1, VerifiedIsQuiet
    <3>3. att'[env[e].owner].phase = att[env[e].owner].phase  BY <1>2, <2>1, <3>2
    <3>4. tree'[env[e].dir] = tree[env[e].dir]  BY <2>1
    <3>5. /\ env[e] # None /\ ~env[e].evicting
          /\ EnvOf[verify[e].who] = e
          /\ att[env[e].owner].phase = "over"
          /\ verify[e].by = "retain" => verify[e].who = env[e].owner
          /\ verify[e].seen \in Trees => verify[e].seen = tree[env[e].dir]
      BY <1>1, <3>1 DEF VerifiesOK
    <3>6. QED  BY <3>1, <3>3, <3>4, <3>5
  <2>2. CASE verify'[e] # ver[e]
    <3>1. /\ e = EnvOf[a] /\ at[a].phase = "over" /\ Hashes(en, ver, a)
          /\ verify'[e] = [by |-> "retain", who |-> a, seen |-> "unread"]
      BY <1>2, <1>3, <2>2
    <3>2. env'[e] # None /\ env'[e].owner = a /\ ~env'[e].evicting
      BY <1>2, <3>1 DEF Hashes, LeaseKeeps, Owns
    <3>3. QED  BY <1>2, <3>1, <3>2 DEF Trees
  <2>3. QED  BY <2>1, <2>2
<1>9. QED  BY <1>2, <1>6, <1>7, <1>8, InvPartsNext

LEMMA ExecEndsStep ==
    ASSUME WarmInv, NEW a \in Attempts, ExecEnds(a) PROVE WarmInv'
<1>1. RecordsInv /\ RestTyped /\ ExecsOK /\ VerifiesOK  BY InvParts
<1>2. PICK p \in {"over", "parked"} : Schedule(a, [att EXCEPT ![a].phase = p], env, verify, TRUE)
  BY <1>1 DEF ExecEnds
<1>3. /\ exec[a] # "none" /\ exec' = [exec EXCEPT ![a] = "none"]
      /\ tree' = [tree EXCEPT ![att[a].dir] = "one"] /\ UNCHANGED <<pending, used, prepared>>
  BY DEF ExecEnds
<1> DEFINE at == [att EXCEPT ![a].phase = p]
<1>4. at \in AttT /\ at[a] = [att[a] EXCEPT !.phase = p] /\ \A x \in Attempts : x # a => at[x] = att[x]
  BY <1>1 DEF RecordsInv, AttT, AttemptRecords
<1>5. att[a].phase = "active"  BY <1>1, <1>3 DEF ExecsOK
<1>6. /\ at[a].phase = p /\ at[a].dir = att[a].dir /\ at[a].delegated = att[a].delegated
      /\ at[a].done = att[a].done /\ at[a].hook = att[a].hook
  BY <1>1, <1>4 DEF RecordsInv, AttT, AttemptRecords
<1> HIDE DEF at
<1>7. Sound(at, env, stack, prepared)
  <2>1. CASE p = "over"
    <3>1. att[a].phase \in Live  BY <1>5 DEF Live
    <3>2. att \in AttT /\ env \in EnvT /\ Sound(att, env, stack, prepared)
      BY <1>1 DEF RecordsInv
    <3>3. QED  BY <1>4, <1>6, <2>1, <3>1, <3>2, SoundOver
  <2>2. CASE p = "parked"
    <3>1. \A x \in Attempts : SameLife(att[x], at[x])
      BY <1>4, <1>5, <1>6, <2>2 DEF SameLife, Live
    <3>2. QED  BY <1>1, <1>4, <3>1, SoundSimilar DEF RecordsInv
  <2>3. QED  BY <2>1, <2>2
<1>8. \A x \in Attempts :
        at[x].hook => /\ at[x].phase = "over" /\ ~at[x].delegated /\ ~at[x].done
                      /\ stack[at[x].dir] = "torn"
  <2>1. ~at[a].hook  BY <1>1, <1>5, <1>6 DEF RecordsInv, HooksOK
  <2>2. QED  BY <1>1, <1>4, <2>1 DEF RecordsInv, HooksOK
<1>9. \A x \in Attempts : exec'[x] # "none" =>
              exec'[x] = exec[x] /\ at[x].phase = att[x].phase /\ at[x].dir = att[x].dir
  BY <1>1, <1>3, <1>4 DEF RestTyped
<1>10. \A e \in EnvIDs : verify[e] # None =>
              /\ at[env[e].owner].phase = att[env[e].owner].phase
              /\ tree'[env[e].dir] = tree[env[e].dir]
  <2> SUFFICES ASSUME NEW e \in EnvIDs, verify[e] # None
               PROVE  /\ at[env[e].owner].phase = att[env[e].owner].phase
                      /\ tree'[env[e].dir] = tree[env[e].dir]
    OBVIOUS
  <2>1. /\ env[e].owner \in Attempts /\ env[e].dir \in Attempts
        /\ att[env[e].owner].phase = "over" /\ att[a].dir # env[e].dir
    BY <1>3, VerifiedIsQuiet
  <2>2. QED  BY <1>1, <1>3, <1>4, <1>5, <2>1 DEF RestTyped
<1>11. exec' \in [Attempts -> {"none", "prepare", "harness", "failed"}]
       /\ tree' \in [Attempts -> Trees] /\ pending' \subseteq Attempts /\ used' \subseteq Attempts
  BY <1>1, <1>3 DEF RestTyped, Trees
<1>12. Schedule(a, at, env, verify, TRUE)  BY <1>2 DEF at
<1>13. HandlerMade(at, env, verify)
  BY <1>1, <1>3, <1>4, <1>7, <1>8, <1>9, <1>10, <1>11 DEF HandlerMade, RecordsInv, RestTyped
<1>14. QED  BY <1>12, <1>13, ScheduleStep

LEMMA CancelStep ==
    ASSUME WarmInv, NEW a \in Attempts, Cancel(a) PROVE WarmInv'
<1>1. RecordsInv /\ RestTyped /\ ExecsOK /\ VerifiesOK  BY InvParts
<1> DEFINE at == [att EXCEPT ![a].phase = "over"]
<1>2. Schedule(a, at, env, verify, TRUE) /\ att[a].phase \in {"accepted", "parked"}
      /\ UNCHANGED <<exec, tree, pending, used, prepared>>
  BY DEF Cancel
<1>3. at \in AttT /\ \A x \in Attempts : x # a => at[x] = att[x]
  BY <1>1 DEF RecordsInv, AttT, AttemptRecords
<1>4. /\ at[a].phase = "over" /\ at[a].dir = att[a].dir /\ at[a].delegated = att[a].delegated
      /\ at[a].done = att[a].done /\ at[a].hook = att[a].hook
  BY <1>1 DEF RecordsInv, AttT, AttemptRecords
<1> HIDE DEF at
<1>5. Sound(at, env, stack, prepared)
  <2>1. att[a].phase \in Live  BY <1>2 DEF Live
  <2>2. att \in AttT /\ env \in EnvT /\ Sound(att, env, stack, prepared)
    BY <1>1 DEF RecordsInv
  <2>3. QED  BY <1>3, <1>4, <2>1, <2>2, SoundOver
<1>6. \A x \in Attempts :
        at[x].hook => /\ at[x].phase = "over" /\ ~at[x].delegated /\ ~at[x].done
                      /\ stack[at[x].dir] = "torn"
  <2>1. ~at[a].hook  BY <1>1, <1>2, <1>4 DEF RecordsInv, HooksOK
  <2>2. QED  BY <1>1, <1>3, <2>1 DEF RecordsInv, HooksOK
<1>7. \A x \in Attempts : exec[x] # "none" => at[x].phase = att[x].phase /\ at[x].dir = att[x].dir
  BY <1>1, <1>2, <1>3 DEF ExecsOK
<1>8. \A e \in EnvIDs : verify[e] # None => at[env[e].owner].phase = att[env[e].owner].phase
  <2> SUFFICES ASSUME NEW e \in EnvIDs, verify[e] # None
               PROVE  at[env[e].owner].phase = att[env[e].owner].phase
    OBVIOUS
  <2>1. env[e].owner \in Attempts  BY VerifiedIsQuiet
  <2>2. att[env[e].owner].phase = "over"  BY VerifiedIsQuiet
  <2>3. QED  BY <1>3, <1>4, <2>1, <2>2
<1>9. HandlerMade(at, env, verify)
  BY <1>1, <1>2, <1>3, <1>5, <1>6, <1>7, <1>8 DEF HandlerMade, RecordsInv, RestTyped
<1>10. QED  BY <1>2, <1>9, ScheduleStep

LEMMA ReleaseFailsStep ==
    ASSUME WarmInv, NEW e \in EnvIDs, ReleaseFails(e) PROVE WarmInv'
<1>1. RecordsInv /\ RestTyped /\ ExecsOK /\ VerifiesOK  BY InvParts
<1> DEFINE en == Evicted(env, {e})
           ver == [verify EXCEPT ![e] = None]
<1>2. Schedule(verify[e].who, att, en, ver, FALSE) /\ verify[e] # None
      /\ pending' = pending \ {verify[e].who} /\ UNCHANGED <<exec, tree, used, prepared>>
  BY DEF ReleaseFails
<1>3. verify[e].who \in Attempts  BY <1>1, <1>2 DEF RestTyped, Verifications
<1>4. env \in EnvT /\ att \in AttT /\ Sound(att, env, stack, prepared)
      /\ {e} \in SUBSET EnvIDs /\ \A f \in {e} : env[f] # None
  BY <1>1, <1>2 DEF RecordsInv, VerifiesOK
<1>5. IsEvicted(env, {e}, en)  BY <1>4, EvictedOf
<1>6. Sound(att, en, stack, prepared)  BY <1>4, SoundEvicted
<1>7. ver \in [EnvIDs -> Verifications \cup {None}]
      /\ \A f \in EnvIDs : ver[f] # None => f # e /\ ver[f] = verify[f]
  BY <1>1 DEF RestTyped
<1> HIDE DEF en, ver
<1>8. HandlerMade(att, en, ver)
  BY <1>1, <1>2, <1>4, <1>5, <1>6, <1>7
  DEF HandlerMade, RecordsInv, HooksOK, RestTyped, IsEvicted
<1>9. QED  BY <1>2, <1>3, <1>8, ScheduleStep

LEMMA BootStep ==
    ASSUME WarmInv, NEW a \in Attempts, Boot(a) PROVE WarmInv'
<1>1. RecordsInv /\ RestTyped /\ ExecsOK /\ VerifiesOK  BY InvParts
<1>2. Schedule(a, att, env, verify, FALSE) /\ pending' \subseteq pending
      /\ UNCHANGED <<exec, tree, used, prepared>>
  BY DEF Boot
<1>3. HandlerMade(att, env, verify)
  BY <1>1, <1>2 DEF HandlerMade, RecordsInv, HooksOK, RestTyped
<1>4. QED  BY <1>2, <1>3, ScheduleStep

\* A handler that changes nothing but the verification of one lease.
LEMMA VerifyingSteps ==
    ASSUME WarmInv,
           \/ \E a \in Attempts : StartVerifies(a)
           \/ \E e \in EnvIDs : Fingerprint(e) \/ StartRefused(e)
    PROVE  WarmInv'
<1>1. RecordsInv /\ RestTyped /\ ExecsOK /\ VerifiesOK  BY InvParts
<1>2. UNCHANGED <<att, env, disk, exec, tree, pending, budget, stack, used, prepared>>
  BY DEF StartVerifies, Fingerprint, StartRefused, observers
<1>3. RecordsInv' /\ ExecsOK'
  BY <1>1, <1>2 DEF RecordsInv, ExecsOK, HooksOK
<1>4. verify' \in [EnvIDs -> Verifications \cup {None}] /\ VerifiesOK'
  <2>1. ASSUME NEW a \in Attempts, StartVerifies(a)
        PROVE  verify' \in [EnvIDs -> Verifications \cup {None}] /\ VerifiesOK'
    <3> DEFINE e == EnvOf[a]
               v == [by |-> "start", who |-> a, seen |-> "unread"]
    <3>1. e \in EnvIDs /\ env[e] # None /\ env[e].time # "held" /\ ~env[e].evicting
          /\ verify' = [verify EXCEPT ![e] = v]
      BY <2>1 DEF StartVerifies, Idle
    <3>2. v \in Verifications  BY DEF Verifications
    <3>3. att[env[e].owner].phase = "over"
      BY <1>1, <3>1 DEF RecordsInv, Sound, LeaseSound
    <3>4. verify' \in [EnvIDs -> Verifications \cup {None}]
      BY <1>1, <3>1, <3>2 DEF RestTyped
    <3>5. verify'[e] = v /\ \A f \in EnvIDs : f # e => verify'[f] = verify[f]
      BY <1>1, <3>1 DEF RestTyped
    <3>6. v.who = a /\ v.by = "start" /\ v.seen \notin Trees  BY DEF Trees
    <3> HIDE DEF v
    <3>7. VerifiesOK'  BY <1>1, <1>2, <3>1, <3>3, <3>5, <3>6 DEF VerifiesOK
    <3>8. QED  BY <3>4, <3>7
  <2>2. ASSUME NEW e \in EnvIDs, Fingerprint(e)
        PROVE  verify' \in [EnvIDs -> Verifications \cup {None}] /\ VerifiesOK'
    <3>1. verify[e] \in Verifications /\ verify[e] # None
          /\ env[e].dir \in Attempts
      BY <1>1, <2>2, VerifiedIsQuiet DEF Fingerprint, RestTyped
    <3>2. PICK seen \in {tree[env[e].dir], "error"} : verify' = [verify EXCEPT ![e].seen = seen]
      BY <2>2 DEF Fingerprint
    <3>3. seen \in Trees \cup {"error"} /\ (seen \in Trees => seen = tree[env[e].dir])
      BY <1>1, <3>1, <3>2 DEF RestTyped, Trees
    <3>4. /\ verify'[e] \in Verifications /\ verify'[e].by = verify[e].by
          /\ verify'[e].who = verify[e].who /\ verify'[e].seen = seen
      BY <1>1, <3>1, <3>2, <3>3 DEF RestTyped, Verifications
    <3>5. verify' \in [EnvIDs -> Verifications \cup {None}]
          /\ \A f \in EnvIDs : f # e => verify'[f] = verify[f]
      BY <1>1, <3>1, <3>2, <3>4 DEF RestTyped
    <3>6. VerifiesOK'  BY <1>1, <1>2, <3>1, <3>3, <3>4, <3>5 DEF VerifiesOK
    <3>7. QED  BY <3>5, <3>6
  <2>3. ASSUME NEW e \in EnvIDs, StartRefused(e)
        PROVE  verify' \in [EnvIDs -> Verifications \cup {None}] /\ VerifiesOK'
    <3>1. verify' = [verify EXCEPT ![e] = None]  BY <2>3 DEF StartRefused
    <3>2. \A f \in EnvIDs : verify'[f] # None => verify'[f] = verify[f]
      BY <1>1, <3>1 DEF RestTyped
    <3>3. VerifiesOK'  BY <1>1, <1>2, <3>2 DEF VerifiesOK
    <3>4. QED  BY <1>1, <3>1, <3>3 DEF RestTyped
  <2>4. QED  BY <2>1, <2>2, <2>3
<1>5. RestTyped'  BY <1>1, <1>2, <1>4 DEF RestTyped
<1>6. QED  BY <1>3, <1>4, <1>5, InvPartsNext

\* What a start brings to its acceptance: the lease L is the new attempt's, at
\* are the attempts without it, and undone puts the lease back.
MayAccept(a, at, L, undone) ==
    /\ at \in AttT /\ L \in Leases /\ undone \in Leases \cup {None}
    /\ at[a].phase = "absent" /\ att[a].phase = "absent"
    /\ Sound(at, [env EXCEPT ![EnvOf[a]] = L], stack, prepared)
    /\ Sound(att, [env EXCEPT ![EnvOf[a]] = undone], stack, prepared)
    /\ L.owner = a /\ L.time = "held" /\ ~L.evicting
    /\ at[L.dir].phase # "absent" \/ L.dir = a
    /\ \A x \in Attempts :
          /\ at[x].hook => /\ at[x].phase = "over" /\ ~at[x].delegated /\ ~at[x].done
                           /\ stack[at[x].dir] = "torn"
          /\ at[x].phase = att[x].phase
          /\ exec[x] # "none" => at[x].dir = att[x].dir
    /\ verify' \in [EnvIDs -> Verifications \cup {None}]
    /\ tree' \in [Attempts -> Trees]
    /\ \A e \in EnvIDs : verify'[e] # None =>
          /\ e # EnvOf[a] /\ verify'[e] = verify[e]
          /\ tree'[env[e].dir] = tree[env[e].dir]
    /\ UNCHANGED <<pending, stack, prepared>>

\* The record of an attempt that has been accepted with checkout d.
LEMMA Accepted ==
    ASSUME NEW d \in Attempts, NEW p \in Live
    PROVE  LET r == [Absent EXCEPT !.phase = p, !.dir = d]
           IN  /\ r \in AttemptRecords
               /\ r.phase = p /\ r.dir = d
               /\ ~r.delegated /\ ~r.done /\ ~r.hook
<1>1. 0 \in 0..MaxHookRuns  BY WarmAssumption
<1>2. p \in {"absent", "accepted", "active", "parked", "over", "dropped"}  BY DEF Live
<1>3. QED  BY <1>1, <1>2 DEF Absent, AttemptRecords

LEMMA AcceptStep ==
    ASSUME WarmInv, NEW a \in Attempts, NEW at, NEW L, NEW undone,
           MayAccept(a, at, L, undone), Accept(a, at, L, undone)
    PROVE  WarmInv'
<1>1. RecordsInv /\ RestTyped /\ ExecsOK /\ VerifiesOK  BY InvParts
<1> DEFINE e == EnvOf[a]
           en == [env EXCEPT ![e] = L]
           As(p) == [at EXCEPT ![a] = [Absent EXCEPT !.phase = p, !.dir = L.dir]]
<1>2. e \in EnvIDs /\ en \in EnvT /\ L # None /\ L.dir \in Attempts /\ env \in EnvT /\ att \in AttT
  BY <1>1, WarmAssumption, NoneAssumption DEF MayAccept, RecordsInv, EnvT, Leases
<1>3. en[e] = L /\ \A f \in EnvIDs : f # e => en[f] = env[f]  BY <1>2 DEF EnvT
<1>4. [env EXCEPT ![e] = undone] \in EnvT
      /\ \A f \in EnvIDs : f # e => [env EXCEPT ![e] = undone][f] = env[f]
  BY <1>2 DEF EnvT, MayAccept
<1>5. at \in AttT /\ Sound(at, en, stack, prepared)  BY DEF MayAccept
<1>6. exec[a] = "none" /\ ~at[a].hook  BY <1>1 DEF MayAccept, ExecsOK
<1>7. ASSUME NEW p \in Live
      PROVE  /\ As(p) \in AttT /\ As(p)[a].phase = p /\ As(p)[a].dir = L.dir
             /\ ~As(p)[a].hook
             /\ \A x \in Attempts : x # a => As(p)[x] = at[x]
             /\ Sound(As(p), en, stack, prepared)
  <2>1. /\ As(p) \in AttT /\ As(p)[a].phase = p /\ As(p)[a].dir = L.dir
        /\ ~As(p)[a].delegated /\ ~As(p)[a].done /\ ~As(p)[a].hook
        /\ \A x \in Attempts : x # a => As(p)[x] = at[x]
    <3> DEFINE r == [Absent EXCEPT !.phase = p, !.dir = L.dir]
    <3>1. /\ r \in AttemptRecords /\ r.phase = p /\ r.dir = L.dir
          /\ ~r.delegated /\ ~r.done /\ ~r.hook
      BY <1>2, Accepted DEF Absent
    <3>2. As(p) = [at EXCEPT ![a] = r]  OBVIOUS
    <3> HIDE DEF r, As
    <3>3. As(p) \in AttT /\ As(p)[a] = r /\ \A x \in Attempts : x # a => As(p)[x] = at[x]
      BY <1>5, <3>1, <3>2 DEF AttT
    <3>4. QED  BY <3>1, <3>3
  <2> HIDE DEF As, en
  <2>2. /\ at[a].phase = "absent" /\ en[EnvOf[a]].owner = a /\ en[EnvOf[a]].time = "held"
        /\ ~en[EnvOf[a]].evicting /\ en[EnvOf[a]].dir = L.dir /\ en[EnvOf[a]] # None
        /\ at[en[EnvOf[a]].dir].phase # "absent" \/ en[EnvOf[a]].dir = a
    BY <1>2, <1>3 DEF MayAccept
  <2>3. Sound(As(p), en, stack, prepared)  BY <1>2, <1>5, <2>1, <2>2, SoundJoin
  <2>4. QED  BY <2>1, <2>3
<1>8. ASSUME att' \in AttT, env' \in EnvT, Sound(att', env', stack, prepared),
             disk' = disk \/ disk' = Image(att', env'),
             \A x \in Attempts : att'[x].hook =>
                /\ att'[x].phase = "over" /\ ~att'[x].delegated /\ ~att'[x].done
                /\ stack[att'[x].dir] = "torn"
      PROVE  RecordsInv'
  <2>1. stack' = stack /\ prepared' = prepared  BY DEF MayAccept
  <2>2. disk' \in DiskT  BY <1>1, <1>8, ImageOf DEF RecordsInv
  <2>3. Sound(disk'.att, disk'.env, stack, prepared)
    BY <1>1, <1>8, SoundImage DEF RecordsInv
  <2>4. \A x \in Attempts : ~disk'.att[x].hook
    BY <1>1, <1>8, ImageOf DEF RecordsInv, HooksOK
  <2>5. QED  BY <1>1, <1>8, <2>1, <2>2, <2>3, <2>4 DEF RecordsInv, HooksOK
<1>9. ASSUME \A x \in Attempts : x # a => att'[x].phase = att[x].phase,
             \A f \in EnvIDs : f # e => env'[f] = env[f]
      PROVE  VerifiesOK'
  <2>1. ASSUME NEW f \in EnvIDs, verify'[f] # None
        PROVE  /\ verify'[f] = verify[f] /\ env'[f] = env[f]
               /\ att'[env[f].owner].phase = att[env[f].owner].phase
               /\ tree'[env[f].dir] = tree[env[f].dir]
    <3>1. f # e /\ verify'[f] = verify[f] /\ tree'[env[f].dir] = tree[env[f].dir]
      BY <2>1 DEF MayAccept
    <3>2. env[f].owner \in Attempts /\ att[env[f].owner].phase = "over"
      BY <2>1, <3>1, VerifiedIsQuiet
    <3>3. env[f].owner # a  BY <3>2 DEF MayAccept
    <3>4. QED  BY <1>9, <3>1, <3>2, <3>3
  <2>2. QED  BY <1>1, <2>1, VerifiesSame
<1>10. ASSUME exec' = exec, used' = used, budget > 0, Charged(FALSE)
       PROVE  RestTyped'
  <2>1. budget' \in 0..MaxFaults  BY <1>1, <1>10, Budget DEF RestTyped
  <2>2. QED  BY <1>1, <1>10, <2>1 DEF RestTyped, MayAccept
<1>11. \A x \in Attempts :
         /\ at[x].hook => /\ at[x].phase = "over" /\ ~at[x].delegated /\ ~at[x].done
                          /\ stack[at[x].dir] = "torn"
         /\ at[x].phase = att[x].phase
         /\ exec[x] # "none" => at[x].dir = att[x].dir
  BY DEF MayAccept
<1>12. CASE /\ att' = As("active")
            /\ env' = en
            /\ disk' = Image(att', en)
            /\ exec' = [exec EXCEPT ![a] = Launched(en, a)]
            /\ used' = IF Launched(en, a) = "harness" THEN used \cup {L.dir} ELSE used
            /\ UNCHANGED budget
  <2>1. "active" \in Live  BY DEF Live
  <2>2. /\ att' \in AttT /\ att'[a].phase = "active" /\ att'[a].dir = L.dir /\ ~att'[a].hook
        /\ \A x \in Attempts : x # a => att'[x] = at[x]
        /\ Sound(att', env', stack, prepared)
    BY <1>7, <1>12, <2>1
  <2> HIDE DEF As, en
  <2>3. RecordsInv'  BY <1>2, <1>8, <1>11, <1>12, <2>2
  <2>4. VerifiesOK'  BY <1>3, <1>9, <1>11, <1>12, <2>2
  <2>5. Launched(en, a) \in {"prepare", "harness"}  BY DEF Launched
  <2>6. RestTyped'  BY <1>1, <1>2, <1>12, <2>5 DEF RestTyped, MayAccept
  <2>7. Launched(en, a) = "harness" => prepared[L.dir] = a
    <3>1. LeaseSound(at, stack, prepared, e, L)  BY <1>2, <1>3, <1>5 DEF Sound
    <3>2. Launched(en, a) = "harness" => ~L.prepare
      BY <1>2, <1>3 DEF Launched, Owns, MayAccept
    <3>3. QED  BY <3>1, <3>2 DEF LeaseSound, MayAccept
  <2>8. exec'[a] = Launched(en, a) /\ \A x \in Attempts : x # a => exec'[x] = exec[x]
    BY <1>1, <1>12 DEF RestTyped
  <2>9. disk' = Image(att', env')  BY <1>12
  <2>10. ASSUME NEW x \in Attempts
         PROVE  /\ exec'[x] # "none" => att'[x].phase = "active" /\ disk' = Image(att', env')
                /\ exec'[x] = "harness" => prepared'[att'[x].dir] = x
    <3>1. prepared' = prepared  BY DEF MayAccept
    <3>2. CASE x # a
      <4>1. exec'[x] = exec[x] /\ att'[x] = at[x]  BY <2>2, <2>8, <3>2
      <4>2. exec[x] # "none" => at[x].dir = att[x].dir /\ at[x].phase = "active"
        BY <1>1, <1>11 DEF ExecsOK
      <4>3. exec[x] = "harness" => prepared[att[x].dir] = x  BY <1>1 DEF ExecsOK
      <4>4. QED  BY <2>9, <3>1, <4>1, <4>2, <4>3
    <3>3. CASE x = a  BY <2>2, <2>7, <2>8, <2>9, <3>1, <3>3
    <3>4. QED  BY <3>2, <3>3
  <2>11. ExecsOK'  BY <1>1, <2>3, <2>10, ExecsKept
  <2>12. QED  BY <2>3, <2>4, <2>6, <2>11, InvPartsNext
<1>13. CASE /\ budget > 0 /\ Charged(FALSE)
            /\ att' = at /\ env' = en
            /\ UNCHANGED <<disk, exec, used>>
  <2> HIDE DEF en
  <2>1. RecordsInv'  BY <1>2, <1>5, <1>8, <1>11, <1>13
  <2>2. VerifiesOK'  BY <1>3, <1>9, <1>11, <1>13
  <2>3. RestTyped'  BY <1>10, <1>13
  <2>4. prepared' = prepared  BY DEF MayAccept
  <2>5. ExecsOK'  BY <1>1, <1>11, <1>13, <2>1, <2>4, ExecsSame
  <2>6. QED  BY <2>1, <2>2, <2>3, <2>5, InvPartsNext
<1>14. CASE /\ budget > 0 /\ Charged(FALSE)
            /\ env' = [env EXCEPT ![e] = undone]
            /\ UNCHANGED <<att, disk, exec, used>>
  <2>1. Sound(att', env', stack, prepared)  BY <1>14 DEF MayAccept
  <2>2. RecordsInv'  BY <1>1, <1>2, <1>4, <1>8, <1>14, <2>1 DEF RecordsInv, HooksOK
  <2>3. VerifiesOK'  BY <1>4, <1>9, <1>14
  <2>4. RestTyped'  BY <1>10, <1>14
  <2>5. prepared' = prepared  BY DEF MayAccept
  <2>6. ExecsOK'  BY <1>1, <1>14, <2>2, <2>5, ExecsSame
  <2>7. QED  BY <2>2, <2>3, <2>4, <2>6, InvPartsNext
<1>15. CASE /\ budget > 0 /\ Charged(FALSE)
            /\ att' = As("accepted") /\ env' = en
            /\ disk' = disk \/ disk' = Image(att', en)
            /\ UNCHANGED <<exec, used>>
  <2>1. "accepted" \in Live  BY DEF Live
  <2>2. /\ att' \in AttT /\ att'[a].phase = "accepted" /\ att'[a].dir = L.dir /\ ~att'[a].hook
        /\ \A x \in Attempts : x # a => att'[x] = at[x]
        /\ Sound(att', env', stack, prepared)
    BY <1>7, <1>15, <2>1
  <2> HIDE DEF As, en
  <2>3. RecordsInv'  BY <1>2, <1>8, <1>11, <1>15, <2>2
  <2>4. VerifiesOK'  BY <1>3, <1>9, <1>11, <1>15, <2>2
  <2>5. RestTyped'  BY <1>10, <1>15
  <2>6. prepared' = prepared  BY DEF MayAccept
  <2>7. \A x \in Attempts : exec'[x] # "none" =>
                exec'[x] = exec[x] /\ att'[x].phase = att[x].phase /\ att'[x].dir = att[x].dir
    BY <1>6, <1>11, <1>15, <2>2
  <2>8. disk' = disk \/ disk' = Image(att', env')  BY <1>15
  <2>9. ExecsOK'  BY <1>1, <2>3, <2>6, <2>7, <2>8, ExecsSame
  <2>10. QED  BY <2>3, <2>4, <2>5, <2>9, InvPartsNext
<1>16. QED  BY <1>12, <1>13, <1>14, <1>15 DEF Accept, MayFail

LEMMA StartCreatesStep ==
    ASSUME WarmInv, NEW a \in Attempts, StartCreates(a) PROVE WarmInv'
<1>1. RecordsInv /\ RestTyped /\ ExecsOK /\ VerifiesOK  BY InvParts
<1>2. /\ att[a].phase = "absent" /\ env[EnvOf[a]] = None /\ Checking = {}
      /\ Accept(a, att, NewLease(a), None)
      /\ UNCHANGED <<verify, tree, pending, stack, prepared>>
  BY DEF StartCreates, Admitted
<1>3. /\ NewLease(a) \in Leases /\ NewLease(a).owner = a /\ NewLease(a).time = "held"
      /\ ~NewLease(a).evicting /\ NewLease(a).dir = a
  BY DEF NewLease, Leases, Trees
<1>4. Sound(att, [env EXCEPT ![EnvOf[a]] = NewLease(a)], stack, prepared)
  BY <1>1, <1>2, SoundNewLease DEF RecordsInv
<1>5. [env EXCEPT ![EnvOf[a]] = None] = env
  BY <1>1, <1>2, WarmAssumption DEF RecordsInv, EnvT
<1>6. \A e \in EnvIDs : verify'[e] = None  BY <1>2 DEF Checking
<1>7. \A x \in Attempts :
        att[x].hook => /\ att[x].phase = "over" /\ ~att[x].delegated /\ ~att[x].done
                       /\ stack[att[x].dir] = "torn"
  BY <1>1 DEF RecordsInv, HooksOK
<1>8. MayAccept(a, att, NewLease(a), None)
  BY <1>1, <1>2, <1>3, <1>4, <1>5, <1>6, <1>7 DEF MayAccept, RecordsInv, RestTyped
<1>9. QED  BY <1>2, <1>8, AcceptStep

LEMMA StartTransfersStep ==
    ASSUME WarmInv, NEW e \in EnvIDs, StartTransfers(e) PROVE WarmInv'
<1>1. RecordsInv /\ RestTyped /\ ExecsOK /\ VerifiesOK  BY InvParts
<1> DEFINE a == verify[e].who
           o == env[e].owner
           at == [att EXCEPT ![o].delegated = TRUE]
           L == Transferred(env[e], a)
           undone == [env[e] EXCEPT !.evicting = TRUE]
<1>2. /\ verify[e] # None /\ att[a].phase = "absent"
      /\ verify' = [verify EXCEPT ![e] = None]
      /\ Accept(a, at, L, undone)
      /\ UNCHANGED <<pending, stack, prepared>>
  BY DEF StartTransfers, StillAdmitted
<1>3. PICK t \in Trees : tree' = [tree EXCEPT ![env[e].dir] = t]  BY DEF StartTransfers
<1>4. /\ env[e] \in Leases /\ env[e] # None /\ o \in Attempts /\ env[e].dir \in Attempts
      /\ Holds(att, o, env[e].dir) /\ att[o].phase = "over" /\ EnvOf[o] = e
      /\ ~att[o].hook
  BY <1>2, VerifiedIsQuiet
<1>5. a \in Attempts /\ EnvOf[a] = e /\ ~env[e].evicting
  BY <1>1, <1>2 DEF RestTyped, Verifications, VerifiesOK
<1>6. /\ L \in Leases /\ L.owner = a /\ L.time = "held" /\ ~L.evicting /\ L.dir = env[e].dir
  BY <1>4, <1>5 DEF Transferred, Leases
<1>7. undone \in Leases /\ [env EXCEPT ![e] = undone] = Evicted(env, {e})
  BY <1>1, <1>4 DEF Leases, Evicted, RecordsInv, EnvT
<1>8. att \in AttT /\ env \in EnvT /\ Sound(att, env, stack, prepared)  BY <1>1 DEF RecordsInv
<1>9. at \in AttT /\ \A x \in Attempts :
        /\ at[x].phase = att[x].phase /\ at[x].dir = att[x].dir /\ at[x].hook = att[x].hook
        /\ at[x].done = att[x].done /\ (x # o => at[x] = att[x])
  BY <1>4, <1>8 DEF AttT, AttemptRecords
<1>10. at = [att EXCEPT ![env[EnvOf[a]].owner].delegated = TRUE]
  BY <1>5
<1> HIDE DEF at, L, undone, a
<1>11. Sound(at, [env EXCEPT ![EnvOf[a]] = Transferred(env[EnvOf[a]], a)], stack, prepared)
  BY <1>2, <1>4, <1>5, <1>8, <1>9, <1>10, SoundHandOver
<1>12. Sound(at, [env EXCEPT ![EnvOf[a]] = L], stack, prepared)  BY <1>5, <1>11 DEF L
<1>13. Sound(att, [env EXCEPT ![EnvOf[a]] = undone], stack, prepared)
  <2>1. {e} \in SUBSET EnvIDs /\ \A f \in {e} : env[f] # None  BY <1>4
  <2>2. Sound(att, Evicted(env, {e}), stack, prepared)  BY <1>8, <2>1, SoundEvicted
  <2>3. QED  BY <1>5, <1>7, <2>2
<1>14. at[L.dir].phase # "absent"
  <2>1. att[o].dir = env[e].dir /\ att[o].dir # None  BY <1>4, WarmAssumption DEF Holds
  <2>2. att[env[e].dir].phase # "absent"
    BY <1>4, <1>8, <2>1 DEF Sound, AttemptSound
  <2>3. QED  BY <1>4, <1>6, <1>9, <2>2
<1>15. \A x \in Attempts :
        /\ at[x].hook => /\ at[x].phase = "over" /\ ~at[x].delegated /\ ~at[x].done
                         /\ stack[at[x].dir] = "torn"
        /\ at[x].phase = att[x].phase
        /\ exec[x] # "none" => at[x].dir = att[x].dir
  <2>1. ~at[o].hook  BY <1>4, <1>9
  <2>2. QED  BY <1>1, <1>9, <2>1 DEF RecordsInv, HooksOK
<1>16. verify' \in [EnvIDs -> Verifications \cup {None}] /\ tree' \in [Attempts -> Trees]
  BY <1>1, <1>2, <1>3 DEF RestTyped
<1>17. ASSUME NEW f \in EnvIDs, verify'[f] # None
       PROVE  f # e /\ verify'[f] = verify[f] /\ tree'[env[f].dir] = tree[env[f].dir]
  <2>1. f # e /\ verify'[f] = verify[f]  BY <1>1, <1>2, <1>17 DEF RestTyped
  <2>2. env[f].dir \in Attempts /\ env[f] # None  BY <1>17, <2>1, VerifiedIsQuiet
  <2>3. env[f].dir # env[e].dir
    BY <1>4, <1>8, <2>1, <2>2 DEF Sound, LeaseSound
  <2>4. QED  BY <1>1, <1>3, <2>1, <2>2, <2>3 DEF RestTyped
<1>18. at[a].phase = "absent"  BY <1>2, <1>5, <1>9
<1>19. MayAccept(a, at, L, undone)
  BY <1>2, <1>5, <1>6, <1>7, <1>9, <1>12, <1>13, <1>14, <1>15, <1>16, <1>17, <1>18 DEF MayAccept
<1>20. QED  BY <1>2, <1>5, <1>19, AcceptStep

\* A stack that was not intact may be in any other state.
LEMMA SoundStack ==
    ASSUME NEW at \in AttT, NEW en \in EnvT, NEW st, NEW st2, NEW pr, Sound(at, en, st, pr),
           \A d \in Attempts : st[d] = "intact" => st2[d] = "intact"
    PROVE  Sound(at, en, st2, pr)
<1>1. \A a \in Attempts : at[a].dir \in Attempts \cup {None}  BY DEF AttT, AttemptRecords
<1>2. ASSUME NEW a \in Attempts PROVE AttemptSound(at, en, st2, pr, a)
  <2>1. at[a].phase \in Live => at[a].dir \in Attempts
    BY <1>1 DEF Sound, AttemptSound, Live, Gone
  <2>2. QED  BY <2>1 DEF Sound, AttemptSound
<1>3. ASSUME NEW e \in EnvIDs, en[e] # None PROVE LeaseSound(at, st2, pr, e, en[e])
  <2>1. LeaseSound(at, st, pr, e, en[e]) /\ en[e].dir \in Attempts
    BY <1>3 DEF Sound, EnvT, Leases
  <2>2. QED  BY <2>1 DEF LeaseSound
<1>4. QED  BY <1>2, <1>3 DEF Sound

\* Records that are sound stay so through a save, or without one.
LEMMA SavedOrNot ==
    ASSUME RecordsInv, att' \in AttT, env' \in EnvT, stack' \in StackT, prepared' \in PrepT,
           Sound(att', env', stack', prepared'),
           \/ disk' = Image(att', env')
           \/ disk' = disk /\ Sound(disk.att, disk.env, stack', prepared'),
           \A x \in Attempts : att'[x].hook =>
                /\ att'[x].phase = "over" /\ ~att'[x].delegated /\ ~att'[x].done
                /\ stack'[att'[x].dir] = "torn"
    PROVE  RecordsInv'
<1>1. disk' \in DiskT  BY ImageOf DEF RecordsInv
<1>2. Sound(disk'.att, disk'.env, stack', prepared')  BY SoundImage
<1>3. \A x \in Attempts : ~disk'.att[x].hook  BY ImageOf DEF RecordsInv, HooksOK
<1>4. QED  BY <1>1, <1>2, <1>3 DEF RecordsInv, HooksOK

LEMMA LaunchStep ==
    ASSUME WarmInv, NEW a \in Attempts, Launch(a) PROVE WarmInv'
<1>1. RecordsInv /\ RestTyped /\ ExecsOK /\ VerifiesOK  BY InvParts
<1>2. PICK ok \in BOOLEAN :
        /\ ok \/ budget > 0
        /\ att' = [att EXCEPT ![a].phase = IF ok THEN "active" ELSE "accepted"]
        /\ disk' = IF ok THEN Image(att', env) ELSE disk
        /\ exec' = IF ok THEN [exec EXCEPT ![a] = Launched(env, a)] ELSE exec
        /\ used' = IF ok /\ Launched(env, a) = "harness"
                   THEN used \cup {att[a].dir} ELSE used
        /\ Charged(ok)
  BY DEF Launch, MayFail
<1>3. att[a].phase \in {"accepted", "parked"}
      /\ UNCHANGED <<env, verify, tree, pending, stack, prepared>>
  BY DEF Launch
<1>4. att \in AttT /\ env \in EnvT /\ Sound(att, env, stack, prepared)
      /\ Sound(disk.att, disk.env, stack, prepared) /\ stack \in StackT /\ prepared \in PrepT
  BY <1>1 DEF RecordsInv
<1> DEFINE p == IF ok THEN "active" ELSE "accepted"
<1>5. p \in {"active", "accepted"}  OBVIOUS
<1>6. att' = [att EXCEPT ![a].phase = p]  BY <1>2
<1> HIDE DEF p
<1>7. /\ att' \in AttT /\ att'[a].phase = p /\ att'[a].dir = att[a].dir
      /\ att'[a].delegated = att[a].delegated /\ att'[a].done = att[a].done
      /\ att'[a].hook = att[a].hook
      /\ \A x \in Attempts : x # a => att'[x] = att[x]
  BY <1>4, <1>5, <1>6 DEF AttT, AttemptRecords
<1>8. \A x \in Attempts : SameLife(att[x], att'[x])
  BY <1>3, <1>5, <1>7 DEF SameLife, Live
<1>9. Sound(att', env, stack, prepared)  BY <1>4, <1>7, <1>8, SoundSimilar
<1>10. AttemptSound(att, env, stack, prepared, a) /\ att[a].phase \in Live /\ att[a].phase \notin Gone
  BY <1>3, <1>4 DEF Sound, Live, Gone
<1>11. Owns(env, a) /\ att[a].dir \in Attempts
  BY <1>4, <1>10 DEF AttemptSound, AttT, AttemptRecords
<1>12. RecordsInv'
  <2>1. ~att[a].hook  BY <1>1, <1>3 DEF RecordsInv, HooksOK
  <2>2. \A x \in Attempts : att'[x].hook =>
                /\ att'[x].phase = "over" /\ ~att'[x].delegated /\ ~att'[x].done
                /\ stack[att'[x].dir] = "torn"
    BY <1>1, <1>7, <2>1 DEF RecordsInv, HooksOK
  <2>3. disk' = Image(att', env) \/ disk' = disk  BY <1>2
  <2>4. QED  BY <1>1, <1>3, <1>4, <1>7, <1>9, <2>2, <2>3, SavedOrNot
<1>13. RestTyped'
  <2>1. budget' \in 0..MaxFaults  BY <1>1, <1>2, Budget DEF RestTyped
  <2>2. Launched(env, a) \in {"prepare", "harness"}  BY DEF Launched
  <2>3. QED  BY <1>1, <1>2, <1>3, <1>11, <2>1, <2>2 DEF RestTyped
<1>14. ExecsOK'
  <2>1. Launched(env, a) = "harness" => prepared[att[a].dir] = a
    <3>1. EnvOf[a] \in EnvIDs /\ env[EnvOf[a]] # None /\ env[EnvOf[a]].owner = a
      BY <1>11, WarmAssumption DEF Owns
    <3>2. LeaseSound(att, stack, prepared, EnvOf[a], env[EnvOf[a]])  BY <1>4, <3>1 DEF Sound
    <3>3. env[EnvOf[a]].dir = att[a].dir
      BY <1>3, <3>1, <3>2 DEF LeaseSound, Holds
    <3>4. QED  BY <1>11, <3>1, <3>2, <3>3 DEF Launched, LeaseSound
  <2>2. exec[a] = "none"  BY <1>1, <1>3 DEF ExecsOK
  <2>3. ASSUME NEW x \in Attempts
        PROVE /\ exec'[x] # "none" =>
                    /\ att'[x].phase = "active"
                    /\ \/ disk' = Image(att', env')
                       \/ disk' = disk /\ exec[x] # "none" /\ att'[x].dir = att[x].dir
              /\ exec'[x] = "harness" => prepared'[att'[x].dir] = x
    <3>1. CASE x # a
      <4>1. exec'[x] = exec[x] /\ att'[x] = att[x]  BY <1>1, <1>2, <1>7, <3>1 DEF RestTyped
      <4>2. QED  BY <1>1, <1>2, <1>3, <4>1 DEF ExecsOK
    <3>2. CASE x = a /\ ok
      <4>1. exec'[a] = Launched(env, a) /\ att'[a].phase = "active" /\ disk' = Image(att', env')
        BY <1>1, <1>2, <1>3, <1>7, <3>2 DEF RestTyped, p
      <4>2. QED  BY <1>3, <1>7, <2>1, <3>2, <4>1
    <3>3. CASE x = a /\ ~ok  BY <1>2, <2>2, <3>3
    <3>4. QED  BY <3>1, <3>2, <3>3
  <2>4. QED  BY <1>1, <1>12, <2>3, ExecsKept
<1>15. VerifiesOK'
  <2>1. ASSUME NEW e \in EnvIDs, verify'[e] # None
        PROVE  /\ verify'[e] = verify[e] /\ env'[e] = env[e]
               /\ att'[env[e].owner].phase = att[env[e].owner].phase
               /\ tree'[env[e].dir] = tree[env[e].dir]
    <3>1. env[e].owner \in Attempts /\ att[env[e].owner].phase = "over"
      BY <1>3, <2>1, VerifiedIsQuiet
    <3>2. QED  BY <1>3, <1>7, <3>1
  <2>2. QED  BY <1>1, <2>1, VerifiesSame
<1>16. QED  BY <1>12, <1>13, <1>14, <1>15, InvPartsNext

LEMMA DropStep ==
    ASSUME WarmInv, NEW a \in Attempts, Drop(a) PROVE WarmInv'
<1>1. RecordsInv /\ RestTyped /\ ExecsOK /\ VerifiesOK  BY InvParts
<1>2. /\ att' = [att EXCEPT ![a] = [Absent EXCEPT !.phase = "dropped"]]
      /\ disk' = Image(att', env)
      /\ UNCHANGED <<env, verify, exec, tree, pending, budget, stack, used, prepared>>
      /\ exec[a] = "none" /\ ~Owns(env, a) /\ att[a].phase # "absent"
  BY DEF Drop, Purgeable, observers
<1>3. att \in AttT /\ env \in EnvT /\ Sound(att, env, stack, prepared)
      /\ stack \in StackT /\ prepared \in PrepT
  BY <1>1 DEF RecordsInv
<1>4. [Absent EXCEPT !.phase = "dropped"] \in AttemptRecords
  <2>1. 0 \in 0..MaxHookRuns  BY WarmAssumption
  <2>2. QED  BY <2>1 DEF Absent, AttemptRecords
<1>5. att' \in AttT /\ ~att'[a].hook /\ \A x \in Attempts : x # a => att'[x] = att[x]
  BY <1>2, <1>3, <1>4 DEF AttT, Absent
<1>6. Sound(att', env, stack, prepared)  BY <1>2, <1>3, SoundDrop
<1>7. \A x \in Attempts : att'[x].hook =>
                /\ att'[x].phase = "over" /\ ~att'[x].delegated /\ ~att'[x].done
                /\ stack[att'[x].dir] = "torn"
  BY <1>1, <1>5 DEF RecordsInv, HooksOK
<1>8. RecordsInv'  BY <1>1, <1>2, <1>3, <1>5, <1>6, <1>7, SavedOrNot
<1>9. RestTyped'  BY <1>1, <1>2 DEF RestTyped
<1>10. ExecsOK'  BY <1>1, <1>2, <1>5, <1>8, ExecsSame
<1>11. VerifiesOK'
  <2>1. ASSUME NEW e \in EnvIDs, verify'[e] # None
        PROVE  /\ verify'[e] = verify[e] /\ env'[e] = env[e]
               /\ att'[env[e].owner].phase = att[env[e].owner].phase
               /\ tree'[env[e].dir] = tree[env[e].dir]
    <3>1. env[e].owner \in Attempts /\ env[e] # None /\ EnvOf[env[e].owner] = e
      BY <1>2, <2>1, VerifiedIsQuiet
    <3>2. env[e].owner # a  BY <1>2, <3>1 DEF Owns
    <3>3. QED  BY <1>2, <1>5, <3>1, <3>2
  <2>2. QED  BY <1>1, <2>1, VerifiesSame
<1>12. QED  BY <1>8, <1>9, <1>10, <1>11, InvPartsNext

LEMMA HookEndsStep ==
    ASSUME WarmInv, NEW a \in Attempts, HookEnds(a) PROVE WarmInv'
<1>1. RecordsInv /\ RestTyped /\ ExecsOK /\ VerifiesOK  BY InvParts
<1>2. PICK done \in BOOLEAN, ok \in Saves :
        /\ att' = [att EXCEPT ![a].hook = FALSE, ![a].done = done]
        /\ env' = LeasesAfterHook(env, a, done)
        /\ disk' = IF ok THEN Image(att', env') ELSE disk
        /\ stack' = IF done THEN [stack EXCEPT ![att[a].dir] = "clean"] ELSE stack
        /\ Charged(ok)
  BY DEF HookEnds
<1>3. att[a].hook /\ UNCHANGED <<verify, exec, tree, pending, used, prepared>>
  BY DEF HookEnds
<1>4. att \in AttT /\ env \in EnvT /\ disk \in DiskT /\ Sound(att, env, stack, prepared)
      /\ Sound(disk.att, disk.env, stack, prepared) /\ stack \in StackT /\ prepared \in PrepT
  BY <1>1 DEF RecordsInv
<1>5. att[a].phase = "over" /\ ~att[a].delegated /\ ~att[a].done /\ stack[att[a].dir] = "torn"
  BY <1>1, <1>3 DEF RecordsInv, HooksOK
<1>6. att[a].dir \in Attempts /\ Holds(att, a, att[a].dir)
  BY <1>4, <1>5 DEF Sound, AttemptSound, AttT, AttemptRecords, Gone, Holds
<1>7. /\ att' \in AttT /\ ~att'[a].hook /\ att'[a].done = done
      /\ att'[a].phase = att[a].phase /\ att'[a].dir = att[a].dir
      /\ att'[a].delegated = att[a].delegated
      /\ \A x \in Attempts : x # a => att'[x] = att[x]
  BY <1>2, <1>4 DEF AttT, AttemptRecords
<1>8. /\ env' \in EnvT
      /\ \A e \in EnvIDs : env'[e] = env[e] \/ (env[e].owner = a /\ env[e].evicting)
  BY <1>2, <1>4 DEF LeasesAfterHook, EnvT
<1>9. /\ stack' \in StackT
      /\ \A d \in Attempts : d # att[a].dir => stack'[d] = stack[d]
      /\ \A d \in Attempts : stack[d] = "intact" => stack'[d] = "intact"
  BY <1>2, <1>4, <1>5 DEF StackT
<1>10. Sound(att', env', stack, prepared)
  <2>1. stack[att[a].dir] # "intact"  BY <1>5
  <2>2. Sound(att', LeasesAfterHook(env, a, done), stack, prepared)
    BY <1>4, <1>5, <1>7, <2>1, SoundHookEnds
  <2>3. QED  BY <1>2, <2>2
<1>11. Sound(att', env', stack', prepared) /\ Sound(disk.att, disk.env, stack', prepared)
  <2>1. disk.att \in AttT /\ disk.env \in EnvT
        /\ \A d \in Attempts : stack[d] = "intact" => stack'[d] = "intact"
    BY <1>4, <1>9 DEF DiskT
  <2>0. att' \in AttT /\ env' \in EnvT  BY <1>7, <1>8
  <2>2. Sound(att', env', stack', prepared)  BY <1>10, <2>0, <2>1, SoundStack
  <2>3. Sound(disk.att, disk.env, stack', prepared)
    BY <1>4, <2>1, SoundStack
  <2>4. QED  BY <2>2, <2>3
<1>12. RecordsInv'
  <2>1. ASSUME NEW x \in Attempts, att'[x].hook
        PROVE  /\ att'[x].phase = "over" /\ ~att'[x].delegated /\ ~att'[x].done
               /\ stack'[att'[x].dir] = "torn"
    <3>1. x # a  BY <1>7, <2>1
    <3>2. att'[x] = att[x] /\ att[x].hook  BY <1>7, <2>1, <3>1
    <3>3. att[x].phase = "over" /\ ~att[x].delegated /\ ~att[x].done
          /\ stack[att[x].dir] = "torn"
      BY <1>1, <3>2 DEF RecordsInv, HooksOK
    <3>4. att[x].dir \in Attempts /\ Holds(att, x, att[x].dir)
      BY <1>4, <3>3 DEF Sound, AttemptSound, AttT, AttemptRecords, Gone, Holds
    <3>5. att[x].dir # att[a].dir  BY <1>4, <1>6, <3>1, <3>4 DEF Sound, OneHolder
    <3>6. QED  BY <1>9, <3>2, <3>3, <3>4, <3>5
  <2>2. disk' = Image(att', env') \/ disk' = disk  BY <1>2
  <2>3. QED  BY <1>1, <1>3, <1>4, <1>7, <1>8, <1>9, <1>11, <2>1, <2>2, SavedOrNot
<1>13. RestTyped'
  <2>1. budget' \in 0..MaxFaults  BY <1>1, <1>2, SavesOf, Budget DEF RestTyped
  <2>2. QED  BY <1>1, <1>3, <2>1 DEF RestTyped
<1>14. ExecsOK'
  <2>1. exec[a] = "none"  BY <1>1, <1>5 DEF ExecsOK
  <2>2. QED  BY <1>1, <1>2, <1>3, <1>7, <1>12, <2>1, ExecsSame
<1>15. VerifiesOK'
  <2>1. ASSUME NEW e \in EnvIDs, verify'[e] # None
        PROVE  /\ verify'[e] = verify[e] /\ env'[e] = env[e]
               /\ att'[env[e].owner].phase = att[env[e].owner].phase
               /\ tree'[env[e].dir] = tree[env[e].dir]
    <3>1. env[e].owner \in Attempts /\ ~att[env[e].owner].hook
      BY <1>3, <2>1, VerifiedIsQuiet
    <3>2. env[e].owner # a  BY <1>3, <3>1
    <3>3. QED  BY <1>3, <1>7, <1>8, <3>1, <3>2
  <2>2. QED  BY <1>1, <2>1, VerifiesSame
<1>16. QED  BY <1>12, <1>13, <1>14, <1>15, InvPartsNext

LEMMA PrepareEndsStep ==
    ASSUME WarmInv, NEW a \in Attempts, PrepareEnds(a) PROVE WarmInv'
<1>1. RecordsInv /\ RestTyped /\ ExecsOK /\ VerifiesOK  BY InvParts
<1> DEFINE e == EnvOf[a]
           d == att[a].dir
<1>2. PICK out \in {"ok", "cancelled", "failed"}, ok \in Saves :
        /\ env' = [env EXCEPT ![e].prepare = @ /\ out # "ok",
                              ![e].evicting = @ \/ out = "failed"]
        /\ disk' = IF ok THEN Image(att, env') ELSE disk
        /\ exec' = [exec EXCEPT ![a] = IF ok /\ out = "ok" THEN "harness" ELSE "failed"]
        /\ prepared' = IF out = "ok" THEN [prepared EXCEPT ![d] = a] ELSE prepared
        /\ used' = used \cup {d}
        /\ Charged(ok)
  BY DEF PrepareEnds
<1>3. exec[a] = "prepare" /\ UNCHANGED <<att, verify, tree, pending, stack>>
  BY DEF PrepareEnds
<1>4. att \in AttT /\ env \in EnvT /\ disk \in DiskT /\ Sound(att, env, stack, prepared)
      /\ Sound(disk.att, disk.env, stack, prepared) /\ stack \in StackT /\ prepared \in PrepT
  BY <1>1 DEF RecordsInv
<1>5. att[a].phase = "active" /\ Holds(disk.att, a, d) /\ Owns(disk.env, a)
  BY <1>1, <1>3 DEF ExecsOK
<1>6. d \in Attempts /\ Holds(att, a, d) /\ Owns(env, a)
  BY <1>4, <1>5 DEF Sound, AttemptSound, AttT, AttemptRecords, Gone, Live, Holds
<1>7. e \in EnvIDs /\ env[e] # None /\ env[e] \in Leases /\ env[e].owner = a
  BY <1>4, <1>6, WarmAssumption DEF Owns, EnvT
<1>8. env[e].dir = d
  BY <1>4, <1>5, <1>7 DEF Sound, LeaseSound, Holds
<1>9. prepared' \in PrepT /\ (out = "ok" => prepared'[d] = a)
      /\ \A x \in Attempts : x # d => prepared'[x] = prepared[x]
  BY <1>2, <1>4, <1>6 DEF PrepT
<1>10. Sound(att, env, stack, prepared') /\ Sound(disk.att, disk.env, stack, prepared')
  <2>1. Sound(att, env, stack, [prepared EXCEPT ![d] = a])  BY <1>4, <1>6, SoundPrepared
  <2>2. Sound(disk.att, disk.env, stack, [prepared EXCEPT ![d] = a])
    BY <1>4, <1>5, <1>6, SoundPrepared DEF DiskT
  <2>3. QED  BY <1>2, <1>4, <2>1, <2>2
<1>11. /\ env'[e] \in Leases /\ env'[e].owner = a /\ env'[e].dir = d /\ env'[e].time = env[e].time
       /\ env'[e].evicting <=> env[e].evicting \/ out = "failed"
       /\ env'[e].prepare <=> env[e].prepare /\ out # "ok"
  <2> DEFINE p == env[e].prepare /\ out # "ok"
             v == env[e].evicting \/ out = "failed"
             r == [env[e] EXCEPT !.prepare = p, !.evicting = v]
  <2>1. p \in BOOLEAN /\ v \in BOOLEAN  OBVIOUS
  <2>2. env' = [env EXCEPT ![e] = r]  BY <1>2, <1>4, <1>7 DEF EnvT, Leases
  <2>3. env'[e] = r  BY <1>4, <1>7, <2>2 DEF EnvT
  <2> HIDE DEF p, v
  <2>4. /\ r \in Leases /\ r.owner = env[e].owner /\ r.dir = env[e].dir /\ r.time = env[e].time
        /\ r.evicting = v /\ r.prepare = p
    BY <1>7, <2>1 DEF Leases
  <2> HIDE DEF r
  <2>5. QED  BY <1>7, <1>8, <2>3, <2>4 DEF p, v
<1>12. env' \in EnvT /\ \A f \in EnvIDs : f # e => env'[f] = env[f]
  BY <1>2, <1>4, <1>7, <1>11 DEF EnvT
<1>13. Sound(att, env', stack, prepared')
  <2>1. \A f \in EnvIDs :
              /\ env'[f] = None <=> env[f] = None
              /\ env[f] # None =>
                    /\ env'[f].owner = env[f].owner /\ env'[f].dir = env[f].dir
                    /\ env'[f].time = env[f].time
                    /\ ~env'[f].evicting => ~env[f].evicting
                    /\ ~env'[f].prepare => ~env[f].prepare \/ prepared'[env[f].dir] = env[f].owner
    BY <1>7, <1>8, <1>9, <1>11, <1>12, NoneAssumption
  <2>2. QED  BY <1>4, <1>10, <1>12, <2>1, SoundLeases
<1>14. RecordsInv'
  <2>1. disk' = Image(att', env') \/ disk' = disk  BY <1>2, <1>3
  <2>2. \A x \in Attempts : att'[x].hook =>
                /\ att'[x].phase = "over" /\ ~att'[x].delegated /\ ~att'[x].done
                /\ stack'[att'[x].dir] = "torn"
    BY <1>1, <1>3 DEF RecordsInv, HooksOK
  <2>3. QED  BY <1>1, <1>3, <1>4, <1>9, <1>10, <1>12, <1>13, <2>1, <2>2, SavedOrNot
<1>15. RestTyped'
  <2>1. budget' \in 0..MaxFaults  BY <1>1, <1>2, SavesOf, Budget DEF RestTyped
  <2>2. QED  BY <1>1, <1>2, <1>3, <1>6, <2>1 DEF RestTyped
<1>16. ExecsOK'
  <2>1. exec'[a] \in {"harness", "failed"} /\ (exec'[a] = "harness" => out = "ok")
        /\ \A x \in Attempts : x # a => exec'[x] = exec[x]
    BY <1>1, <1>2 DEF RestTyped
  <2>2. disk' = Image(att', env') \/ disk' = disk  BY <1>2, <1>3
  <2>3. ASSUME NEW x \in Attempts
        PROVE /\ exec'[x] # "none" =>
                    /\ att'[x].phase = "active"
                    /\ \/ disk' = Image(att', env')
                       \/ disk' = disk /\ exec[x] # "none" /\ att'[x].dir = att[x].dir
              /\ exec'[x] = "harness" => prepared'[att'[x].dir] = x
    <3>1. CASE x = a  BY <1>3, <1>5, <1>9, <2>1, <2>2, <3>1
    <3>2. CASE x # a
      <4>1. exec'[x] = exec[x]  BY <2>1, <3>2
      <4>2. exec[x] # "none" => att[x].phase = "active"  BY <1>1 DEF ExecsOK
      <4>3. exec[x] # "none" => Holds(att, x, att[x].dir) /\ att[x].dir \in Attempts
        BY <1>4, <4>2 DEF Sound, AttemptSound, AttT, AttemptRecords, Gone, Live, Holds
      <4>4. exec[x] # "none" => att[x].dir # d
        BY <1>4, <1>6, <3>2, <4>3 DEF Sound, OneHolder
      <4>5. QED  BY <1>1, <1>3, <1>9, <2>2, <4>1, <4>2, <4>3, <4>4 DEF ExecsOK
    <3>3. QED  BY <3>1, <3>2
  <2>4. QED  BY <1>1, <1>14, <2>3, ExecsKept
<1>17. VerifiesOK'
  <2>1. ASSUME NEW f \in EnvIDs, verify'[f] # None
        PROVE  /\ verify'[f] = verify[f] /\ env'[f] = env[f]
               /\ att'[env[f].owner].phase = att[env[f].owner].phase
               /\ tree'[env[f].dir] = tree[env[f].dir]
    <3>1. att[env[f].owner].phase = "over"  BY <1>3, <2>1, VerifiedIsQuiet
    <3>2. f # e  BY <1>5, <1>7, <3>1
    <3>3. QED  BY <1>3, <1>12, <3>2
  <2>2. QED  BY <1>1, <2>1, VerifiesSame
<1>18. QED  BY <1>14, <1>15, <1>16, <1>17, InvPartsNext

LEMMA ReleaseStep ==
    ASSUME WarmInv, NEW e \in EnvIDs, Release(e) PROVE WarmInv'
<1>1. RecordsInv /\ RestTyped /\ ExecsOK /\ VerifiesOK  BY InvParts
<1> DEFINE others == (Idle(env) \ {e}) \ Checking
           hooks == EvictedOwners(att, env, others)
           idle(ok) == [env EXCEPT ![e].print = verify[e].seen, ![e].time = "idle",
                                   ![e].evicting = ~ok]
<1>2. PICK ok \in Saves :
        /\ env' = Evicted(idle(ok), others)
        /\ att' = IF ok THEN HooksStarted(att, hooks) ELSE att
        /\ disk' = IF ok THEN Image(att', env') ELSE disk
        /\ stack' = IF ok THEN Torn(att, hooks) ELSE stack
        /\ Charged(ok)
  BY DEF Release
<1>3. /\ verify[e] # None /\ verify[e].seen \in Trees
      /\ verify' = [verify EXCEPT ![e] = None] /\ pending' = pending \ {verify[e].who}
      /\ UNCHANGED <<exec, tree, used, prepared>>
  BY DEF Release
<1>4. att \in AttT /\ env \in EnvT /\ disk \in DiskT /\ Sound(att, env, stack, prepared)
      /\ Sound(disk.att, disk.env, stack, prepared) /\ stack \in StackT /\ prepared \in PrepT
  BY <1>1 DEF RecordsInv
<1>5. env[e] \in Leases /\ env[e] # None /\ att[env[e].owner].phase = "over" /\ ~env[e].evicting
  BY <1>1, <1>3, VerifiedIsQuiet DEF VerifiesOK
<1>6. ok \in BOOLEAN /\ (ok \/ budget > 0)  BY SavesOf
<1> DEFINE en == idle(ok)
<1>7. /\ en[e] \in Leases /\ en[e].owner = env[e].owner /\ en[e].dir = env[e].dir
      /\ en[e].prepare = env[e].prepare
      /\ \A f \in EnvIDs : f # e => en[f] = env[f]
      /\ en \in EnvT
  <2> DEFINE r == [env[e] EXCEPT !.print = verify[e].seen, !.time = "idle", !.evicting = ~ok]
  <2>1. en = [env EXCEPT ![e] = r]  BY <1>4, <1>5 DEF EnvT, Leases
  <2>2. /\ r \in Leases /\ r.owner = env[e].owner /\ r.dir = env[e].dir
        /\ r.prepare = env[e].prepare
    BY <1>3, <1>5, <1>6 DEF Leases
  <2> HIDE DEF r, idle
  <2>3. en[e] = r /\ en \in EnvT /\ \A f \in EnvIDs : f # e => en[f] = env[f]
    BY <1>4, <2>1, <2>2 DEF EnvT
  <2>4. QED  BY <2>2, <2>3
<1>8. env' = Evicted(en, others)  BY <1>2
<1> HIDE DEF idle
<1>9. Sound(att, en, stack, prepared)
  <2>1. \A f \in EnvIDs :
              /\ en[f] = None <=> env[f] = None
              /\ env[f] # None =>
                    /\ en[f].owner = env[f].owner /\ en[f].dir = env[f].dir
                    /\ en[f].time = env[f].time \/ att[env[f].owner].phase = "over"
                    /\ ~en[f].evicting => ~env[f].evicting
                    /\ ~en[f].prepare => ~env[f].prepare \/ prepared[env[f].dir] = env[f].owner
    BY <1>5, <1>7, NoneAssumption
  <2>2. QED  BY <1>4, <1>7, <2>1, SoundLeases
<1>10. others \in SUBSET EnvIDs
       /\ \A f \in others : f # e /\ env[f] # None /\ en[f] = env[f] /\ verify[f] = None
  BY <1>7 DEF Idle, Checking
<1> DEFINE H == IF ok THEN hooks ELSE {}
<1>11. H \in SUBSET Attempts /\ \A x \in H : HookDue(att, x) /\ \E f \in others : env[f].owner = x
  BY DEF EvictedOwners
<1>12. att' = HooksStarted(att, H) /\ stack' = Torn(att, H)  BY <1>2, <1>4, NoHooks
<1>13. disk' = Image(att', env') \/ (H = {} /\ disk' = disk)  BY <1>2
<1> HIDE DEF H, hooks, others
<1>14. IsEvicted(en, others, env') /\ Sound(att, env', stack, prepared)
  BY <1>7, <1>8, <1>9, <1>10, EvictedOf, SoundEvicted, <1>4
<1>15. \A x \in H : HookDue(att, x) /\ (Owns(env', x) => env'[EnvOf[x]].evicting)
  <2> SUFFICES ASSUME NEW x \in H PROVE env'[EnvOf[x]].evicting  BY <1>11
  <2>1. x \in Attempts /\ \E f \in others : en[f].owner = x  BY <1>10, <1>11
  <2>2. \A f \in others : en[f] # None  BY <1>10
  <2>3. QED  BY <1>4, <1>7, <1>8, <1>9, <1>10, <2>1, <2>2, EvictedOwner
<1>16. \A x \in Attempts :
         /\ att[x].hook => /\ att[x].phase = "over" /\ ~att[x].delegated /\ ~att[x].done
                           /\ stack[att[x].dir] = "torn"
         /\ ~disk.att[x].hook
  BY <1>1 DEF RecordsInv, HooksOK
<1>17. /\ RecordsInv'
       /\ \A x \in Attempts : SameLife(att[x], att'[x]) /\ att'[x].phase = att[x].phase
  <2>1. env' \in EnvT /\ prepared' = prepared  BY <1>3, <1>14 DEF IsEvicted
  <2>2. QED
    BY <1>4, <1>11, <1>12, <1>13, <1>14, <1>15, <1>16, <2>1, TearDown
<1>18. RestTyped'
  <2>1. budget' \in 0..MaxFaults  BY <1>1, <1>2, <1>6, Budget DEF RestTyped
  <2>2. QED  BY <1>1, <1>3, <2>1 DEF RestTyped
<1>19. ExecsOK'
  <2>1. disk' = disk \/ disk' = Image(att', env')  BY <1>13
  <2>2. QED  BY <1>1, <1>3, <1>17, <2>1, ExecsSame DEF SameLife
<1>20. VerifiesOK'
  <2>1. ASSUME NEW f \in EnvIDs, verify'[f] # None
        PROVE  /\ verify'[f] = verify[f] /\ env'[f] = env[f]
               /\ att'[env[f].owner].phase = att[env[f].owner].phase
               /\ tree'[env[f].dir] = tree[env[f].dir]
    <3>1. f # e /\ verify'[f] = verify[f] /\ verify[f] # None
      BY <1>1, <1>3, <2>1 DEF RestTyped
    <3>2. f \notin others  BY <1>10, <3>1
    <3>3. env'[f] = env[f]  BY <1>7, <1>14, <3>1, <3>2 DEF IsEvicted
    <3>4. env[f].owner \in Attempts  BY <3>1, VerifiedIsQuiet
    <3>5. QED  BY <1>3, <1>17, <3>1, <3>3, <3>4
  <2>2. QED  BY <1>1, <2>1, VerifiesSame
<1>21. QED  BY <1>17, <1>18, <1>19, <1>20, InvPartsNext

LEMMA ExpireStep ==
    ASSUME WarmInv, NEW e \in EnvIDs, Expire(e) PROVE WarmInv'
<1>1. RecordsInv /\ RestTyped /\ ExecsOK /\ VerifiesOK  BY InvParts
<1>2. /\ env[e] # None /\ env[e].time = "idle" /\ env' = [env EXCEPT ![e].time = "due"]
      /\ UNCHANGED <<att, disk, verify, exec, tree, pending, budget, stack, used, prepared>>
  BY DEF Expire, observers
<1>3. env \in EnvT /\ env[e] \in Leases /\ att[env[e].owner].phase = "over"
  BY <1>1, <1>2 DEF RecordsInv, EnvT, Sound, LeaseSound
<1>4. /\ env'[e] \in Leases /\ env'[e].owner = env[e].owner /\ env'[e].dir = env[e].dir
      /\ env'[e].evicting = env[e].evicting /\ env'[e].prepare = env[e].prepare
  BY <1>2, <1>3 DEF EnvT, Leases
<1>5. env' \in EnvT /\ \A f \in EnvIDs : f # e => env'[f] = env[f]
  BY <1>2, <1>3, <1>4 DEF EnvT
<1>6. Sound(att, env', stack, prepared)
  <2>1. \A f \in EnvIDs :
              /\ env'[f] = None <=> env[f] = None
              /\ env[f] # None =>
                    /\ env'[f].owner = env[f].owner /\ env'[f].dir = env[f].dir
                    /\ env'[f].time = env[f].time \/ att[env[f].owner].phase = "over"
                    /\ ~env'[f].evicting => ~env[f].evicting
                    /\ ~env'[f].prepare => ~env[f].prepare \/ prepared[env[f].dir] = env[f].owner
    BY <1>2, <1>3, <1>4, <1>5, NoneAssumption
  <2>2. QED  BY <1>1, <1>5, <2>1, SoundLeases DEF RecordsInv
<1>7. RecordsInv'  BY <1>1, <1>2, <1>5, <1>6 DEF RecordsInv, HooksOK
<1>8. RestTyped' /\ ExecsOK'  BY <1>1, <1>2 DEF RestTyped, ExecsOK
<1>9. VerifiesOK'
  <2>1. ASSUME NEW f \in EnvIDs
        PROVE  /\ env'[f] = None <=> env[f] = None
               /\ env[f] # None => /\ env'[f].evicting = env[f].evicting
                                   /\ env'[f].owner = env[f].owner
                                   /\ env'[f].dir = env[f].dir
    BY <1>2, <1>4, <1>5, NoneAssumption
  <2>2. QED  BY <1>1, <1>2, <2>1 DEF VerifiesOK
<1>10. QED  BY <1>7, <1>8, <1>9, InvPartsNext

LEMMA OutsideEditStep ==
    ASSUME WarmInv, NEW e \in EnvIDs, OutsideEdit(e) PROVE WarmInv'
<1>1. RecordsInv /\ RestTyped /\ ExecsOK /\ VerifiesOK  BY InvParts
<1>2. /\ env[e] # None /\ verify[e] = None
      /\ tree' = [tree EXCEPT ![env[e].dir] = Rewritten(tree[env[e].dir])]
      /\ UNCHANGED <<att, env, disk, verify, exec, pending, budget, stack, used, prepared>>
  BY DEF OutsideEdit, observers, Idle
<1>3. RecordsInv' /\ ExecsOK'  BY <1>1, <1>2 DEF RecordsInv, ExecsOK, HooksOK
<1>4. RestTyped'  BY <1>1, <1>2 DEF RestTyped, Rewritten, Trees
<1>5. VerifiesOK'
  <2>1. ASSUME NEW f \in EnvIDs, verify'[f] # None
        PROVE  /\ verify'[f] = verify[f] /\ env'[f] = env[f]
               /\ att'[env[f].owner].phase = att[env[f].owner].phase
               /\ tree'[env[f].dir] = tree[env[f].dir]
    <3>1. f # e /\ verify[f] # None  BY <1>2, <2>1
    <3>2. env[f] # None /\ env[f].dir \in Attempts  BY <3>1, VerifiedIsQuiet
    <3>3. env[f].dir # env[e].dir
      BY <1>1, <1>2, <3>1, <3>2 DEF RecordsInv, Sound, LeaseSound
    <3>4. QED  BY <1>1, <1>2, <3>2, <3>3 DEF RestTyped
  <2>2. QED  BY <1>1, <2>1, VerifiesSame
<1>6. QED  BY <1>3, <1>4, <1>5, InvPartsNext

LEMMA CrashStep ==
    ASSUME WarmInv, Crash PROVE WarmInv'
<1>1. RecordsInv /\ RestTyped /\ ExecsOK /\ VerifiesOK  BY InvParts
<1>2. /\ budget > 0 /\ Charged(FALSE) /\ att' = Recovered(disk.att) /\ env' = disk.env
      /\ disk' = Image(att', env') /\ verify' = [e \in EnvIDs |-> None]
      /\ exec' = [a \in Attempts |-> "none"] /\ pending' \subseteq Attempts
      /\ UNCHANGED <<tree, stack, used, prepared>>
  BY DEF Crash, observers
<1>3. disk.att \in AttT /\ disk.env \in EnvT /\ Sound(disk.att, disk.env, stack, prepared)
      /\ stack \in StackT /\ prepared \in PrepT /\ \A a \in Attempts : ~disk.att[a].hook
  BY <1>1 DEF RecordsInv, DiskT, HooksOK
<1>4. ASSUME NEW a \in Attempts
      PROVE  att'[a] \in AttemptRecords /\ ~att'[a].hook /\ SameLife(disk.att[a], att'[a])
  <2>1. disk.att[a] \in AttemptRecords /\ ~disk.att[a].hook  BY <1>3 DEF AttT
  <2>2. att'[a] = [disk.att[a] EXCEPT !.phase =
            IF disk.att[a].phase \in {"accepted", "active"} THEN "parked" ELSE disk.att[a].phase]
    BY <1>2 DEF Recovered
  <2>3. CASE disk.att[a].phase \in {"accepted", "active"}
    <3>1. att'[a] = [disk.att[a] EXCEPT !.phase = "parked"]  BY <2>2, <2>3
    <3>2. QED  BY <2>1, <2>3, <3>1 DEF AttemptRecords, SameLife, Live
  <2>4. CASE disk.att[a].phase \notin {"accepted", "active"}
    <3>1. att'[a] = disk.att[a]  BY <2>1, <2>2, <2>4 DEF AttemptRecords
    <3>2. QED  BY <2>1, <3>1 DEF SameLife
  <2>5. QED  BY <2>3, <2>4
<1>5. att' \in AttT  BY <1>2, <1>4 DEF Recovered, AttT
<1>6. Sound(att', env', stack', prepared')  BY <1>2, <1>3, <1>4, <1>5, SoundSimilar
<1>7. RecordsInv'
  <2>1. stack' \in StackT /\ prepared' \in PrepT /\ env' \in EnvT  BY <1>2, <1>3
  <2>2. QED  BY <1>1, <1>2, <1>4, <1>5, <1>6, <2>1, SavedOrNot
<1>8. RestTyped'
  <2>1. budget' \in 0..MaxFaults  BY <1>1, <1>2, Budget DEF RestTyped
  <2>2. QED  BY <1>1, <1>2, <2>1 DEF RestTyped
<1>9. ExecsOK'  BY <1>2 DEF ExecsOK
<1>10. VerifiesOK'  BY <1>2 DEF VerifiesOK
<1>11. QED  BY <1>7, <1>8, <1>9, <1>10, InvPartsNext

LEMMA WarmStep == ASSUME WarmInv, [Next]_vars PROVE WarmInv'
<1>1. ASSUME UNCHANGED vars PROVE WarmInv'
  <2>1. UNCHANGED <<att, env, disk, verify, exec, tree, pending, budget, stack, used, prepared>>
    BY <1>1 DEF vars, observers
  <2>2. QED  BY <2>1 DEF WarmInv, WarmTypeOK, ExecsOK, HooksOK, VerifiesOK, Checking
<1>2. ASSUME NEW a \in Attempts,
             \/ StartMakesRoom(a) \/ StartCreates(a) \/ StartEvicts(a) \/ StartVerifies(a)
             \/ Launch(a) \/ PrepareEnds(a) \/ ExecEnds(a) \/ Cancel(a)
             \/ HookEnds(a) \/ Drop(a) \/ Boot(a)
      PROVE  WarmInv'
  <2>1. CASE StartMakesRoom(a) \/ StartEvicts(a)  BY <2>1, EvictingSteps
  <2>2. CASE StartVerifies(a)  BY <2>2, VerifyingSteps
  <2>3. QED
    BY <1>2, <2>1, <2>2, StartCreatesStep, LaunchStep, PrepareEndsStep, ExecEndsStep,
       CancelStep, HookEndsStep, DropStep, BootStep
<1>3. ASSUME NEW e \in EnvIDs,
             \/ Fingerprint(e) \/ StartRefused(e) \/ StartFindsChange(e) \/ StartTransfers(e)
             \/ Release(e) \/ ReleaseFails(e) \/ Expire(e) \/ OutsideEdit(e)
      PROVE  WarmInv'
  <2>1. CASE Fingerprint(e) \/ StartRefused(e)  BY <2>1, VerifyingSteps
  <2>2. CASE StartFindsChange(e)  BY <2>2, EvictingSteps
  <2>3. QED
    BY <1>3, <2>1, <2>2, StartTransfersStep, ReleaseStep, ReleaseFailsStep, ExpireStep,
       OutsideEditStep
<1>4. CASE Sweep  BY <1>4, EvictingSteps
<1>5. CASE Crash  BY <1>5, CrashStep
<1>6. QED  BY <1>1, <1>2, <1>3, <1>4, <1>5 DEF Next, Rest

\* The invariant of the warm environments: the same of memory and of state.json,
\* and of the goroutines that work on them (environment.go, runner.go).
THEOREM WarmInvariant == Spec => []WarmInv
<1>1. Init => WarmInv  BY WarmInit
<1>2. WarmInv /\ [Next]_vars => WarmInv'  BY WarmStep
<1>3. QED  BY <1>1, <1>2, PTL DEF Spec

\* The records of environment.go keep their types; a cleanup hook is run at most
\* MaxHookRuns times, whatever fails and however often the process dies.
THEOREM WarmTypeCorrect == Spec => []WarmTypeOK
<1>1. WarmInv => WarmTypeOK  BY DEF WarmInv
<1>2. QED  BY <1>1, WarmInvariant, PTL

\* A set with at most one member.
LEMMA AtMostOne ==
    ASSUME NEW S, \A x, y \in S : x = y PROVE Cardinality(S) <= 1
<1>1. CASE S = {}  BY <1>1, FS_EmptySet
<1>2. CASE S # {}
  <2>1. PICK x : x \in S  BY <1>2
  <2>2. S = {x}  BY <2>1
  <2>3. QED  BY <2>2, FS_Singleton
<1>3. QED  BY <1>1, <1>2

\* Whoever writes in a checkout is its holder.
LEMMA WriterHolds ==
    ASSUME WarmInv, NEW d \in Attempts, NEW a \in Writers(d)
    PROVE  a \in Attempts /\ Holds(att, a, d)
<1>1. a \in Attempts /\ att[a].dir = d /\ (exec[a] # "none" \/ att[a].hook)  BY DEF Writers
<1>2. CASE exec[a] # "none"
  <2>1. att[a].phase = "active"  BY <1>1, <1>2 DEF WarmInv, ExecsOK
  <2>2. QED  BY <1>1, <2>1 DEF WarmInv, Sound, AttemptSound, Live, Gone, Holds
<1>3. CASE att[a].hook  BY <1>1, <1>3 DEF WarmInv, HooksOK, Holds, Gone
<1>4. QED  BY <1>1, <1>2, <1>3

\* Never do two of prepare hook, harness, cleanup hook and hashing work in one
\* checkout, across reuse, eviction, failed saves and crashes: the lease is
\* exclusive and the fence covers the hashing (environment.go).
THEOREM CheckoutIsExclusive == Spec => []ExclusiveCheckout
<1>1. ASSUME WarmInv PROVE ExclusiveCheckout
  <2>1. ASSUME NEW d \in Attempts PROVE Cardinality(Writers(d)) <= 1
    <3>1. \A x, y \in Writers(d) : x = y
      BY <1>1, WriterHolds DEF WarmInv, Sound, OneHolder
    <3>2. QED  BY <3>1, AtMostOne
  <2>2. ASSUME NEW e \in Checking PROVE Writers(env[e].dir) = {}
    BY <1>1, VerifiedIsQuiet DEF Checking, Writers
  <2>3. ASSUME NEW a \in Attempts PROVE ~(exec[a] # "none" /\ att[a].hook)
    BY <1>1 DEF WarmInv, ExecsOK, HooksOK
  <2>4. QED  BY <2>1, <2>2, <2>3 DEF ExclusiveCheckout
<1>2. QED  BY <1>1, WarmInvariant, PTL

\* A harness or a prepare hook never runs on a stack whose cleanup hook has been
\* started, and a harness runs behind the prepare hook of its own attempt
\* (prepareLeasedEnvironment, evictEnvironmentLocked).
THEOREM HarnessFindsItsStack == Spec => []HarnessFindsStack
<1>1. ASSUME WarmInv PROVE HarnessFindsStack
  <2>1. TornIsNeverReused
    <3> SUFFICES ASSUME NEW a \in Attempts, exec[a] # "none" PROVE stack[att[a].dir] = "intact"
      BY DEF TornIsNeverReused
    <3>1. att[a].phase \in Live  BY <1>1 DEF WarmInv, ExecsOK, Live
    <3>2. QED  BY <1>1, <3>1 DEF WarmInv, Sound, AttemptSound
  <2>2. PreparedBeforeHarness  BY <1>1 DEF WarmInv, ExecsOK, PreparedBeforeHarness
  <2>3. QED  BY <2>1, <2>2 DEF HarnessFindsStack
<1>2. QED  BY <1>1, WarmInvariant, PTL

-----------------------------------------------------------------------------
(* Somebody answers for every stack                                        *)

\* An attempt stays, with its checkout, and its cleanup stays due or done.
Lasts(x, y) ==
    /\ x.dir = y.dir /\ x.delegated = y.delegated /\ x.done = y.done
    /\ x.phase \in Gone <=> y.phase \in Gone
    /\ x.phase = "absent" <=> y.phase = "absent"

LEMMA SameLifeLasts == ASSUME NEW x, NEW y, SameLife(x, y) PROVE Lasts(x, y)
BY DEF SameLife, Lasts, Live, Gone

\* Somebody who has yet to clean up holds checkout d.
Held(at, d) == \E x \in Attempts : Holds(at, x, d) /\ ~at[x].done

LEMMA HeldLasts ==
    ASSUME NEW at, NEW at2, NEW d, \A x \in Attempts : Lasts(at[x], at2[x]), Held(at, d)
    PROVE  Held(at2, d)
BY DEF Held, Lasts, Holds

\* Every stack in us that is not clean is held; Answered in terms of Held.
LEMMA AnsweredOf ==
    ASSUME NEW at, NEW en, NEW st, NEW us
    PROVE  Answered(at, en, st, us) <=>
              /\ \A e \in EnvIDs : en[e] # None => at[en[e].owner].phase # "absent"
              /\ \A d \in us : st[d] # "clean" => Held(at, d)
BY DEF Answered, Held

LEMMA AnsweredImage ==
    ASSUME NEW at \in AttT, NEW en \in EnvT, NEW st, NEW us, Answered(at, en, st, us)
    PROVE  Answered(Image(at, en).att, Image(at, en).env, st, us)
<1>1. Image(at, en).env = en /\ \A x \in Attempts : SameLife(at[x], Image(at, en).att[x])
  BY ImageOf
<1>2. \A x \in Attempts : Lasts(at[x], Image(at, en).att[x])  BY <1>1, SameLifeLasts
<1>3. \A e \in EnvIDs : en[e] # None => en[e].owner \in Attempts  BY DEF EnvT, Leases
<1>4. \A e \in EnvIDs : en[e] # None => Image(at, en).att[en[e].owner].phase # "absent"
  BY <1>2, <1>3 DEF Answered, Lasts
<1>5. \A d \in us : st[d] # "clean" => Held(Image(at, en).att, d)
  BY <1>2, HeldLasts, AnsweredOf
<1>6. QED  BY <1>1, <1>4, <1>5, AnsweredOf

\* Attempts and leases in memory, saved or not.
LEMMA AnswerSaved ==
    ASSUME att' \in AttT, env' \in EnvT, Answered(att', env', stack', used'),
           \/ disk' = Image(att', env')
           \/ disk' = disk /\ Answered(disk.att, disk.env, stack', used')
    PROVE  AnswerInv'
<1>1. Answered(disk'.att, disk'.env, stack', used')  BY AnsweredImage
<1>2. QED  BY <1>1 DEF AnswerInv

\* A step keeps every attempt and the owners of the leases; a stack that comes
\* to be used or torn down is held.
LEMMA AnswerKept ==
    ASSUME AnswerInv, att' \in AttT, env \in EnvT, env' \in EnvT,
           \A x \in Attempts : Lasts(att[x], att'[x]),
           \A e \in EnvIDs : env'[e] # None => env[e] # None /\ env'[e].owner = env[e].owner,
           \A d \in used' : stack'[d] # "clean" => (d \in used /\ stack[d] # "clean") \/ Held(att, d),
           \/ disk' = Image(att', env')
           \/ /\ disk' = disk
              /\ \A d \in used' : stack'[d] # "clean" =>
                    (d \in used /\ stack[d] # "clean") \/ Held(disk.att, d)
    PROVE  AnswerInv'
<1>1. Answered(att, env, stack, used) /\ Answered(disk.att, disk.env, stack, used)
  BY DEF AnswerInv
<1>2. \A e \in EnvIDs : env[e] # None => env[e].owner \in Attempts  BY DEF EnvT, Leases
<1>3. \A e \in EnvIDs : env'[e] # None => att'[env'[e].owner].phase # "absent"
  BY <1>1, <1>2 DEF Answered, Lasts
<1>4. \A d \in used' : stack'[d] # "clean" => Held(att, d)  BY <1>1, AnsweredOf
<1>5. \A d \in used' : stack'[d] # "clean" => Held(att', d)  BY <1>4, HeldLasts
<1>6. Answered(att', env', stack', used')  BY <1>3, <1>5, AnsweredOf
<1>7. disk' = Image(att', env') \/ (disk' = disk /\ Answered(disk.att, disk.env, stack', used'))
  <2>1. CASE disk' = Image(att', env')  BY <2>1
  <2>2. CASE disk' # Image(att', env')
    <3>1. \A d \in used' : stack'[d] # "clean" => Held(disk.att, d)  BY <1>1, <2>2, AnsweredOf
    <3>2. Answered(disk.att, disk.env, stack', used')  BY <1>1, <3>1, AnsweredOf
    <3>3. QED  BY <2>2, <3>2
  <2>3. QED  BY <2>1, <2>2
<1>8. QED  BY <1>6, <1>7, AnswerSaved

\* The hooks of H tear down stacks that are held.
LEMMA TornIsHeld ==
    ASSUME NEW at \in AttT, stack \in StackT,
           NEW H \in SUBSET Attempts, \A x \in H : HookDue(at, x),
           NEW d \in Attempts, Torn(at, H)[d] # "clean"
    PROVE  stack[d] # "clean" \/ Held(at, d)
<1>1. CASE \E x \in H : at[x].dir = d  BY <1>1 DEF HookDue, Held, Holds, Gone
<1>2. CASE ~\E x \in H : at[x].dir = d  BY <1>2 DEF Torn
<1>3. QED  BY <1>1, <1>2

\* One of the hooks of a handler is started only behind its save.
LEMMA TornAnswers ==
    ASSUME AnswerInv, WarmInv, NEW at \in AttT, att' \in AttT, env' \in EnvT,
           \A x \in Attempts : Lasts(att[x], at[x]) /\ SameLife(at[x], att'[x]),
           \A e \in EnvIDs : env'[e] # None => env[e] # None /\ env'[e].owner = env[e].owner,
           NEW H \in SUBSET Attempts, \A x \in H : HookDue(at, x),
           stack' = Torn(at, H), used' = used,
           disk' = Image(att', env') \/ (H = {} /\ disk' = disk)
    PROVE  AnswerInv'
<1>1. env \in EnvT /\ stack \in StackT /\ used \subseteq Attempts
  BY DEF WarmInv, WarmTypeOK, EnvT, StackT
<1>2. \A x \in Attempts : Lasts(at[x], att'[x])  BY SameLifeLasts
<1>3. \A x \in Attempts : Lasts(att[x], att'[x]) /\ Lasts(at[x], att[x])  BY <1>2 DEF Lasts
<1>4. \A d \in used' : stack'[d] # "clean" => (d \in used /\ stack[d] # "clean") \/ Held(att, d)
  <2> SUFFICES ASSUME NEW d \in used, stack'[d] # "clean"
               PROVE  stack[d] # "clean" \/ Held(att, d)
    OBVIOUS
  <2>1. d \in Attempts  BY <1>1
  <2>2. stack[d] # "clean" \/ Held(at, d)  BY <1>1, <2>1, TornIsHeld
  <2>3. QED  BY <1>3, <2>2, HeldLasts
<1>5. H = {} => stack' = stack  BY <1>1, NoHooks
<1>6. QED  BY <1>1, <1>3, <1>4, <1>5, AnswerKept

LEMMA EvictAnswers ==
    ASSUME AnswerInv, WarmInv, NEW S \in SUBSET EnvIDs, \A e \in S : env[e] # None,
           EvictAll(S), prepared' = prepared, used' = used
    PROVE  AnswerInv'
<1>1. RecordsInv /\ RestTyped  BY InvParts
<1>2. /\ RecordsInv' /\ env' = Evicted(env, S)
      /\ \A a \in Attempts : SameLife(att[a], att'[a])
  BY <1>1, EvictAllKeeps
<1> DEFINE hooks == EvictedOwners(att, env, S)
<1>3. PICK ok \in (IF hooks = {} THEN {TRUE} ELSE Saves) :
        /\ disk' = IF ok /\ hooks # {} THEN Image(att', env') ELSE disk
        /\ stack' = IF ok THEN Torn(att, hooks) ELSE stack
  BY DEF EvictAll
<1> DEFINE H == IF ok THEN hooks ELSE {}
<1>4. H \in SUBSET Attempts /\ \A x \in H : HookDue(att, x)  BY DEF EvictedOwners
<1>5. stack' = Torn(att, H)  BY <1>1, <1>3, NoHooks DEF RecordsInv
<1>6. disk' = Image(att', env') \/ (H = {} /\ disk' = disk)  BY <1>3
<1> HIDE DEF H, hooks
<1>7. IsEvicted(env, S, env')  BY <1>1, <1>2, EvictedOf DEF RecordsInv
<1>8. \A e \in EnvIDs : env'[e] # None => env[e] # None /\ env'[e].owner = env[e].owner
  BY <1>7 DEF IsEvicted
<1>9. att \in AttT /\ att' \in AttT /\ env' \in EnvT  BY <1>1, <1>2 DEF RecordsInv
<1>10. \A x \in Attempts : Lasts(att[x], att[x]) /\ SameLife(att[x], att'[x])
  BY <1>2 DEF Lasts
<1>11. QED  BY <1>4, <1>5, <1>6, <1>8, <1>9, <1>10, TornAnswers

LEMMA ScheduleAnswers ==
    ASSUME AnswerInv, WarmInv, NEW a \in Attempts, NEW at \in AttT, NEW en \in EnvT,
           NEW ver, NEW saved, Schedule(a, at, en, ver, saved), used' = used,
           \A x \in Attempts : Lasts(att[x], at[x]),
           \A e \in EnvIDs : en[e] # None => env[e] # None /\ en[e].owner = env[e].owner
    PROVE  AnswerInv'
<1>1. RecordsInv  BY InvParts
<1> DEFINE due == {x \in {a} : HookDue(at, x) /\ ~LeaseKeeps(en, ver, x)}
<1>2. PICK ok \in (IF saved \/ due # {} THEN Saves ELSE {TRUE}) :
        /\ att' = IF ok THEN HooksStarted(at, due) ELSE at
        /\ env' = en
        /\ disk' = IF ok /\ (saved \/ due # {}) THEN Image(att', en) ELSE disk
        /\ stack' = IF ok THEN Torn(at, due) ELSE stack
  BY DEF Schedule
<1> DEFINE H == IF ok THEN due ELSE {}
<1>3. H \in SUBSET Attempts /\ \A x \in H : HookDue(at, x)  OBVIOUS
<1>4. att' = HooksStarted(at, H) /\ stack' = Torn(at, H)  BY <1>1, <1>2, NoHooks DEF RecordsInv
<1>5. disk' = Image(att', env') \/ (H = {} /\ disk' = disk)  BY <1>2
<1> HIDE DEF H, due
<1>6. att' \in AttT /\ \A x \in Attempts : SameLife(at[x], att'[x])
  BY <1>3, <1>4, HooksStartedOf
<1>7. QED  BY <1>2, <1>3, <1>4, <1>5, <1>6, TornAnswers

LEMMA LastsPhase ==
    ASSUME att \in AttT, NEW a \in Attempts, att[a].phase \in Live,
           NEW p \in {"over", "parked"}
    PROVE  /\ [att EXCEPT ![a].phase = p] \in AttT
           /\ \A x \in Attempts : Lasts(att[x], [att EXCEPT ![a].phase = p][x])
<1> DEFINE at == [att EXCEPT ![a].phase = p]
<1>1. /\ at \in AttT /\ \A x \in Attempts : x # a => at[x] = att[x]
      /\ at[a].phase = p /\ at[a].dir = att[a].dir /\ at[a].delegated = att[a].delegated
      /\ at[a].done = att[a].done
  BY DEF AttT, AttemptRecords
<1> HIDE DEF at
<1>2. \A x \in Attempts : Lasts(att[x], at[x])  BY <1>1 DEF Lasts, Live, Gone
<1>3. QED  BY <1>1, <1>2 DEF at

\* Handlers that evict.
LEMMA EvictingAnswers ==
    ASSUME AnswerInv, WarmInv,
           \/ \E a \in Attempts : StartMakesRoom(a) \/ StartEvicts(a)
           \/ \E e \in EnvIDs : StartFindsChange(e)
           \/ Sweep
    PROVE  AnswerInv'
<1>1. ASSUME NEW a \in Attempts, StartMakesRoom(a) PROVE AnswerInv'
  <2>1. PICK e \in Idle(env) : EvictAll({e} \ Checking)
    BY <1>1 DEF StartMakesRoom, Evict
  <2>2. UNCHANGED <<used, prepared>>  BY <1>1 DEF StartMakesRoom
  <2>3. {e} \ Checking \in SUBSET EnvIDs /\ \A f \in {e} \ Checking : env[f] # None
    BY DEF Idle
  <2>4. QED  BY <2>1, <2>2, <2>3, EvictAnswers
<1>2. ASSUME NEW a \in Attempts, StartEvicts(a) PROVE AnswerInv'
  <2> DEFINE S == {EnvOf[a]} \ Checking
  <2>1. EnvOf[a] \in Idle(env) /\ EvictAll(S) /\ UNCHANGED <<used, prepared>>
    BY <1>2 DEF StartEvicts, Evict
  <2>2. S \in SUBSET EnvIDs /\ \A f \in S : env[f] # None  BY <2>1 DEF Idle
  <2>3. QED  BY <2>1, <2>2, EvictAnswers
<1>3. ASSUME NEW e \in EnvIDs, StartFindsChange(e) PROVE AnswerInv'
  <2>1. EvictAll({e}) /\ verify[e] # None /\ UNCHANGED <<used, prepared>>
    BY <1>3 DEF StartFindsChange
  <2>2. \A f \in {e} : env[f] # None  BY <2>1 DEF WarmInv, VerifiesOK
  <2>3. QED  BY <2>1, <2>2, EvictAnswers
<1>4. ASSUME Sweep PROVE AnswerInv'
  <2> DEFINE S == SweepDue \ Checking
  <2>1. EvictAll(S) /\ UNCHANGED <<used, prepared>>  BY <1>4 DEF Sweep, Evict
  <2>2. S \in SUBSET EnvIDs /\ \A f \in S : env[f] # None  BY DEF SweepDue
  <2> HIDE DEF S
  <2>3. QED  BY <2>1, <2>2, EvictAnswers
<1>5. QED  BY <1>1, <1>2, <1>3, <1>4

\* Handlers that come to scheduleCleanupLocked.
LEMMA SchedulingAnswers ==
    ASSUME AnswerInv, WarmInv,
           \/ \E a \in Attempts : ExecEnds(a) \/ Cancel(a) \/ Boot(a)
           \/ \E e \in EnvIDs : ReleaseFails(e)
    PROVE  AnswerInv'
<1>1. att \in AttT /\ env \in EnvT  BY DEF WarmInv, WarmTypeOK, AttT, EnvT
<1>2. \A x \in Attempts : Lasts(att[x], att[x])  BY DEF Lasts
<1>3. ASSUME NEW a \in Attempts, ExecEnds(a) PROVE AnswerInv'
  <2>1. exec[a] # "none" /\ used' = used  BY <1>3 DEF ExecEnds
  <2>2. PICK p \in {"over", "parked"} : Schedule(a, [att EXCEPT ![a].phase = p], env, verify, TRUE)
    BY <1>3 DEF ExecEnds
  <2>3. att[a].phase \in Live  BY <2>1 DEF WarmInv, ExecsOK, Live
  <2>4. /\ [att EXCEPT ![a].phase = p] \in AttT
        /\ \A x \in Attempts : Lasts(att[x], [att EXCEPT ![a].phase = p][x])
    BY <1>1, <2>3, LastsPhase
  <2>5. QED  BY <1>1, <2>1, <2>2, <2>4, ScheduleAnswers
<1>4. ASSUME NEW a \in Attempts, Cancel(a) PROVE AnswerInv'
  <2>1. /\ Schedule(a, [att EXCEPT ![a].phase = "over"], env, verify, TRUE)
        /\ att[a].phase \in Live /\ used' = used
    BY <1>4 DEF Cancel, Live
  <2>2. /\ [att EXCEPT ![a].phase = "over"] \in AttT
        /\ \A x \in Attempts : Lasts(att[x], [att EXCEPT ![a].phase = "over"][x])
    BY <1>1, <2>1, LastsPhase
  <2>3. QED  BY <1>1, <2>1, <2>2, ScheduleAnswers
<1>5. ASSUME NEW a \in Attempts, Boot(a) PROVE AnswerInv'
  <2>1. Schedule(a, att, env, verify, FALSE) /\ used' = used  BY <1>5 DEF Boot
  <2>2. QED  BY <1>1, <1>2, <2>1, ScheduleAnswers
<1>6. ASSUME NEW e \in EnvIDs, ReleaseFails(e) PROVE AnswerInv'
  <2> DEFINE en == Evicted(env, {e})
             ver == [verify EXCEPT ![e] = None]
  <2>1. Schedule(verify[e].who, att, en, ver, FALSE) /\ verify[e] # None /\ used' = used
    BY <1>6 DEF ReleaseFails
  <2>2. verify[e].who \in Attempts /\ env[e] # None
    BY <2>1 DEF WarmInv, WarmTypeOK, VerifiesOK, Verifications
  <2>3. {e} \in SUBSET EnvIDs /\ \A f \in {e} : env[f] # None  BY <2>2
  <2>4. IsEvicted(env, {e}, en)  BY <1>1, <2>3, EvictedOf
  <2> HIDE DEF en, ver
  <2>5. en \in EnvT /\ \A f \in EnvIDs : en[f] # None => env[f] # None /\ en[f].owner = env[f].owner
    BY <2>4 DEF IsEvicted
  <2>6. QED  BY <1>1, <1>2, <2>1, <2>2, <2>5, ScheduleAnswers
<1>7. QED  BY <1>3, <1>4, <1>5, <1>6

\* Steps that change no attempt, no file and the owner of no lease.
LEMMA IdleAnswers ==
    ASSUME AnswerInv, WarmInv, UNCHANGED <<att, disk, stack, used>>, env' \in EnvT,
           \A e \in EnvIDs : env'[e] # None => env[e] # None /\ env'[e].owner = env[e].owner
    PROVE  AnswerInv'
<1>1. att \in AttT /\ env \in EnvT  BY DEF WarmInv, WarmTypeOK, AttT, EnvT
<1>2. \A x \in Attempts : Lasts(att[x], att'[x])  BY DEF Lasts
<1>3. \A d \in used' : stack'[d] # "clean" => d \in used /\ stack[d] # "clean"  OBVIOUS
<1>4. QED  BY <1>1, <1>2, <1>3, AnswerKept

\* An execution and its checkout: held in memory and on disk.
LEMMA LaunchAnswers ==
    ASSUME AnswerInv, WarmInv, WarmInv', NEW a \in Attempts, Launch(a) \/ PrepareEnds(a)
    PROVE  AnswerInv'
<1>1. att \in AttT /\ env \in EnvT /\ att' \in AttT /\ env' \in EnvT
  BY DEF WarmInv, WarmTypeOK, AttT, EnvT
<1>2. att[a].phase \in Live => Held(att, att[a].dir)
  BY DEF WarmInv, Sound, AttemptSound, Held, Holds, Live, Gone
<1>3. CASE Launch(a)
  <2>1. PICK ok \in BOOLEAN :
          /\ att' = [att EXCEPT ![a].phase = IF ok THEN "active" ELSE "accepted"]
          /\ disk' = IF ok THEN Image(att', env) ELSE disk
          /\ used' = IF ok /\ Launched(env, a) = "harness"
                     THEN used \cup {att[a].dir} ELSE used
    BY <1>3 DEF Launch
  <2>2. att[a].phase \in Live /\ UNCHANGED <<env, stack>>  BY <1>3 DEF Launch, Live
  <2>3. \A x \in Attempts : Lasts(att[x], att'[x])
    <3> DEFINE p == IF ok THEN "active" ELSE "accepted"
    <3>1. p \in Live /\ att' = [att EXCEPT ![a].phase = p]  BY <2>1 DEF Live
    <3> HIDE DEF p
    <3>2. /\ \A x \in Attempts : x # a => att'[x] = att[x]
          /\ att'[a].phase = p /\ att'[a].dir = att[a].dir
          /\ att'[a].delegated = att[a].delegated /\ att'[a].done = att[a].done
      BY <1>1, <3>1 DEF AttT, AttemptRecords
    <3>3. QED  BY <2>2, <3>1, <3>2 DEF Lasts, Live, Gone
  <2>4. \A d \in used' : stack'[d] # "clean" => (d \in used /\ stack[d] # "clean") \/ Held(att, d)
    BY <1>2, <2>1, <2>2
  <2>5. \/ disk' = Image(att', env')
        \/ /\ disk' = disk
           /\ \A d \in used' : stack'[d] # "clean" =>
                    (d \in used /\ stack[d] # "clean") \/ Held(disk.att, d)
    BY <2>1, <2>2
  <2>6. \A e \in EnvIDs : env'[e] # None => env[e] # None /\ env'[e].owner = env[e].owner
    BY <2>2
  <2>7. QED  BY <1>1, <2>3, <2>4, <2>5, <2>6, AnswerKept
<1>4. CASE PrepareEnds(a)
  <2>1. PICK out \in {"ok", "cancelled", "failed"}, ok \in Saves :
          /\ env' = [env EXCEPT ![EnvOf[a]].prepare = @ /\ out # "ok",
                                ![EnvOf[a]].evicting = @ \/ out = "failed"]
          /\ disk' = IF ok THEN Image(att, env') ELSE disk
          /\ used' = used \cup {att[a].dir}
    BY <1>4 DEF PrepareEnds
  <2>2. exec[a] = "prepare" /\ UNCHANGED <<att, stack>>  BY <1>4 DEF PrepareEnds
  <2>3. att[a].phase \in Live /\ Held(disk.att, att[a].dir)
    BY <2>2 DEF WarmInv, ExecsOK, Live, Held
  <2>4. \A x \in Attempts : Lasts(att[x], att'[x])  BY <2>2 DEF Lasts
  <2>5. \A d \in used' : stack'[d] # "clean" => (d \in used /\ stack[d] # "clean") \/ Held(att, d)
    BY <1>2, <2>1, <2>2, <2>3
  <2>6. \/ disk' = Image(att', env')
        \/ /\ disk' = disk
           /\ \A d \in used' : stack'[d] # "clean" =>
                    (d \in used /\ stack[d] # "clean") \/ Held(disk.att, d)
    BY <2>1, <2>2, <2>3
  <2>7. \A e \in EnvIDs : env'[e] # None => env[e] # None /\ env'[e].owner = env[e].owner
    <3>1. env[EnvOf[a]] # None /\ env[EnvOf[a]] \in Leases
      BY <1>1, <2>3, WarmAssumption DEF WarmInv, Sound, AttemptSound, Owns, Live, Gone, EnvT
    <3>2. ASSUME NEW e \in EnvIDs, e # EnvOf[a] PROVE env'[e] = env[e]
      BY <1>1, <2>1, <3>2 DEF EnvT
    <3>3. env'[EnvOf[a]].owner = env[EnvOf[a]].owner
      <4> DEFINE p == env[EnvOf[a]].prepare /\ out # "ok"
                 v == env[EnvOf[a]].evicting \/ out = "failed"
                 r == [env[EnvOf[a]] EXCEPT !.prepare = p, !.evicting = v]
      <4>1. env' = [env EXCEPT ![EnvOf[a]] = r]
        BY <1>1, <2>1, <3>1, WarmAssumption DEF EnvT, Leases
      <4>2. env'[EnvOf[a]] = r  BY <1>1, <4>1, WarmAssumption DEF EnvT
      <4> HIDE DEF p, v
      <4>3. r.owner = env[EnvOf[a]].owner  BY <3>1 DEF Leases
      <4>4. QED  BY <4>2, <4>3
    <3>4. QED  BY <3>1, <3>2, <3>3
  <2>8. QED  BY <1>1, <2>4, <2>5, <2>6, <2>7, AnswerKept
<1>5. QED  BY <1>3, <1>4

LEMMA ReleaseAnswers ==
    ASSUME AnswerInv, WarmInv, WarmInv', NEW e \in EnvIDs, Release(e)
    PROVE  AnswerInv'
<1>1. /\ att \in AttT /\ env \in EnvT /\ att' \in AttT /\ env' \in EnvT /\ stack \in StackT
  BY DEF WarmInv, WarmTypeOK, AttT, EnvT, StackT
<1> DEFINE others == (Idle(env) \ {e}) \ Checking
           hooks == EvictedOwners(att, env, others)
           idle(ok) == [env EXCEPT ![e].print = verify[e].seen, ![e].time = "idle",
                                   ![e].evicting = ~ok]
<1>2. PICK ok \in Saves :
        /\ env' = Evicted(idle(ok), others)
        /\ att' = IF ok THEN HooksStarted(att, hooks) ELSE att
        /\ disk' = IF ok THEN Image(att', env') ELSE disk
        /\ stack' = IF ok THEN Torn(att, hooks) ELSE stack
  BY DEF Release
<1>3. used' = used /\ verify[e] # None  BY DEF Release
<1>4. env[e] # None /\ env[e] \in Leases  BY <1>1, <1>3 DEF WarmInv, VerifiesOK, EnvT
<1> DEFINE H == IF ok THEN hooks ELSE {}
<1>5. H \in SUBSET Attempts /\ \A x \in H : HookDue(att, x)  BY DEF EvictedOwners
<1>6. att' = HooksStarted(att, H) /\ stack' = Torn(att, H)  BY <1>1, <1>2, NoHooks
<1>7. disk' = Image(att', env') \/ (H = {} /\ disk' = disk)  BY <1>2
<1>8. \A f \in EnvIDs : env'[f] # None => env[f] # None /\ env'[f].owner = env[f].owner
  <2>1. others \in SUBSET EnvIDs /\ e \notin others /\ \A f \in others : env[f] # None
    BY DEF Idle
  <2>2. ASSUME NEW f \in others PROVE env'[f].owner = env[f].owner
    <3>1. idle(ok)[f] = env[f] /\ env[f] \in Leases  BY <1>1, <2>1 DEF EnvT
    <3>2. env'[f] = [env[f] EXCEPT !.evicting = TRUE]  BY <1>2, <2>1, <3>1 DEF Evicted
    <3>3. QED  BY <3>1, <3>2 DEF Leases
  <2>3. env'[e].owner = env[e].owner
    <3>1. env'[e] = idle(ok)[e]  BY <1>2, <2>1 DEF Evicted
    <3>2. QED  BY <1>1, <1>4, <3>1 DEF EnvT, Leases
  <2>4. ASSUME NEW f \in EnvIDs, f \notin others, f # e PROVE env'[f] = env[f]
    <3>1. env'[f] = idle(ok)[f]  BY <1>2, <2>4 DEF Evicted
    <3>2. QED  BY <1>1, <2>4, <3>1 DEF EnvT
  <2> HIDE DEF others, idle
  <2>5. QED  BY <1>4, <2>1, <2>2, <2>3, <2>4
<1> HIDE DEF H, hooks, others, idle
<1>9. \A x \in Attempts : Lasts(att[x], att[x]) /\ SameLife(att[x], att'[x])
  BY <1>1, <1>5, <1>6, HooksStartedOf DEF Lasts
<1>10. QED  BY <1>1, <1>3, <1>5, <1>6, <1>7, <1>8, <1>9, TornAnswers

\* A hook that has succeeded leaves a clean stack behind.
LEMMA HookEndsAnswers ==
    ASSUME AnswerInv, WarmInv, WarmInv', NEW a \in Attempts, HookEnds(a)
    PROVE  AnswerInv'
<1>1. /\ att \in AttT /\ env \in EnvT /\ att' \in AttT /\ env' \in EnvT /\ stack \in StackT
      /\ used \subseteq Attempts
  BY DEF WarmInv, WarmTypeOK, AttT, EnvT, StackT
<1>2. PICK done \in BOOLEAN, ok \in Saves :
        /\ att' = [att EXCEPT ![a].hook = FALSE, ![a].done = done]
        /\ env' = LeasesAfterHook(env, a, done)
        /\ disk' = IF ok THEN Image(att', env') ELSE disk
        /\ stack' = IF done THEN [stack EXCEPT ![att[a].dir] = "clean"] ELSE stack
  BY DEF HookEnds
<1>3. att[a].hook /\ used' = used  BY DEF HookEnds
<1>4. ~att[a].done /\ att[a].phase = "over" /\ ~att[a].delegated
  BY <1>3 DEF WarmInv, HooksOK
<1>5. /\ att'[a].done = done
      /\ \A x \in Attempts : /\ att'[x].phase = att[x].phase /\ att'[x].dir = att[x].dir
                             /\ att'[x].delegated = att[x].delegated
                             /\ x # a => att'[x] = att[x]
  BY <1>1, <1>2 DEF AttT, AttemptRecords
<1>6. \A d \in used' : stack'[d] # "clean" => stack[d] # "clean" /\ ~(done /\ d = att[a].dir)
  BY <1>1, <1>2, <1>3 DEF StackT
<1>7. Answered(att', env', stack', used')
  <2>1. \A e \in EnvIDs : env'[e] # None => att'[env'[e].owner].phase # "absent"
    <3>1. \A e \in EnvIDs : env'[e] # None => env'[e] = env[e]
      BY <1>2 DEF LeasesAfterHook
    <3>2. \A e \in EnvIDs : env[e] # None => env[e].owner \in Attempts
      BY <1>1 DEF EnvT, Leases
    <3>3. QED  BY <1>5, <3>1, <3>2 DEF AnswerInv, Answered
  <2>2. ASSUME NEW d \in used', stack'[d] # "clean" PROVE Held(att', d)
    <3>1. stack[d] # "clean" /\ ~(done /\ d = att[a].dir) /\ d \in used
      BY <1>3, <1>6, <2>2
    <3>2. PICK x \in Attempts : Holds(att, x, d) /\ ~att[x].done
      BY <3>1 DEF AnswerInv, Answered
    <3>3. x = a => ~done  BY <3>1, <3>2 DEF Holds
    <3>4. Holds(att', x, d)  BY <1>5, <3>2 DEF Holds
    <3>5. ~att'[x].done  BY <1>5, <3>2, <3>3
    <3>6. QED  BY <3>4, <3>5 DEF Held
  <2>3. QED  BY <2>1, <2>2, AnsweredOf
<1>8. Answered(disk.att, disk.env, stack', used')
  BY <1>3, <1>6 DEF AnswerInv, Answered
<1>9. QED  BY <1>1, <1>2, <1>7, <1>8, AnswerSaved

\* An attempt that retention drops answers for nothing.
LEMMA DropAnswers ==
    ASSUME AnswerInv, WarmInv, WarmInv', NEW a \in Attempts, Drop(a)
    PROVE  AnswerInv'
<1>1. att \in AttT /\ env \in EnvT /\ att' \in AttT /\ env' \in EnvT
  BY DEF WarmInv, WarmTypeOK, AttT, EnvT
<1>2. /\ att' = [att EXCEPT ![a] = [Absent EXCEPT !.phase = "dropped"]]
      /\ disk' = Image(att', env')
      /\ UNCHANGED <<env, stack, used>>
      /\ ~Owns(env, a) /\ att[a].phase \in {"over", "parked"}
  BY DEF Drop, Purgeable, observers
<1>3. att'[a].phase = "dropped" /\ \A x \in Attempts : x # a => att'[x] = att[x]
  BY <1>1, <1>2 DEF AttT, Absent
<1>4. \A d \in Attempts \cup {None} : ~(Holds(att, a, d) /\ ~att[a].done)
  BY <1>2 DEF WarmInv, Sound, AttemptSound, Holds
<1>5. \A e \in EnvIDs : env'[e] # None => att'[env'[e].owner].phase # "absent"
  <2>1. \A e \in EnvIDs : env[e] # None => env[e].owner \in Attempts
    BY <1>1 DEF EnvT, Leases
  <2>2. QED  BY <1>2, <1>3, <2>1 DEF AnswerInv, Answered
<1>6. ASSUME NEW d \in used', stack'[d] # "clean" PROVE Held(att', d)
  <2>1. PICK x \in Attempts : Holds(att, x, d) /\ ~att[x].done
    BY <1>2, <1>6 DEF AnswerInv, Answered
  <2>2. d \in Attempts  BY <1>2, <1>6 DEF WarmInv, WarmTypeOK
  <2>3. x # a  BY <1>4, <2>1, <2>2
  <2>4. QED  BY <1>3, <2>1, <2>3 DEF Held, Holds
<1>7. Answered(att', env', stack', used')  BY <1>5, <1>6, AnsweredOf
<1>8. QED  BY <1>1, <1>2, <1>7, AnswerSaved

LEMMA CrashAnswers ==
    ASSUME AnswerInv, WarmInv, WarmInv', Crash PROVE AnswerInv'
<1>1. /\ att' = Recovered(disk.att) /\ env' = disk.env /\ disk' = Image(att', env')
      /\ UNCHANGED <<stack, used>>
  BY DEF Crash, observers
<1>2. disk.att \in AttT /\ disk.env \in EnvT /\ att' \in AttT
  BY DEF WarmInv, WarmTypeOK, AttT, EnvT
<1>3. ASSUME NEW x \in Attempts PROVE Lasts(disk.att[x], att'[x])
  <2>1. att'[x] = [disk.att[x] EXCEPT !.phase =
          IF disk.att[x].phase \in {"accepted", "active"} THEN "parked" ELSE disk.att[x].phase]
    BY <1>1 DEF Recovered
  <2>2. disk.att[x] \in AttemptRecords  BY <1>2 DEF AttT
  <2>3. CASE disk.att[x].phase \in {"accepted", "active"}
    <3>1. att'[x] = [disk.att[x] EXCEPT !.phase = "parked"]  BY <2>1, <2>3
    <3>2. QED  BY <2>2, <2>3, <3>1 DEF AttemptRecords, Lasts, Gone
  <2>4. CASE disk.att[x].phase \notin {"accepted", "active"}
    <3>1. att'[x] = disk.att[x]  BY <2>1, <2>2, <2>4 DEF AttemptRecords
    <3>2. QED  BY <3>1 DEF Lasts
  <2>5. QED  BY <2>3, <2>4
<1>4. \A e \in EnvIDs : env'[e] # None => att'[env'[e].owner].phase # "absent"
  <2>1. \A e \in EnvIDs : disk.env[e] # None => disk.env[e].owner \in Attempts
    BY <1>2 DEF EnvT, Leases
  <2>2. QED  BY <1>1, <1>3, <2>1 DEF AnswerInv, Answered, Lasts
<1>5. \A d \in used' : stack'[d] # "clean" => Held(att', d)
  <2>1. \A d \in used : stack[d] # "clean" => Held(disk.att, d)
    BY AnsweredOf DEF AnswerInv
  <2>2. QED  BY <1>1, <1>3, <2>1, HeldLasts
<1>6. Answered(att', env', stack', used')  BY <1>4, <1>5, AnsweredOf
<1>7. QED  BY <1>1, <1>2, <1>6, AnswerSaved

\* An acceptance puts the new attempt in the place of the prior owner; a failed
\* one puts the prior owner back, as long as staged inputs are consumed.
LEMMA AcceptAnswers ==
    ASSUME AnswerInv, WarmInv, WarmInv', "inputs" \notin Faults,
           NEW a \in Attempts, NEW at \in AttT, NEW L \in Leases, NEW undone,
           att[a].phase = "absent", L.owner = a, stack' = stack,
           \A x \in Attempts : at[x].phase = att[x].phase,
           \A d \in used : Held(att, d) => Held(at, d) \/ d = L.dir,
           undone # None => /\ env[EnvOf[a]] # None
                            /\ undone.owner = env[EnvOf[a]].owner,
           Accept(a, at, L, undone)
    PROVE  AnswerInv'
<1>1. /\ att \in AttT /\ env \in EnvT /\ att' \in AttT /\ env' \in EnvT
      /\ EnvOf[a] \in EnvIDs /\ L.dir \in Attempts
  BY WarmAssumption DEF WarmInv, WarmTypeOK, AttT, EnvT, Leases
<1> DEFINE e == EnvOf[a]
           en == [env EXCEPT ![e] = L]
           As(p) == [at EXCEPT ![a] = [Absent EXCEPT !.phase = p, !.dir = L.dir]]
<1>2. \A f \in EnvIDs : env[f] # None => env[f].owner \in Attempts /\ att[env[f].owner].phase # "absent"
  BY <1>1 DEF EnvT, Leases, AnswerInv, Answered
<1>3. ASSUME NEW p \in Live, att' = As(p), env' = en,
             used' = used \/ used' = used \cup {L.dir}
      PROVE  Answered(att', env', stack', used')
  <2> DEFINE r == [Absent EXCEPT !.phase = p, !.dir = L.dir]
  <2>1. r.phase = p /\ r.dir = L.dir /\ ~r.delegated /\ ~r.done  BY DEF Absent
  <2>2. att'[a] = r /\ \A x \in Attempts : x # a => att'[x] = at[x]  BY <1>3 DEF AttT
  <2> HIDE DEF r
  <2>3. Held(att', L.dir)  BY <2>1, <2>2 DEF Held, Holds, Live, Gone
  <2>4. \A f \in EnvIDs : env'[f] # None => att'[env'[f].owner].phase # "absent"
    <3>1. env'[e] = L /\ \A f \in EnvIDs : f # e => env'[f] = env[f]  BY <1>1, <1>3 DEF EnvT
    <3>2. att'[a].phase # "absent"  BY <2>1, <2>2 DEF Live
    <3>3. QED  BY <1>2, <2>2, <3>1, <3>2
  <2>5. ASSUME NEW d \in used', stack'[d] # "clean" PROVE Held(att', d)
    <3>1. CASE d = L.dir  BY <2>3, <3>1
    <3>2. CASE d # L.dir
      <4>1. d \in used /\ Held(att, d)  BY <1>3, <2>5, <3>2, AnsweredOf DEF AnswerInv
      <4>2. PICK x \in Attempts : Holds(at, x, d) /\ ~at[x].done  BY <3>2, <4>1 DEF Held
      <4>3. x # a  BY <4>2 DEF Holds, Gone
      <4>4. QED  BY <2>2, <4>2, <4>3 DEF Held, Holds
    <3>3. QED  BY <3>1, <3>2
  <2>6. QED  BY <2>4, <2>5, AnsweredOf
<1>4. Answered(disk.att, disk.env, stack', used)  BY DEF AnswerInv
<1>5. CASE /\ att' = As("active")
           /\ env' = en
           /\ disk' = Image(att', en)
           /\ used' = IF Launched(en, a) = "harness" THEN used \cup {L.dir} ELSE used
  <2>1. "active" \in Live /\ disk' = Image(att', env')  BY <1>5 DEF Live
  <2>2. Answered(att', env', stack', used')  BY <1>3, <1>5, <2>1
  <2>3. QED  BY <1>1, <2>1, <2>2, AnswerSaved
<1>6. CASE /\ env' = [env EXCEPT ![e] = undone]
           /\ UNCHANGED <<att, disk, used>>
  <2>1. env'[e] = undone /\ \A f \in EnvIDs : f # e => env'[f] = env[f]  BY <1>1, <1>6 DEF EnvT
  <2>2. \A f \in EnvIDs : env'[f] # None => env[f] # None /\ env'[f].owner = env[f].owner
    BY <2>1
  <2>3. QED  BY <1>1, <1>6, <2>2, IdleAnswers
<1>7. CASE /\ att' = As("accepted") /\ env' = en
           /\ disk' = disk \/ disk' = Image(att', en)
           /\ used' = used
  <2>1. "accepted" \in Live  BY DEF Live
  <2>2. Answered(att', env', stack', used')  BY <1>3, <1>7, <2>1
  <2>3. QED  BY <1>1, <1>4, <1>7, <2>2, AnswerSaved
<1>8. QED  BY <1>5, <1>6, <1>7 DEF Accept, MayFail

LEMMA StartAnswers ==
    ASSUME AnswerInv, WarmInv, WarmInv', "inputs" \notin Faults,
           \/ \E a \in Attempts : StartCreates(a)
           \/ \E e \in EnvIDs : StartTransfers(e)
    PROVE  AnswerInv'
<1>1. att \in AttT /\ env \in EnvT  BY DEF WarmInv, WarmTypeOK, AttT, EnvT
<1>2. ASSUME NEW a \in Attempts, StartCreates(a) PROVE AnswerInv'
  <2>1. att[a].phase = "absent" /\ Accept(a, att, NewLease(a), None) /\ stack' = stack
    BY <1>2 DEF StartCreates, Admitted
  <2>2. NewLease(a) \in Leases /\ NewLease(a).owner = a  BY DEF NewLease, Leases, Trees
  <2>3. QED  BY <1>1, <2>1, <2>2, AcceptAnswers
<1>3. ASSUME NEW e \in EnvIDs, StartTransfers(e) PROVE AnswerInv'
  <2> DEFINE a == verify[e].who
             o == env[e].owner
             at == [att EXCEPT ![o].delegated = TRUE]
             L == Transferred(env[e], a)
             undone == [env[e] EXCEPT !.evicting = TRUE]
  <2>1. /\ verify[e] # None /\ att[a].phase = "absent" /\ Accept(a, at, L, undone)
        /\ stack' = stack
    BY <1>3 DEF StartTransfers, StillAdmitted
  <2>2. a \in Attempts /\ EnvOf[a] = e
    BY <2>1 DEF WarmInv, WarmTypeOK, VerifiesOK, Verifications
  <2>3. env[e] # None /\ env[e] \in Leases /\ o \in Attempts /\ Holds(att, o, env[e].dir)
    BY <2>1, VerifiedIsQuiet
  <2>4. L \in Leases /\ L.owner = a /\ L.dir = env[e].dir
    BY <2>2, <2>3 DEF Transferred, Leases
  <2>5. undone.owner = env[EnvOf[a]].owner  BY <2>2, <2>3 DEF Leases
  <2>6. at \in AttT /\ \A x \in Attempts : at[x].phase = att[x].phase /\ (x # o => at[x] = att[x])
    BY <1>1, <2>3 DEF AttT, AttemptRecords
  <2> HIDE DEF at, L, undone, a
  <2>7. \A d \in used : Held(att, d) => Held(at, d) \/ d = L.dir
    <3> SUFFICES ASSUME NEW d \in used, NEW x \in Attempts, Holds(att, x, d), ~att[x].done,
                        d # L.dir
                 PROVE  Held(at, d)
      BY DEF Held
    <3>1. x # o  BY <2>3, <2>4 DEF Holds
    <3>2. QED  BY <2>6, <3>1 DEF Held, Holds
  <2>8. QED  BY <2>1, <2>2, <2>3, <2>4, <2>5, <2>6, <2>7, AcceptAnswers
<1>4. QED  BY <1>2, <1>3

LEMMA AnswerStep ==
    ASSUME AnswerInv, WarmInv, WarmInv', "inputs" \notin Faults, [Next]_vars
    PROVE  AnswerInv'
<1>1. env \in EnvT /\ env' \in EnvT  BY DEF WarmInv, WarmTypeOK, EnvT
<1>2. ASSUME UNCHANGED <<att, env, disk, stack, used>> PROVE AnswerInv'
  BY <1>1, <1>2, IdleAnswers
<1>3. ASSUME NEW e \in EnvIDs, Expire(e) PROVE AnswerInv'
  <2>1. env' = [env EXCEPT ![e].time = "due"] /\ UNCHANGED <<att, disk, stack, used>>
        /\ env[e] # None
    BY <1>3 DEF Expire, observers
  <2>2. \A f \in EnvIDs : env'[f] # None => env[f] # None /\ env'[f].owner = env[f].owner
    BY <1>1, <2>1 DEF EnvT, Leases
  <2>3. QED  BY <1>1, <2>1, <2>2, IdleAnswers
<1>4. ASSUME NEW a \in Attempts,
             \/ StartMakesRoom(a) \/ StartCreates(a) \/ StartEvicts(a) \/ StartVerifies(a)
             \/ Launch(a) \/ PrepareEnds(a) \/ ExecEnds(a) \/ Cancel(a)
             \/ HookEnds(a) \/ Drop(a) \/ Boot(a)
      PROVE  AnswerInv'
  <2>1. CASE StartMakesRoom(a) \/ StartEvicts(a)  BY <2>1, EvictingAnswers
  <2>2. CASE StartVerifies(a)  BY <1>2, <2>2 DEF StartVerifies, observers
  <2>3. CASE StartCreates(a)  BY <2>3, StartAnswers
  <2>4. CASE ExecEnds(a) \/ Cancel(a) \/ Boot(a)  BY <2>4, SchedulingAnswers
  <2>5. QED
    BY <1>4, <2>1, <2>2, <2>3, <2>4, LaunchAnswers, HookEndsAnswers, DropAnswers
<1>5. ASSUME NEW e \in EnvIDs,
             \/ Fingerprint(e) \/ StartRefused(e) \/ StartFindsChange(e) \/ StartTransfers(e)
             \/ Release(e) \/ ReleaseFails(e) \/ OutsideEdit(e)
      PROVE  AnswerInv'
  <2>1. CASE Fingerprint(e) \/ StartRefused(e) \/ OutsideEdit(e)
    BY <1>2, <2>1 DEF Fingerprint, StartRefused, OutsideEdit, observers
  <2>2. CASE StartFindsChange(e)  BY <2>2, EvictingAnswers
  <2>3. CASE StartTransfers(e)  BY <2>3, StartAnswers
  <2>4. CASE ReleaseFails(e)  BY <2>4, SchedulingAnswers
  <2>5. QED  BY <1>5, <2>1, <2>2, <2>3, <2>4, ReleaseAnswers
<1>6. CASE Sweep  BY <1>6, EvictingAnswers
<1>7. CASE Crash  BY <1>7, CrashAnswers
<1>8. CASE UNCHANGED vars  BY <1>2, <1>8 DEF vars, observers
<1>9. QED  BY <1>3, <1>4, <1>5, <1>6, <1>7, <1>8 DEF Next, Rest

LEMMA AnswerInit == ASSUME Init PROVE AnswerInv
BY DEF Init, AnswerInv, Answered

\* Memory and state.json both name the holder of every stack that is not clean.
LEMMA AnswerInvariant ==
    ASSUME "inputs" \notin Faults PROVE Spec => [](WarmInv /\ AnswerInv)
<1>1. Init => AnswerInv  BY AnswerInit
<1>2. AnswerInv /\ WarmInv /\ WarmInv' /\ [Next]_vars => AnswerInv'  BY AnswerStep
<1>3. QED  BY <1>1, <1>2, WarmInvariant, PTL DEF Spec

\* No stack is abandoned and no lease is left without its owner, whatever fails
\* and wherever the process dies, as long as staged inputs can be consumed:
\* otherwise a transferred lease is left to an attempt that does not exist
\* (CleanupDelegated, scheduleCleanupLocked, the undo of a failed acceptance).
THEOREM StacksAreAnsweredFor ==
    ASSUME "inputs" \notin Faults PROVE Spec => []SomebodyAnswers
<1>1. ASSUME WarmInv, AnswerInv PROVE SomebodyAnswers
  <2>1. LeaseHasOwner
    <3> SUFFICES ASSUME NEW e \in EnvIDs, env[e] # None
                 PROVE  /\ att[env[e].owner].phase \notin {"absent", "dropped"}
                        /\ att[env[e].owner].dir = env[e].dir
      BY DEF LeaseHasOwner
    <3>1. LeaseSound(att, stack, prepared, e, env[e])  BY <1>1 DEF WarmInv, Sound
    <3>2. att[env[e].owner].phase # "absent"  BY <1>1 DEF AnswerInv, Answered
    <3>3. QED  BY <3>1, <3>2 DEF LeaseSound, Holds, Gone
  <2>2. NoStackAbandoned
    <3> SUFFICES ASSUME NEW d \in used, stack[d] # "clean"
                 PROVE  /\ Cardinality({x \in Attempts : Answers(att, env, x, d)}) = 1
                        /\ \E x \in Attempts : Answers(disk.att, disk.env, x, d)
      BY DEF NoStackAbandoned
    <3>1. d \in Attempts /\ d # None  BY <1>1, WarmAssumption DEF WarmInv, WarmTypeOK
    <3>2. ASSUME NEW at, NEW en, Sound(at, en, stack, prepared), NEW x \in Attempts,
                 Holds(at, x, d), ~at[x].done
          PROVE  Answers(at, en, x, d)
      BY <3>2 DEF Answers, Holds, Gone, Sound, AttemptSound
    <3>3. PICK x \in Attempts : Holds(att, x, d) /\ ~att[x].done
      BY <1>1 DEF AnswerInv, Answered
    <3>4. PICK y \in Attempts : Holds(disk.att, y, d) /\ ~disk.att[y].done
      BY <1>1 DEF AnswerInv, Answered
    <3>5. Answers(att, env, x, d)  BY <1>1, <3>2, <3>3 DEF WarmInv
    <3>6. Answers(disk.att, disk.env, y, d)  BY <1>1, <3>2, <3>4 DEF WarmInv
    <3>7. ASSUME NEW z \in Attempts, Answers(att, env, z, d) PROVE z = x
      <4>1. Holds(att, z, d)
        BY <1>1, <3>1, <3>7 DEF Answers, Holds, Gone, WarmInv, Sound, AttemptSound
      <4>2. QED  BY <1>1, <3>1, <3>3, <4>1 DEF WarmInv, Sound, OneHolder
    <3>8. {z \in Attempts : Answers(att, env, z, d)} = {x}  BY <3>5, <3>7
    <3>9. QED  BY <3>6, <3>8, FS_Singleton
  <2>3. QED  BY <2>1, <2>2 DEF SomebodyAnswers
<1>2. QED  BY <1>1, AnswerInvariant, PTL

-----------------------------------------------------------------------------
(* What a reused checkout holds                                            *)

\* The lease of e has an owner before and after, and not the same.
ChangesHands(e) == env[e] # None /\ env'[e] # None /\ env'[e].owner # env[e].owner

LEMMA EvictKeepsOwner ==
    ASSUME WarmInv, NEW S \in SUBSET EnvIDs, \A f \in S : env[f] # None, EvictAll(S),
           NEW e \in EnvIDs
    PROVE  ~ChangesHands(e)
<1>1. env \in EnvT  BY DEF WarmInv, WarmTypeOK, EnvT
<1>2. IsEvicted(env, S, env')  BY <1>1, EvictedOf DEF EvictAll
<1>3. QED  BY <1>2 DEF IsEvicted, ChangesHands

LEMMA AcceptKeepsOwner ==
    ASSUME env \in EnvT, NEW a \in Attempts, NEW at, NEW L, NEW undone,
           Accept(a, at, L, undone), NEW e \in EnvIDs, e # EnvOf[a]
    PROVE  ~ChangesHands(e)
<1>1. env'[e] = env[e]  BY WarmAssumption DEF Accept, EnvT
<1>2. QED  BY <1>1 DEF ChangesHands

\* A lease changes hands when a start takes it over, or with the process.
LEMMA OwnerChanges ==
    ASSUME WarmInv, [Next]_vars, NEW e \in EnvIDs, ChangesHands(e)
    PROVE  StartTransfers(e) \/ Crash
<1>1. env \in EnvT /\ att \in AttT  BY DEF WarmInv, WarmTypeOK, EnvT, AttT
<1>2. ASSUME env' = env PROVE FALSE  BY <1>2 DEF ChangesHands
<1>3. ASSUME NEW a \in Attempts,
             \/ StartVerifies(a) \/ Launch(a) \/ ExecEnds(a) \/ Cancel(a) \/ Drop(a) \/ Boot(a)
      PROVE  FALSE
  <2>1. env' = env
    BY <1>3 DEF StartVerifies, Launch, ExecEnds, Cancel, Drop, Boot, Schedule
  <2>2. QED  BY <1>2, <2>1
<1>4. ASSUME NEW a \in Attempts, StartMakesRoom(a) \/ StartEvicts(a) PROVE FALSE
  <2>1. PICK f \in Idle(env) : EvictAll({f} \ Checking)
    BY <1>4 DEF StartMakesRoom, StartEvicts, Evict
  <2>2. {f} \ Checking \in SUBSET EnvIDs /\ \A g \in {f} \ Checking : env[g] # None
    BY DEF Idle
  <2>3. QED  BY <2>1, <2>2, EvictKeepsOwner
<1>5. ASSUME NEW a \in Attempts, StartCreates(a) PROVE FALSE
  <2>1. env[EnvOf[a]] = None /\ Accept(a, att, NewLease(a), None)  BY <1>5 DEF StartCreates
  <2>2. e # EnvOf[a]  BY <2>1 DEF ChangesHands
  <2>3. QED  BY <1>1, <2>1, <2>2, AcceptKeepsOwner
<1>6. ASSUME NEW a \in Attempts, PrepareEnds(a) PROVE FALSE
  <2>1. PICK out \in {"ok", "cancelled", "failed"} :
          env' = [env EXCEPT ![EnvOf[a]].prepare = @ /\ out # "ok",
                             ![EnvOf[a]].evicting = @ \/ out = "failed"]
    BY <1>6 DEF PrepareEnds
  <2>2. CASE e # EnvOf[a]
    <3>1. env'[e] = env[e]  BY <1>1, <2>1, <2>2 DEF EnvT
    <3>2. QED  BY <3>1 DEF ChangesHands
  <2>3. CASE e = EnvOf[a]
    <3> DEFINE p == env[e].prepare /\ out # "ok"
               v == env[e].evicting \/ out = "failed"
               r == [env[e] EXCEPT !.prepare = p, !.evicting = v]
    <3>1. env[e] \in Leases  BY <1>1 DEF ChangesHands, EnvT
    <3>2. env' = [env EXCEPT ![e] = r]  BY <1>1, <2>1, <2>3, <3>1 DEF EnvT, Leases
    <3>3. env'[e] = r  BY <1>1, <3>2 DEF EnvT
    <3> HIDE DEF p, v
    <3>4. r.owner = env[e].owner  BY <3>1 DEF Leases
    <3>5. QED  BY <3>3, <3>4 DEF ChangesHands
  <2>4. QED  BY <2>2, <2>3
<1>7. ASSUME NEW a \in Attempts, HookEnds(a) PROVE FALSE
  <2>1. env'[e] = env[e] \/ env'[e] = None  BY <1>7 DEF HookEnds, LeasesAfterHook
  <2>2. QED  BY <2>1 DEF ChangesHands
<1>8. ASSUME NEW f \in EnvIDs, Fingerprint(f) \/ StartRefused(f) \/ OutsideEdit(f) PROVE FALSE
  BY <1>2, <1>8 DEF Fingerprint, StartRefused, OutsideEdit
<1>9. ASSUME NEW f \in EnvIDs, StartFindsChange(f) PROVE FALSE
  <2>1. EvictAll({f}) /\ env[f] # None  BY <1>9 DEF StartFindsChange, WarmInv, VerifiesOK
  <2>2. QED  BY <2>1, EvictKeepsOwner
<1>10. ASSUME NEW f \in EnvIDs, StartTransfers(f), f # e PROVE FALSE
  <2>1. verify[f] # None /\ \E at, L, undone : Accept(verify[f].who, at, L, undone)
    BY <1>10 DEF StartTransfers
  <2>2. verify[f].who \in Attempts /\ EnvOf[verify[f].who] = f
    BY <2>1 DEF WarmInv, WarmTypeOK, VerifiesOK, Verifications
  <2>3. QED  BY <1>1, <1>10, <2>1, <2>2, AcceptKeepsOwner
<1>11. ASSUME NEW f \in EnvIDs, Release(f) PROVE FALSE
  <2> DEFINE others == (Idle(env) \ {f}) \ Checking
             idle(ok) == [env EXCEPT ![f].print = verify[f].seen, ![f].time = "idle",
                                     ![f].evicting = ~ok]
  <2>1. PICK ok \in Saves : env' = Evicted(idle(ok), others)  BY <1>11 DEF Release
  <2>2. env[e] \in Leases  BY <1>1 DEF ChangesHands, EnvT
  <2>3. CASE e = f
    <3>1. env'[e] = idle(ok)[e]  BY <2>1, <2>3 DEF Evicted
    <3>2. env'[e].owner = env[e].owner  BY <1>1, <2>2, <2>3, <3>1 DEF EnvT, Leases
    <3>3. QED  BY <3>2 DEF ChangesHands
  <2>4. CASE e # f
    <3>1. idle(ok)[e] = env[e]  BY <1>1, <2>4 DEF EnvT
    <3> HIDE DEF idle, others
    <3>2. env'[e] = IF e \in others THEN [env[e] EXCEPT !.evicting = TRUE] ELSE env[e]
      BY <2>1, <3>1 DEF Evicted
    <3>3. env'[e].owner = env[e].owner  BY <2>2, <3>2 DEF Leases
    <3>4. QED  BY <3>3 DEF ChangesHands
  <2>5. QED  BY <2>3, <2>4
<1>12. ASSUME NEW f \in EnvIDs, ReleaseFails(f) PROVE FALSE
  <2>1. env' = Evicted(env, {f})  BY <1>12 DEF ReleaseFails, Schedule
  <2>2. {f} \in SUBSET EnvIDs /\ \A g \in {f} : env[g] # None
    BY <1>12 DEF ReleaseFails, WarmInv, VerifiesOK
  <2>3. IsEvicted(env, {f}, env')  BY <1>1, <2>1, <2>2, EvictedOf
  <2>4. QED  BY <2>3 DEF IsEvicted, ChangesHands
<1>13. ASSUME NEW f \in EnvIDs, Expire(f) PROVE FALSE
  <2>1. env' = [env EXCEPT ![f].time = "due"]  BY <1>13 DEF Expire
  <2>2. env'[e].owner = env[e].owner
    BY <1>1, <2>1 DEF EnvT, Leases, ChangesHands
  <2>3. QED  BY <2>2 DEF ChangesHands
<1>14. ASSUME Sweep PROVE FALSE
  <2> DEFINE S == SweepDue \ Checking
  <2>1. EvictAll(S)  BY <1>14 DEF Sweep, Evict
  <2>2. S \in SUBSET EnvIDs /\ \A f \in S : env[f] # None  BY DEF SweepDue
  <2> HIDE DEF S
  <2>3. QED  BY <2>1, <2>2, EvictKeepsOwner
<1>15. ASSUME UNCHANGED vars PROVE FALSE  BY <1>2, <1>15 DEF vars
<1>16. ASSUME NEW a \in Attempts,
             \/ StartMakesRoom(a) \/ StartCreates(a) \/ StartEvicts(a) \/ StartVerifies(a)
             \/ Launch(a) \/ PrepareEnds(a) \/ ExecEnds(a) \/ Cancel(a)
             \/ HookEnds(a) \/ Drop(a) \/ Boot(a)
      PROVE  FALSE
  BY <1>3, <1>4, <1>5, <1>6, <1>7, <1>16
<1>17. ASSUME NEW f \in EnvIDs,
             \/ Fingerprint(f) \/ StartRefused(f) \/ StartFindsChange(f) \/ StartTransfers(f)
             \/ Release(f) \/ ReleaseFails(f) \/ Expire(f) \/ OutsideEdit(f)
      PROVE  StartTransfers(e)
  BY <1>8, <1>9, <1>10, <1>11, <1>12, <1>13, <1>17
<1>18. QED  BY <1>14, <1>15, <1>16, <1>17 DEF Next, Rest

\* A start takes a lease over only with the files and the HEAD its last owner
\* was released with: what was hashed outside of the mutex is still what is
\* there when the lease changes hands (fingerprintEnvironmentLocked).
THEOREM ReusedAsReleased ==
    ASSUME "inputs" \notin Faults PROVE Spec => ReuseIsAsReleased
<1> DEFINE Reuse == \A e \in EnvIDs :
        (env[e] # None /\ env'[e] # None /\ env'[e].owner # env[e].owner /\ pending' = {})
            => tree[env[e].dir] = env[e].print
<1>1. ASSUME WarmInv, AnswerInv, WarmInv', AnswerInv', [Next]_vars PROVE Reuse
  <2> SUFFICES ASSUME NEW e \in EnvIDs, ChangesHands(e), pending' = {}
               PROVE  tree[env[e].dir] = env[e].print
    BY DEF ChangesHands
  <2>1. CASE StartTransfers(e)
    <3>1. verify[e] # None /\ verify[e].seen = env[e].print
      BY <2>1 DEF StartTransfers, Matches
    <3>2. env[e].print \in Trees
      BY <1>1, <3>1, VerifiedIsQuiet DEF Leases
    <3>3. QED  BY <1>1, <3>1, <3>2 DEF WarmInv, VerifiesOK
  <2>2. CASE Crash
    <3>1. env'[e] # None /\ env'[e].owner \in Attempts
      BY <1>1 DEF ChangesHands, WarmInv, WarmTypeOK, Leases
    <3>2. att'[env'[e].owner].phase # "absent"  BY <1>1, <3>1 DEF AnswerInv, Answered
    <3>3. att'[env'[e].owner].phase \notin {"absent", "dropped"}
      BY <1>1, <3>1, <3>2 DEF WarmInv, Sound, LeaseSound, Holds, Gone
    <3>4. env'[e].owner \in pending'  BY <2>2, <3>1, <3>3 DEF Crash
    <3>5. QED  BY <3>4
  <2>3. QED  BY <1>1, <2>1, <2>2, OwnerChanges
<1>2. WarmInv /\ AnswerInv /\ WarmInv' /\ AnswerInv' /\ [Next]_vars => [Reuse]_vars
  BY <1>1
<1>3. QED  BY <1>2, AnswerInvariant, PTL DEF Spec, ReuseIsAsReleased
=============================================================================
