------------------------- MODULE SyncControlProofs -------------------------
(***************************************************************************)
(* What SyncControl keeps for every bound and every kind of fault: Control *)
(* works for one incarnation of the Store (NoForeignWork) with one cursor  *)
(* request (OneCursorRequest).  Both follow from one inductive invariant,  *)
(* ControlInv.  Sound says of Control that its flights, waiters and plans  *)
(* belong to its Store and that one cursor request is outstanding in its   *)
(* flights and waiters together; every operation of Control keeps it, one  *)
(* lemma for each.  The rest is about the mailboxes: a report of a commit  *)
(* is fenced with the Store it committed to, and the worker's transactions *)
(* never change the incarnation, so that only a Snapshot brings a new one. *)
(*                                                                         *)
(* The last part proves, for a Store opened with the read contract it has, *)
(* that Control never waits for what does not come (LatchesReleased), from *)
(* a second invariant, LatchInv.                                           *)
(***************************************************************************)
EXTENDS SyncControl, SequenceTheorems, FiniteSetTheorems, WellFoundedInduction, TLAPS

\* The fields of Control and the commands it sends.
Fields == {"ctx", "st", "queue", "flights", "connected", "live", "net", "dhead",
           "prefetch", "applying", "freezing", "wakeAfterNeeds", "waitingPush",
           "newEpoch", "refreshing", "waiters", "jobs"}
JobKinds == {"Initialize", "NetworkState", "Needs", "Cleanup", "Freeze", "Acknowledge",
             "Apply"}

\* A sequence, whatever its elements.
IsSequence(s) == s \in Seq({s[i] : i \in DOMAIN s})
IsDelta(f) == f.kind = "Delta"
\* A request names this Store.
Belongs(f, s) ==
    /\ f.kind \in {"Delta", "Owned"} => f.ctx.store = s
    /\ f.kind = "Push" => f.store = s

\* Control's parts, each in the Store's incarnation s.
Context(k) == "store" \in DOMAIN k
FlightsOk(flights, s) == \A x \in flights : Belongs(x.f, s)
WaitersOk(waiting, s) == IsSequence(waiting) /\ \A i \in DOMAIN waiting : Belongs(waiting[i], s)
QueueOk(queue, s) ==
    \A id \in DOMAIN queue : "ctx" \in DOMAIN queue[id] /\ queue[id].ctx.store = s
JobsOk(jobs) == IsSequence(jobs) /\ \A i \in DOMAIN jobs : jobs[i].kind \in JobKinds

\* One cursor request, in flight or waiting.
AtMostOne(waiting) ==
    \A i, j \in DOMAIN waiting : IsDelta(waiting[i]) /\ IsDelta(waiting[j]) => i = j
NoneWaits(waiting) == \A i \in DOMAIN waiting : ~IsDelta(waiting[i])
NoneFlies(flights) == \A x \in flights : ~IsDelta(x.f)
Single(flights, waiting) ==
    /\ \A x, y \in flights : IsDelta(x.f) /\ IsDelta(y.f) => x = y
    /\ AtMostOne(waiting)
    /\ NoneFlies(flights) \/ NoneWaits(waiting)

\* The part of the invariant that every operation of Control keeps.
Sound(c) ==
    /\ DOMAIN c = Fields
    /\ Context(c.ctx)
    /\ FlightsOk(c.flights, c.ctx.store)
    /\ WaitersOk(c.waiters, c.ctx.store)
    /\ QueueOk(c.queue, c.ctx.store)
    /\ JobsOk(c.jobs)
    /\ Single(c.flights, c.waiters)

----------------------------------------------------------------------------
\* A set of numbers that is not empty has a least one: what induction over a
\* recursive function rests on here.
LEMMA LeastNatural ==
    ASSUME NEW T, T \subseteq Nat, T # {}
    PROVE  \E m \in T : \A k \in T : m <= k
<1> DEFINE Below == {ss \in Nat \X Nat : ss[1] < ss[2]}
<1>1. IsWellFoundedOn(Below, Nat)
  BY NatLessThanWellFounded DEF OpToRel
<1>2. PICK m \in T : \A k \in T : <<k, m>> \notin Below
  <2> HIDE DEF Below
  <2> QED
    BY <1>1, WFMin
<1>3. ASSUME NEW k \in T PROVE m <= k
  <2>1. /\ m \in Nat /\ k \in Nat
        /\ <<k, m>> \in Nat \X Nat /\ <<k, m>>[1] = k /\ <<k, m>>[2] = m
    OBVIOUS
  <2>2. ~(k < m)
    BY <1>2, <2>1
  <2> QED
    BY <2>1, <2>2
<1> QED
  BY <1>3

\* Every sequence is a sequence of its own elements.
LEMMA SeqIsASeq ==
    ASSUME NEW S, NEW s \in Seq(S)
    PROVE  IsSequence(s)
<1>1. s \in [1..Len(s) -> S] /\ Len(s) \in Nat
  BY SeqDef
<1>2. s \in [1..Len(s) -> {s[i] : i \in DOMAIN s}]
  BY <1>1
<1> QED BY <1>1, <1>2 DEF IsSequence

\* The domain of a sequence.
LEMMA IsASeqFacts ==
    ASSUME NEW s, IsSequence(s)
    PROVE  Len(s) \in Nat /\ DOMAIN s = 1..Len(s)
BY DEF IsSequence

\* One element more.
LEMMA AppendIsASeq ==
    ASSUME NEW s, IsSequence(s), NEW e
    PROVE  /\ IsSequence(Append(s, e))
           /\ Len(Append(s, e)) = Len(s) + 1
           /\ DOMAIN Append(s, e) = 1..(Len(s) + 1)
           /\ \A i \in 1..Len(s) : Append(s, e)[i] = s[i]
           /\ Append(s, e)[Len(s) + 1] = e
<1> DEFINE S == {s[i] : i \in DOMAIN s} \cup {e}
<1>1. s \in Seq(S)
  BY DEF IsSequence
<1>2. Append(s, e) \in Seq(S)
  BY <1>1
<1>3. IsSequence(Append(s, e))
  BY <1>2, SeqIsASeq
<1> QED BY <1>1, <1>2, <1>3, AppendProperties

\* The empty sequence.
LEMMA EmptyIsASeq == IsSequence(<<>>) /\ DOMAIN <<>> = {} /\ Len(<<>>) = 0
<1>1. <<>> \in Seq({})
  OBVIOUS
<1>2. Len(<<>>) = 0 /\ DOMAIN <<>> = {}
  OBVIOUS
<1> QED BY <1>1, <1>2, SeqIsASeq

\* Two sequences in one.
LEMMA ConcatIsASeq ==
    ASSUME NEW s, NEW t, IsSequence(s), IsSequence(t)
    PROVE  /\ IsSequence(s \o t)
           /\ DOMAIN (s \o t) = 1..(Len(s) + Len(t))
           /\ \A i \in 1..Len(s) : (s \o t)[i] = s[i]
           /\ \A i \in 1..Len(t) : (s \o t)[Len(s) + i] = t[i]
<1> DEFINE S == {s[i] : i \in DOMAIN s} \cup {t[i] : i \in DOMAIN t}
<1>1. s \in Seq(S) /\ t \in Seq(S)
  BY DEF IsSequence
<1>2. s \o t \in Seq(S) /\ Len(s \o t) = Len(s) + Len(t)
  BY <1>1, ConcatProperties
<1>3. IsSequence(s \o t)
  BY <1>2, SeqIsASeq
<1>4. /\ \A i \in 1..Len(s) : (s \o t)[i] = s[i]
      /\ \A i \in 1..Len(t) : (s \o t)[Len(s) + i] = t[i]
  BY <1>1
<1>5. Len(s) \in Nat /\ Len(t) \in Nat /\ DOMAIN s = 1..Len(s) /\ DOMAIN t = 1..Len(t)
  BY IsASeqFacts
<1>6. DOMAIN (s \o t) = 1..(Len(s) + Len(t))
  BY <1>2
<1> QED BY <1>3, <1>4, <1>6

\* A sequence without its head.
LEMMA TailIsASeq ==
    ASSUME NEW s, IsSequence(s), s # <<>>
    PROVE  /\ IsSequence(Tail(s))
           /\ \A i \in DOMAIN Tail(s) : \E j \in DOMAIN s : Tail(s)[i] = s[j]
           /\ 1 \in DOMAIN s /\ Head(s) = s[1]
<1> DEFINE S == {s[i] : i \in DOMAIN s}
<1>1. s \in Seq(S) /\ s # <<>>
  BY DEF IsSequence
<1>2. Tail(s) \in Seq(S) /\ Len(Tail(s)) = Len(s) - 1 /\ Len(s) \in Nat /\ Len(s) >= 1
  BY <1>1
<1>3. IsSequence(Tail(s))
  BY <1>2, SeqIsASeq
<1>4. \A i \in DOMAIN Tail(s) : Tail(s)[i] = s[i + 1] /\ i + 1 \in DOMAIN s
  BY <1>1, <1>2
<1>5. 1 \in DOMAIN s /\ Head(s) = s[1]
  BY <1>1, <1>2
<1> QED BY <1>3, <1>4, <1>5

\* A function with the domain of a sequence is a sequence.
LEMMA MapIsASeq ==
    ASSUME NEW s, IsSequence(s), NEW t, t = [i \in DOMAIN s |-> t[i]]
    PROVE  IsSequence(t) /\ DOMAIN t = DOMAIN s
<1>1. Len(s) \in Nat /\ DOMAIN s = 1..Len(s)
  BY IsASeqFacts
<1>2. t \in [1..Len(s) -> {t[i] : i \in DOMAIN t}]
  BY <1>1
<1> QED BY <1>1, <1>2 DEF IsSequence


----------------------------------------------------------------------------
\* The recursive function in Remaining exists, so that it has the values its
\* definition gives.
LEMMA RemainingIsDefined ==
    ASSUME NEW waiting, IsSequence(waiting), NEW keep
    PROVE  \E kept :
             /\ kept = [n \in 0..Len(waiting) |->
                          IF n = 0 THEN <<>>
                          ELSE IF n \in keep THEN Append(kept[n - 1], waiting[n])
                          ELSE kept[n - 1]]
             /\ Remaining(waiting, keep) = kept[Len(waiting)]
<1> DEFINE Step(g, n) == IF n = 0 THEN <<>>
                         ELSE IF n \in keep THEN Append(g[n - 1], waiting[n]) ELSE g[n - 1]
           Fits(g, N) == g = [n \in 0..N |-> Step(g, n)]
           Bad == {N \in Nat : ~\E g : Fits(g, N)}
<1>1. Len(waiting) \in Nat
  BY IsASeqFacts
<1>2. Bad = {}
  <2> SUFFICES ASSUME Bad # {} PROVE FALSE
    OBVIOUS
  <2>1. PICK m \in Bad : \A k \in Bad : m <= k
    <3>1. Bad \subseteq Nat
      OBVIOUS
    <3> HIDE DEF Bad
    <3> QED BY <3>1, LeastNatural
  <2>2. m # 0
    <3>1. Fits([n \in 0..0 |-> <<>>], 0)
      OBVIOUS
    <3> HIDE DEF Fits
    <3> QED BY <3>1, <2>1
  <2>3. m \in Nat /\ m - 1 \in Nat /\ m - 1 \notin Bad
    <3>1. m \in Nat
      OBVIOUS
    <3> HIDE DEF Bad
    <3> QED BY <3>1, <2>1, <2>2
  <2>4. PICK g : Fits(g, m - 1)
    <3> HIDE DEF Fits
    <3> QED BY <2>3
  <2> DEFINE h == [n \in 0..m |-> IF n = m THEN Step(g, m) ELSE g[n]]
  <2>5. ASSUME NEW n \in 0..m PROVE h[n] = Step(h, n)
    <3>1. CASE n = m
      BY <3>1, <2>2, <2>3
    <3>2. CASE n # m
      <4>1. n \in 0..(m - 1) /\ h[n] = g[n]
        BY <3>2, <2>3
      <4>2. g[n] = Step(g, n)
        BY <4>1, <2>4
      <4>3. n = 0 \/ (n - 1 \in 0..m /\ n - 1 # m)
        BY <4>1, <2>3
      <4>4. n = 0 \/ h[n - 1] = g[n - 1]
        BY <4>3
      <4> QED BY <4>1, <4>2, <4>4
    <3> QED BY <3>1, <3>2
  <2>6. Fits(h, m)
    BY <2>5
  <2> HIDE DEF Fits
  <2> QED BY <2>6, <2>1
<1>3. \E g : Fits(g, Len(waiting))
  <2> HIDE DEF Fits
  <2> QED BY <1>1, <1>2
<1> DEFINE kept == CHOOSE g : Fits(g, Len(waiting))
<1>4. Fits(kept, Len(waiting))
  <2> HIDE DEF Fits
  <2> QED BY <1>3
<1>5. Remaining(waiting, keep) = kept[Len(waiting)]
  BY DEF Remaining
<1> QED BY <1>4, <1>5

\* Part of the waiters, in their order.
Part(r, n, waiting) ==
    /\ IsSequence(r)
    /\ \A i \in DOMAIN r : \E j \in 1..n : r[i] = waiting[j]
    /\ AtMostOne(waiting) => AtMostOne(r)

\* Retiring waiters (retire_bootstrap_prefetch, Needs) leaves some of them, and
\* makes no second cursor request of one.
LEMMA RemainingIsPart ==
    ASSUME NEW waiting, IsSequence(waiting), NEW keep
    PROVE  Part(Remaining(waiting, keep), Len(waiting), waiting)
<1>1. PICK kept :
             /\ kept = [n \in 0..Len(waiting) |->
                          IF n = 0 THEN <<>>
                          ELSE IF n \in keep THEN Append(kept[n - 1], waiting[n])
                          ELSE kept[n - 1]]
             /\ Remaining(waiting, keep) = kept[Len(waiting)]
  BY RemainingIsDefined
<1>2. Len(waiting) \in Nat /\ DOMAIN waiting = 1..Len(waiting)
  BY IsASeqFacts
<1> DEFINE Bad == {n \in 0..Len(waiting) : ~Part(kept[n], n, waiting)}
<1>3. Bad = {}
  <2> SUFFICES ASSUME Bad # {} PROVE FALSE
    OBVIOUS
  <2>1. PICK m \in Bad : \A k \in Bad : m <= k
    <3>1. Bad \subseteq Nat
      BY <1>2
    <3> HIDE DEF Bad
    <3> QED BY <3>1, LeastNatural
  <2>2. CASE m = 0
    <3>1. kept[0] = <<>>
      BY <1>1, <1>2
    <3>2. Part(<<>>, 0, waiting)
      BY EmptyIsASeq DEF Part, AtMostOne
    <3> QED BY <2>1, <2>2, <3>1, <3>2
  <2>3. CASE m # 0
    <3>1. m \in 1..Len(waiting) /\ m - 1 \in 0..Len(waiting) /\ m - 1 \notin Bad
      BY <2>1, <2>3, <1>2
    <3> DEFINE r == kept[m - 1]
    <3>2. Part(r, m - 1, waiting)
      BY <3>1
    <3>3. kept[m] = IF m \in keep THEN Append(r, waiting[m]) ELSE r
      <4>1. m \in 0..Len(waiting)
        BY <3>1
      <4> HIDE DEF Bad
      <4> QED BY <1>1, <4>1, <2>3
    <3> HIDE DEF r, Bad
    <3>4. CASE m \notin keep
      <4>1. Part(r, m, waiting)
        BY <3>1, <3>2 DEF Part
      <4> QED BY <4>1, <3>3, <3>4, <2>1 DEF Bad
    <3>5. CASE m \in keep
      <4>1. /\ IsSequence(Append(r, waiting[m]))
            /\ DOMAIN Append(r, waiting[m]) = 1..(Len(r) + 1)
            /\ \A i \in 1..Len(r) : Append(r, waiting[m])[i] = r[i]
            /\ Append(r, waiting[m])[Len(r) + 1] = waiting[m]
        BY <3>2, AppendIsASeq DEF Part
      <4>2. Len(r) \in Nat /\ DOMAIN r = 1..Len(r)
        BY <3>2, IsASeqFacts DEF Part
      <4>3. \A i \in DOMAIN r : \E j \in 1..(m - 1) : r[i] = waiting[j]
        BY <3>2 DEF Part
      <4> DEFINE q == Append(r, waiting[m])
      <4> HIDE DEF q
      <4>4. ASSUME NEW i \in DOMAIN q PROVE \E j \in 1..m : q[i] = waiting[j]
        BY <4>1, <4>2, <4>3, <4>4, <3>1 DEF q
      <4>5. ASSUME AtMostOne(waiting) PROVE AtMostOne(q)
        <5> SUFFICES ASSUME NEW i \in DOMAIN q, NEW j \in DOMAIN q,
                            IsDelta(q[i]), IsDelta(q[j]), i < j
                     PROVE  FALSE
          BY <4>1 DEF AtMostOne, q
        <5>1. i \in DOMAIN r /\ q[i] = r[i]
          BY <4>1, <4>2 DEF q
        <5>2. PICK a \in 1..(m - 1) : r[i] = waiting[a]
          BY <5>1, <4>3
        <5>3. CASE j = Len(r) + 1
          <6>1. q[j] = waiting[m]
            BY <5>3, <4>1 DEF q
          <6>2. a \in DOMAIN waiting /\ m \in DOMAIN waiting /\ a # m
            BY <5>2, <3>1, <1>2
          <6> QED BY <6>1, <6>2, <5>1, <5>2, <4>5 DEF AtMostOne
        <5>4. CASE j # Len(r) + 1
          <6>1. j \in DOMAIN r /\ q[j] = r[j]
            BY <5>4, <4>1, <4>2 DEF q
          <6>2. AtMostOne(r) /\ i # j
            BY <4>5, <3>2, <4>1, <4>2, <5>1, <6>1 DEF Part
          <6> QED BY <6>1, <6>2, <5>1 DEF AtMostOne
        <5> QED BY <5>3, <5>4
      <4>6. Part(q, m, waiting)
        BY <4>1, <4>4, <4>5 DEF Part, q
      <4> QED BY <4>6, <3>3, <3>5, <2>1 DEF Bad, q
    <3> QED BY <3>4, <3>5
  <2> QED BY <2>2, <2>3
<1>4. Part(kept[Len(waiting)], Len(waiting), waiting)
  BY <1>2, <1>3
<1> QED BY <1>1, <1>4


----------------------------------------------------------------------------
\* All waiters are a part of the waiters.
LEMMA WholePart ==
    ASSUME NEW waiting, IsSequence(waiting)
    PROVE  Part(waiting, Len(waiting), waiting)
BY IsASeqFacts DEF Part

\* What a narrowing of Control leaves.
Narrows(d, c) ==
    /\ DOMAIN d = Fields
    /\ d.ctx = c.ctx
    /\ d.flights \subseteq c.flights
    /\ Part(d.waiters, Len(c.waiters), c.waiters)
    /\ DOMAIN d.queue \subseteq DOMAIN c.queue
    /\ \A id \in DOMAIN d.queue : /\ DOMAIN d.queue[id] = DOMAIN c.queue[id]
                                  /\ d.queue[id].ctx = c.queue[id].ctx
    /\ d.jobs = c.jobs

\* What is retired leaves Control sound.
LEMMA NarrowerIsSound ==
    ASSUME NEW c, NEW d, Sound(c), Narrows(d, c)
    PROVE  Sound(d)
<1>1. d.ctx.store = c.ctx.store
  BY DEF Narrows
<1>2. DOMAIN d = Fields /\ Context(d.ctx) /\ JobsOk(d.jobs)
  BY DEF Narrows, Sound
<1>3. FlightsOk(d.flights, c.ctx.store)
  BY DEF Narrows, Sound, FlightsOk
<1>4. QueueOk(d.queue, c.ctx.store)
  BY DEF Narrows, Sound, QueueOk
<1>5. IsSequence(c.waiters) /\ Len(c.waiters) \in Nat /\ DOMAIN c.waiters = 1..Len(c.waiters)
  BY IsASeqFacts DEF Sound, WaitersOk
<1>6. /\ IsSequence(d.waiters)
      /\ \A i \in DOMAIN d.waiters : \E j \in DOMAIN c.waiters : d.waiters[i] = c.waiters[j]
      /\ AtMostOne(c.waiters) => AtMostOne(d.waiters)
  BY <1>5 DEF Narrows, Part
<1>7. WaitersOk(d.waiters, c.ctx.store)
  BY <1>6 DEF Sound, WaitersOk
<1>8. Single(d.flights, d.waiters)
  <2>1. NoneWaits(c.waiters) => NoneWaits(d.waiters)
    BY <1>6 DEF NoneWaits
  <2>2. NoneFlies(c.flights) => NoneFlies(d.flights)
    BY DEF NoneFlies, Narrows
  <2>3. d.flights \subseteq c.flights
    BY DEF Narrows
  <2> QED BY <2>1, <2>2, <2>3, <1>6 DEF Sound, Single
<1> QED BY <1>1, <1>2, <1>3, <1>4, <1>7, <1>8 DEF Sound

\* A change of Control's other fields.
SameWork(d, c) ==
    /\ DOMAIN d = Fields
    /\ d.ctx = c.ctx /\ d.flights = c.flights /\ d.waiters = c.waiters
    /\ d.queue = c.queue /\ d.jobs = c.jobs

\* A change of latches and status leaves Control sound.
LEMMA SameWorkIsSound ==
    ASSUME NEW c, NEW d, Sound(c), SameWork(d, c)
    PROVE  Sound(d)
BY DEF Sound, SameWork

\* Effect adds one flight and changes nothing else.
LEMMA EffectAdds ==
    ASSUME NEW c, NEW f, DOMAIN c = Fields
    PROVE  \E n : /\ Effect(c, f).flights = c.flights \cup {[f |-> f, n |-> n]}
                  /\ DOMAIN Effect(c, f) = Fields
                  /\ \A k \in Fields \ {"flights"} : Effect(c, f)[k] = c[k]
BY DEF Effect, Fields

\* Control stays sound when an effect of this Store is sent, a cursor request
\* only when none is outstanding.
LEMMA EffectIsSound ==
    ASSUME NEW c, NEW f, Sound(c), Belongs(f, c.ctx.store),
           IsDelta(f) => NoneFlies(c.flights) /\ NoneWaits(c.waiters)
    PROVE  /\ Sound(Effect(c, f))
           /\ \A k \in Fields \ {"flights"} : Effect(c, f)[k] = c[k]
<1> DEFINE d == Effect(c, f)
<1>1. PICK n : /\ d.flights = c.flights \cup {[f |-> f, n |-> n]}
               /\ DOMAIN d = Fields
               /\ \A k \in Fields \ {"flights"} : d[k] = c[k]
  BY EffectAdds DEF Sound
<1> HIDE DEF d
<1>2. /\ d.ctx = c.ctx /\ d.waiters = c.waiters /\ d.queue = c.queue /\ d.jobs = c.jobs
      /\ \A k \in Fields \ {"flights"} : d[k] = c[k]
  BY <1>1 DEF Fields
<1> DEFINE y == [f |-> f, n |-> n]
<1>3. y.f = f
  OBVIOUS
<1> HIDE DEF y
<1>4. d.flights = c.flights \cup {y}
  BY <1>1 DEF y
<1>5. FlightsOk(d.flights, c.ctx.store)
  BY <1>3, <1>4 DEF FlightsOk, Sound
<1>6. Single(d.flights, c.waiters)
  BY <1>3, <1>4 DEF Single, Sound, NoneFlies, NoneWaits
<1> QED BY <1>1, <1>2, <1>5, <1>6 DEF Sound, d

\* Timers, handshakes, refreshes and sockets may always be sent.
LEMMA PlainIsSound ==
    ASSUME NEW c, Sound(c), NEW f, f.kind \notin {"Delta", "Owned", "Push"}
    PROVE  /\ Sound(Effect(c, f))
           /\ \A k \in Fields \ {"flights"} : Effect(c, f)[k] = c[k]
<1>1. Belongs(f, c.ctx.store) /\ ~IsDelta(f)
  BY DEF Belongs, IsDelta
<1> QED BY <1>1, EffectIsSound

\* Control stays sound when a job for the worker is gathered.
LEMMA JobIsSound ==
    ASSUME NEW c, Sound(c), NEW cmd, cmd.kind \in JobKinds
    PROVE  /\ Sound(Job(c, cmd))
           /\ \A k \in Fields \ {"jobs"} : Job(c, cmd)[k] = c[k]
<1> DEFINE d == Job(c, cmd)
<1>1. /\ d.ctx = c.ctx /\ d.waiters = c.waiters /\ d.queue = c.queue
      /\ d.flights = c.flights /\ DOMAIN d = Fields /\ d.jobs = Append(c.jobs, cmd)
      /\ \A k \in Fields \ {"jobs"} : d[k] = c[k]
  BY DEF Sound, Fields, Job
<1> HIDE DEF d
<1>2. IsSequence(c.jobs) /\ \A i \in DOMAIN c.jobs : c.jobs[i].kind \in JobKinds
  BY DEF Sound, JobsOk
<1>3. JobsOk(Append(c.jobs, cmd))
  BY <1>2, AppendIsASeq, IsASeqFacts DEF JobsOk
<1> QED BY <1>1, <1>3 DEF Sound, d

\* retire_bootstrap_prefetch only retires.
LEMMA RetirePrefetchIsSound ==
    ASSUME NEW c, Sound(c)
    PROVE  Narrows(RetirePrefetch(c), c) /\ Sound(RetirePrefetch(c))
<1> DEFINE b == Zero(c.st.B)
           Ahead(f) == f.kind = "Delta" /\ f.boot /\ f.after > b
           W == {i \in DOMAIN c.waiters : ~Ahead(c.waiters[i])}
           K == {id \in DOMAIN c.queue : ~Ordinary(c.queue[id]) \/ ~c.queue[id].boot
                                           \/ c.queue[id].after <= b}
           d == RetirePrefetch(c)
<1>1. /\ DOMAIN d = Fields /\ d.ctx = c.ctx /\ d.jobs = c.jobs
      /\ d.flights \subseteq c.flights
      /\ d.queue = Restrict(c.queue, K)
      /\ d.waiters = Remaining(c.waiters, W)
  BY DEF Sound, Fields, RetirePrefetch, Keep, Drop
<1>2. Part(Remaining(c.waiters, W), Len(c.waiters), c.waiters)
  <2> HIDE DEF W
  <2> QED BY RemainingIsPart DEF Sound, WaitersOk
<1>3. K \subseteq DOMAIN c.queue
  OBVIOUS
<1> HIDE DEF K, W, d
<1>4. DOMAIN d.queue = K /\ \A id \in K : d.queue[id] = c.queue[id]
  BY <1>1 DEF Restrict
<1>5. Narrows(d, c)
  BY <1>1, <1>2, <1>3, <1>4 DEF Narrows
<1> QED BY <1>5, NarrowerIsSound DEF d

\* handshake leaves no cursor request in flight; those that wait stay.
LEMMA HandshakeIsSound ==
    ASSUME NEW c, Sound(c)
    PROVE  /\ Sound(Handshake(c))
           /\ Handshake(c).ctx = c.ctx
           /\ NoneFlies(Handshake(c).flights)
           /\ NoneWaits(c.waiters) => NoneWaits(Handshake(c).waiters)
<1> DEFINE r == RetirePrefetch(c)
           d == [[r EXCEPT !.flights = {x \in @ : x.f.kind \notin
                              {"Socket", "Delta", "Handshake", "Owned", "Push"}}]
                 EXCEPT !.newEpoch = TRUE, !.applying = 0, !.freezing = FALSE,
                        !.wakeAfterNeeds = FALSE, !.waitingPush = 0]
<1>1. Sound(r) /\ r.ctx = c.ctx /\ Part(r.waiters, Len(c.waiters), c.waiters)
  BY RetirePrefetchIsSound DEF Narrows
<1>2. Handshake(c) = Effect(d, Plain("Handshake"))
  BY DEF Handshake, Drop
<1> HIDE DEF r
<1>3. /\ DOMAIN d = Fields /\ d.ctx = c.ctx /\ d.waiters = r.waiters /\ d.queue = r.queue
      /\ d.jobs = r.jobs /\ d.flights \subseteq r.flights /\ NoneFlies(d.flights)
  BY <1>1 DEF Sound, Fields, NoneFlies, IsDelta
<1> HIDE DEF d
<1>4. IsSequence(r.waiters) /\ Part(r.waiters, Len(r.waiters), r.waiters)
  BY <1>1, WholePart DEF Sound, WaitersOk
<1>5. Narrows(d, r)
  BY <1>1, <1>3, <1>4 DEF Narrows
<1>6. Sound(d)
  BY <1>1, <1>5, NarrowerIsSound
<1>7. Plain("Handshake").kind = "Handshake"
  BY DEF Plain
<1> DEFINE h == Effect(d, Plain("Handshake"))
<1>8. /\ Sound(h) /\ \A k \in Fields \ {"flights"} : h[k] = d[k]
  BY <1>6, <1>7, PlainIsSound
<1>9. PICK n : h.flights = d.flights \cup {[f |-> Plain("Handshake"), n |-> n]}
  <2> DEFINE p == Plain("Handshake")
  <2> HIDE DEF p
  <2>1. \E n : /\ Effect(d, p).flights = d.flights \cup {[f |-> p, n |-> n]}
               /\ DOMAIN Effect(d, p) = Fields
               /\ \A k \in Fields \ {"flights"} : Effect(d, p)[k] = d[k]
    BY <1>3, EffectAdds, Zenon
  <2> QED BY <2>1 DEF p
<1> HIDE DEF h
<1>10. NoneFlies(h.flights)
  BY <1>3, <1>7, <1>9 DEF NoneFlies, IsDelta
<1>11. h.ctx = d.ctx /\ h.waiters = d.waiters
  BY <1>8 DEF Fields
<1>12. NoneWaits(c.waiters) => NoneWaits(r.waiters)
  BY <1>1, IsASeqFacts DEF Part, NoneWaits, Sound, WaitersOk
<1> QED BY <1>2, <1>3, <1>8, <1>10, <1>11, <1>12 DEF h

\* connect
LEMMA ConnectIsSound ==
    ASSUME NEW c, Sound(c)
    PROVE  Sound(Connect(c)) /\ Connect(c).ctx = c.ctx
<1> DEFINE d == [c EXCEPT !.connected = TRUE]
<1>1. SameWork(d, c)
  BY DEF SameWork, Sound, Fields
<1>2. Sound(d) /\ d.ctx = c.ctx
  BY <1>1, SameWorkIsSound DEF SameWork
<1> QED BY <1>2, HandshakeIsSound DEF Connect

\* stop leaves nothing outstanding.
LEMMA StopIsSound ==
    ASSUME NEW c, Sound(c)
    PROVE  /\ Sound(Stop(c)) /\ Stop(c).ctx = c.ctx
           /\ Stop(c).flights = {} /\ Stop(c).waiters = <<>> /\ Stop(c).jobs = <<>>
<1> DEFINE d == Stop(c)
<1>1. /\ DOMAIN d = Fields /\ d.ctx = c.ctx /\ d.queue = c.queue
      /\ d.flights = {} /\ d.waiters = <<>> /\ d.jobs = <<>>
  BY DEF Sound, Fields, Stop
<1> HIDE DEF d
<1>2. FlightsOk({}, c.ctx.store) /\ WaitersOk(<<>>, c.ctx.store) /\ JobsOk(<<>>)
      /\ Single({}, <<>>)
  BY EmptyIsASeq DEF FlightsOk, WaitersOk, JobsOk, Single, NoneFlies, NoneWaits, AtMostOne
<1> QED BY <1>1, <1>2 DEF Sound, d

\* wake
LEMMA WakeIsSound ==
    ASSUME NEW c, Sound(c)
    PROVE  Sound(Wake(c)) /\ Wake(c).ctx = c.ctx
<1> DEFINE d == [c EXCEPT !.freezing = TRUE]
<1>1. SameWork(d, c)
  BY DEF SameWork, Sound, Fields
<1>2. Sound(d) /\ d.ctx = c.ctx
  BY <1>1, SameWorkIsSound DEF SameWork
<1>3. Cmd("Freeze").kind \in JobKinds
  BY DEF Cmd, JobKinds
<1>4. Sound(Job(d, Cmd("Freeze"))) /\ Job(d, Cmd("Freeze")).ctx = d.ctx
  BY <1>2, <1>3, JobIsSound DEF Fields
<1> QED BY <1>2, <1>4 DEF Wake

\* retry_status
LEMMA RetryIsSound ==
    ASSUME NEW c, Sound(c)
    PROVE  Sound(Retry(c)) /\ Retry(c).ctx = c.ctx
<1>1. Plain("Retry").kind = "Retry"
  BY DEF Plain
<1>2. Sound(Effect(c, Plain("Retry"))) /\ Effect(c, Plain("Retry")).ctx = c.ctx
  BY <1>1, PlainIsSound DEF Fields
<1> QED BY <1>2 DEF Retry


----------------------------------------------------------------------------
\* schedule, its parts in order: the expiry timer,
LEMMA ArmExpiryIsSound ==
    ASSUME NEW c, Sound(c)
    PROVE  Sound(ArmExpiry(c)) /\ ArmExpiry(c).ctx = c.ctx
<1>1. Plain("Expire").kind = "Expire"
  BY DEF Plain
<1>2. Sound(Effect(c, Plain("Expire"))) /\ Effect(c, Plain("Expire")).ctx = c.ctx
  BY <1>1, PlainIsSound DEF Fields
<1> QED BY <1>2 DEF ArmExpiry

\* the network state,
LEMMA TellNetworkIsSound ==
    ASSUME NEW c, Sound(c)
    PROVE  Sound(TellNetwork(c)) /\ TellNetwork(c).ctx = c.ctx
<1> DEFINE net == <<c.live, c.st.C = None \/ c.st.C < c.dhead>>
           d == [c EXCEPT !.net = net]
<1>1. TellNetwork(c) = IF c.net = net THEN c ELSE Job(d, Cmd("NetworkState"))
  BY DEF TellNetwork
<1> HIDE DEF net
<1>2. SameWork(d, c)
  BY DEF SameWork, Sound, Fields
<1>3. Sound(d) /\ d.ctx = c.ctx
  BY <1>2, SameWorkIsSound DEF SameWork
<1>4. Cmd("NetworkState").kind \in JobKinds
  BY DEF Cmd, JobKinds
<1> HIDE DEF d
<1>5. Sound(Job(d, Cmd("NetworkState"))) /\ Job(d, Cmd("NetworkState")).ctx = d.ctx
  BY <1>3, <1>4, JobIsSound DEF Fields
<1> QED BY <1>1, <1>3, <1>5

\* the Apply,
LEMMA ScheduleApplyIsSound ==
    ASSUME NEW c, Sound(c)
    PROVE  Sound(ScheduleApply(c)) /\ ScheduleApply(c).ctx = c.ctx
<1> DEFINE ready == {i \in DOMAIN c.queue : MayApply(c, i)}
           id == Min(ready)
           d == [c EXCEPT !.applying = id]
           cmd == [kind |-> "Apply", id |-> id, plan |-> c.queue[id]]
<1>1. ScheduleApply(c) = IF c.applying # 0 \/ ready = {} THEN c ELSE Job(d, cmd)
  BY DEF ScheduleApply
<1>2. cmd.kind \in JobKinds
  BY DEF JobKinds
<1> HIDE DEF ready, id, cmd
<1>3. SameWork(d, c)
  BY DEF SameWork, Sound, Fields
<1>4. Sound(d) /\ d.ctx = c.ctx
  BY <1>3, SameWorkIsSound DEF SameWork
<1> HIDE DEF d
<1>5. Sound(Job(d, cmd)) /\ Job(d, cmd).ctx = d.ctx
  BY <1>4, <1>2, JobIsSound DEF Fields
<1> QED BY <1>1, <1>4, <1>5

\* a cursor request when none is outstanding,
LEMMA PullIsSound ==
    ASSUME NEW c, NEW lane, NEW after, NEW through, Sound(c), ~Requested(c)
    PROVE  Sound(Pull(c, lane, after, through)) /\ Pull(c, lane, after, through).ctx = c.ctx
<1> DEFINE f == [kind |-> "Delta", ctx |-> c.ctx, boot |-> lane,
                 after |-> after, through |-> through]
<1>1. NoneFlies(c.flights) /\ NoneWaits(c.waiters)
  BY DEF Requested, Has, NoneFlies, NoneWaits, IsDelta
<1>2. Belongs(f, c.ctx.store)
  BY DEF Belongs
<1>3. Pull(c, lane, after, through) = Effect(c, f)
  BY DEF Pull
<1> HIDE DEF f
<1>4. Sound(Effect(c, f)) /\ Effect(c, f).ctx = c.ctx
  BY <1>1, <1>2, EffectIsSound DEF Fields
<1> QED BY <1>3, <1>4

\* the cursor request,
LEMMA SchedulePullIsSound ==
    ASSUME NEW c, Sound(c)
    PROVE  Sound(SchedulePull(c)) /\ SchedulePull(c).ctx = c.ctx
<1>1. CASE Requested(c)
  <2>1. SchedulePull(c) = c
    BY <1>1 DEF SchedulePull
  <2> QED BY <2>1
<1>2. CASE ~Requested(c)
  <2>1. ASSUME NEW lane, NEW after, NEW through
        PROVE  /\ Sound(Pull(c, lane, after, through))
               /\ Pull(c, lane, after, through).ctx = c.ctx
    BY <1>2, PullIsSound
  <2>2. ASSUME NEW after, NEW through
        PROVE  /\ Sound(PullSuccessor(c, after, through))
               /\ PullSuccessor(c, after, through).ctx = c.ctx
    BY <2>1 DEF PullSuccessor
  <2> DEFINE boot == c.st.B # c.st.S
             after == Reached(c.st, boot)
             through == IF boot THEN c.st.S ELSE c.dhead
             held == \E p \in Range(c.queue) : p.boot = boot /\ p.after # None
                                           /\ p.after <= after /\ p.through >= after
  <2>3. SchedulePull(c) \in {c, PullSuccessor(c, after, through), Pull(c, boot, after, through)}
    BY DEF SchedulePull
  <2> HIDE DEF boot, after, through, held
  <2> QED BY <2>1, <2>2, <2>3
<1> QED BY <1>1, <1>2

\* and schedule as a whole.
LEMMA ScheduleIsSound ==
    ASSUME NEW c, Sound(c)
    PROVE  Sound(Schedule(c)) /\ Schedule(c).ctx = c.ctx
<1> DEFINE c1 == ArmExpiry(c)
           c2 == TellNetwork(c1)
           c3 == ScheduleApply(c2)
<1>1. Sound(c1) /\ c1.ctx = c.ctx
  BY ArmExpiryIsSound
<1> HIDE DEF c1
<1>2. Sound(c2) /\ c2.ctx = c.ctx
  BY <1>1, TellNetworkIsSound
<1> HIDE DEF c2
<1>3. Sound(c3) /\ c3.ctx = c.ctx
  BY <1>2, ScheduleApplyIsSound
<1> HIDE DEF c3
<1>4. Sound(SchedulePull(c3)) /\ SchedulePull(c3).ctx = c.ctx
  BY <1>3, SchedulePullIsSound
<1> QED BY <1>4 DEF Schedule, c1, c2, c3

----------------------------------------------------------------------------
\* owned, for a context of this Store.
LEMMA OwnIsSound ==
    ASSUME NEW c, NEW owner, NEW ctx, NEW held, Sound(c), ctx.store = c.ctx.store
    PROVE  /\ Sound(Own(c, owner, ctx, held))
           /\ \A k \in Fields \ {"flights"} : Own(c, owner, ctx, held)[k] = c[k]
<1> DEFINE f == [kind |-> "Owned", ctx |-> ctx, owner |-> owner, held |-> held]
<1>1. Belongs(f, c.ctx.store) /\ ~IsDelta(f)
  BY DEF Belongs, IsDelta
<1>2. Own(c, owner, ctx, held) \in {c, Effect(c, f)}
  BY DEF Own
<1> HIDE DEF f
<1>3. /\ Sound(Effect(c, f))
      /\ \A k \in Fields \ {"flights"} : Effect(c, f)[k] = c[k]
  BY <1>1, EffectIsSound
<1> QED BY <1>2, <1>3

\* A Push names Control's Store.
LEMMA PushIsSound ==
    ASSUME NEW c, NEW b, Sound(c)
    PROVE  Sound(Push(c, b)) /\ Push(c, b).ctx = c.ctx
<1> DEFINE f == [kind |-> "Push", store |-> c.ctx.store, batch |-> b]
<1>1. Belongs(f, c.ctx.store) /\ ~IsDelta(f)
  BY DEF Belongs, IsDelta
<1>2. Push(c, b) = Effect(c, f)
  BY DEF Push
<1> HIDE DEF f
<1>3. Sound(Effect(c, f)) /\ Effect(c, f).ctx = c.ctx
  BY <1>1, EffectIsSound DEF Fields
<1> QED BY <1>2, <1>3

\* A new context of the same Store.
LEMMA NewContextIsSound ==
    ASSUME NEW c, NEW d, Sound(c), DOMAIN d = Fields, Context(d.ctx),
           d.ctx.store = c.ctx.store, d.flights = c.flights, d.waiters = c.waiters,
           d.queue = c.queue, d.jobs = c.jobs
    PROVE  Sound(d)
BY DEF Sound

\* A Snapshot of another incarnation leaves nothing of the old one.
LEMMA OnSnapshotIsSound ==
    ASSUME NEW c, NEW st, Sound(c), Context(st.ctx)
    PROVE  Sound(OnSnapshot(c, st)) /\ OnSnapshot(c, st).ctx = st.ctx
<1> DEFINE s == Stop(c)
           fresh == [s EXCEPT !.queue = EmptyQueue, !.dhead = Zero(st.C), !.ctx = st.ctx]
           d == IF st.ctx.store = c.ctx.store THEN c
                ELSE IF c.connected THEN Connect(fresh) ELSE fresh
           e == [d EXCEPT !.ctx = st.ctx, !.st = st, !.wakeAfterNeeds = TRUE]
<1>1. OnSnapshot(c, st) = Job(e, Cmd("Needs"))
  BY DEF OnSnapshot
<1>2. Sound(s) /\ s.flights = {} /\ s.waiters = <<>> /\ s.jobs = <<>>
  BY StopIsSound
<1> HIDE DEF s
<1>3. /\ DOMAIN fresh = Fields /\ fresh.ctx = st.ctx /\ fresh.queue = EmptyQueue
      /\ fresh.flights = {} /\ fresh.waiters = <<>> /\ fresh.jobs = <<>>
  BY <1>2 DEF Sound, Fields
<1> HIDE DEF fresh
<1>4. QueueOk(EmptyQueue, st.ctx.store)
  BY DEF QueueOk, EmptyQueue
<1>5. FlightsOk({}, st.ctx.store) /\ WaitersOk(<<>>, st.ctx.store) /\ JobsOk(<<>>)
      /\ Single({}, <<>>)
  BY EmptyIsASeq DEF FlightsOk, WaitersOk, JobsOk, Single, NoneFlies, NoneWaits, AtMostOne
<1>6. Sound(fresh)
  BY <1>3, <1>4, <1>5 DEF Sound
<1>7. Sound(Connect(fresh)) /\ Connect(fresh).ctx = fresh.ctx
  BY <1>6, ConnectIsSound
<1>8. Sound(d) /\ d.ctx.store = st.ctx.store
  BY <1>3, <1>6, <1>7
<1> HIDE DEF d
<1>9. /\ DOMAIN e = Fields /\ e.ctx = st.ctx /\ e.flights = d.flights
      /\ e.waiters = d.waiters /\ e.queue = d.queue /\ e.jobs = d.jobs
  BY <1>8 DEF Sound, Fields
<1> HIDE DEF e
<1>10. Sound(e)
  BY <1>8, <1>9, NewContextIsSound
<1>11. Cmd("Needs").kind \in JobKinds
  BY DEF Cmd, JobKinds
<1>12. Sound(Job(e, Cmd("Needs"))) /\ Job(e, Cmd("Needs")).ctx = e.ctx
  BY <1>10, <1>11, JobIsSound DEF Fields
<1> QED BY <1>1, <1>9, <1>12


\* Needs: what is asked for belongs to Control's Store.
LEMMA OnNeedsIsSound ==
    ASSUME NEW c, NEW r, Sound(c)
    PROVE  Sound(OnNeeds(c, r))
<1> DEFINE Pending(ctx, owner) ==
            \/ owner = SchemaOwner /\ r.schema /\ ctx.store = c.ctx.store /\ ctx.mat = r.desired
            \/ owner = SettlementOwner(r.owed) /\ r.owed # 0 /\ ctx = c.ctx
           Unowned(f) == f.kind = "Owned" /\ ~Pending(f.ctx, f.owner)
           Kept(id, p) == Ordinary(p) \/ Pending(p.ctx, p.owner)
           F == {x \in c.flights : ~Unowned(x.f)}
           K == {id \in DOMAIN c.queue : Kept(id, c.queue[id])}
           W == {i \in DOMAIN c.waiters : ~Unowned(c.waiters[i])}
           c1 == [Keep(Drop(c, Unowned), Kept) EXCEPT
                     !.waiters = Remaining(@, {i \in DOMAIN @ : ~Unowned(@[i])})]
           desired == [c.ctx EXCEPT !.mat = r.desired]
           c2 == IF r.schema THEN Own(c1, SchemaOwner, desired, r.held) ELSE c1
           c3 == IF r.progressed THEN [c2 EXCEPT !.st = r.st, !.wakeAfterNeeds = TRUE] ELSE c2
           c4 == IF r.missing THEN Own(c3, SettlementOwner(r.owed), c.ctx, r.held) ELSE c3
           c5 == [c4 EXCEPT !.wakeAfterNeeds = FALSE, !.waitingPush = 0]
           c6 == IF c4.waitingPush # 0 THEN Push(c5, c4.waitingPush) ELSE c5
<1>1. OnNeeds(c, r) = IF c4.wakeAfterNeeds THEN Wake(c6) ELSE c6
  BY DEF OnNeeds
<1>2. F \subseteq c.flights /\ K \subseteq DOMAIN c.queue
  OBVIOUS
<1>3. /\ DOMAIN c1 = Fields /\ c1.ctx = c.ctx /\ c1.flights = F /\ c1.jobs = c.jobs
      /\ c1.queue = Restrict(c.queue, K) /\ c1.waiters = Remaining(c.waiters, W)
  BY DEF Sound, Fields, Keep, Drop
<1> HIDE DEF F, K, W, c1
<1>4. DOMAIN c1.queue = K /\ \A id \in K : c1.queue[id] = c.queue[id]
  BY <1>3 DEF Restrict
<1>5. Part(Remaining(c.waiters, W), Len(c.waiters), c.waiters)
  BY RemainingIsPart DEF Sound, WaitersOk
<1>6. Narrows(c1, c)
  BY <1>2, <1>3, <1>4, <1>5 DEF Narrows
<1>7. Sound(c1)
  BY <1>6, NarrowerIsSound
<1>8. desired.store = c.ctx.store
  BY DEF Sound, Context
<1> HIDE DEF desired
<1>9. Sound(c2) /\ c2.ctx = c.ctx
  <2>1. /\ Sound(Own(c1, SchemaOwner, desired, r.held))
        /\ Own(c1, SchemaOwner, desired, r.held).ctx = c1.ctx
    BY <1>3, <1>7, <1>8, OwnIsSound DEF Fields
  <2> QED BY <2>1, <1>3, <1>7
<1> HIDE DEF c2
<1>10. SameWork(c3, c2)
  BY <1>9 DEF SameWork, Sound, Fields
<1>11. Sound(c3) /\ c3.ctx = c.ctx
  BY <1>9, <1>10, SameWorkIsSound DEF SameWork
<1> HIDE DEF c3
<1>12. Sound(c4) /\ c4.ctx = c.ctx
  <2> DEFINE o == SettlementOwner(r.owed)
  <2> HIDE DEF o
  <2>1. Sound(Own(c3, o, c.ctx, r.held)) /\ Own(c3, o, c.ctx, r.held).ctx = c3.ctx
    BY <1>11, OwnIsSound DEF Fields
  <2> QED BY <2>1, <1>11 DEF o
<1> HIDE DEF c4
<1>13. SameWork(c5, c4)
  BY <1>12 DEF SameWork, Sound, Fields
<1>14. Sound(c5)
  BY <1>12, <1>13, SameWorkIsSound
<1> HIDE DEF c5
<1>15. Sound(c6)
  BY <1>14, PushIsSound
<1> HIDE DEF c6
<1> QED BY <1>1, <1>15, WakeIsSound

\* Frozen
LEMMA OnFrozenIsSound ==
    ASSUME NEW c, NEW b, Sound(c)
    PROVE  Sound(OnFrozen(c, b))
<1> DEFINE d == [c EXCEPT !.freezing = FALSE]
           e == [d EXCEPT !.waitingPush = b]
<1>1. OnFrozen(c, b) \in {d, e, Push(d, b)}
  BY DEF OnFrozen
<1>2. SameWork(d, c) /\ SameWork(e, c)
  BY DEF SameWork, Sound, Fields
<1>3. Sound(d) /\ Sound(e)
  BY <1>2, SameWorkIsSound
<1> HIDE DEF d, e
<1> QED BY <1>1, <1>3, PushIsSound

\* Plans are dropped from the queue.
LEMMA FewerPlansIsSound ==
    ASSUME NEW c, NEW d, Sound(c), NEW K, K \subseteq DOMAIN c.queue, DOMAIN d = Fields,
           d.ctx = c.ctx, d.flights = c.flights, d.waiters = c.waiters, d.jobs = c.jobs,
           d.queue = Restrict(c.queue, K)
    PROVE  Sound(d)
<1>1. DOMAIN d.queue = K /\ \A id \in K : d.queue[id] = c.queue[id]
  BY DEF Restrict
<1>2. Part(d.waiters, Len(c.waiters), c.waiters)
  BY WholePart DEF Sound, WaitersOk
<1>3. Narrows(d, c)
  BY <1>1, <1>2 DEF Narrows
<1> QED BY <1>3, NarrowerIsSound

\* ActivePlans
LEMMA OnActiveIsSound ==
    ASSUME NEW c, NEW active, Sound(c)
    PROVE  Sound(OnActive(c, active)) /\ OnActive(c, active).ctx = c.ctx
<1> DEFINE K == {id \in DOMAIN c.queue : c.queue[id].next = 0 \/ id \in active}
           d == OnActive(c, active)
<1>1. /\ d.queue = Restrict(c.queue, K) /\ DOMAIN d = Fields /\ d.ctx = c.ctx
      /\ d.flights = c.flights /\ d.waiters = c.waiters /\ d.jobs = c.jobs
  BY DEF OnActive, Keep, Sound, Fields
<1>2. K \subseteq DOMAIN c.queue
  OBVIOUS
<1> HIDE DEF K, d
<1> QED BY <1>1, <1>2, FewerPlansIsSound DEF d

\* Committed, of the same Store: only its context may have changed.
LEMMA OnCommittedIsSound ==
    ASSUME NEW c, NEW r, Sound(c), Context(r.st.ctx), r.st.ctx.store = c.ctx.store
    PROVE  Sound(OnCommitted(c, r))
<1> DEFINE Foreign(f) == f.kind \in {"Delta", "Owned"} /\ f.ctx # r.st.ctx
           Kept(id, p) == p.ctx = r.st.ctx
           F == {x \in c.flights : ~Foreign(x.f)}
           K == {id \in DOMAIN c.queue : Kept(id, c.queue[id])}
           k1 == Keep(Drop(c, Foreign), Kept)
           c1 == IF r.st.ctx = c.ctx THEN c ELSE k1
           c2 == IF r.id = 0 THEN c1 ELSE OnActive(c1, r.active)
           e2 == [c2 EXCEPT !.ctx = r.st.ctx, !.st = r.st, !.wakeAfterNeeds = TRUE]
           c3 == Job(e2, Cmd("Needs"))
           c4 == IF r.id = 0 THEN c3 ELSE [c3 EXCEPT !.applying = 0]
           c5 == [c4 EXCEPT !.queue[r.id].next = r.next,
                            !.queue[r.id].have = {u \in @ : u >= r.next}]
           Left(id, p) == id # r.id \/ r.next < Units(p)
           L == {id \in DOMAIN c5.queue : Left(id, c5.queue[id])}
           c6 == Keep(c5, Left)
<1>1. OnCommitted(c, r) = IF r.id \in DOMAIN c4.queue THEN c6 ELSE c4
  BY DEF OnCommitted
<1>2. F \subseteq c.flights /\ K \subseteq DOMAIN c.queue
  OBVIOUS
<1>3. Sound(c1) /\ c1.ctx = c.ctx
  <2>1. /\ DOMAIN k1 = Fields /\ k1.ctx = c.ctx /\ k1.flights = F
        /\ k1.waiters = c.waiters /\ k1.jobs = c.jobs /\ k1.queue = Restrict(c.queue, K)
    BY DEF Sound, Fields, Keep, Drop
  <2> HIDE DEF k1, F, K
  <2>2. DOMAIN k1.queue = K /\ \A id \in K : k1.queue[id] = c.queue[id]
    BY <2>1 DEF Restrict
  <2>3. Part(k1.waiters, Len(c.waiters), c.waiters)
    BY <2>1, WholePart DEF Sound, WaitersOk
  <2>4. Narrows(k1, c)
    BY <1>2, <2>1, <2>2, <2>3 DEF Narrows
  <2> QED BY <2>1, <2>4, NarrowerIsSound
<1> HIDE DEF c1
<1>4. Sound(c2) /\ c2.ctx = c.ctx
  BY <1>3, OnActiveIsSound
<1> HIDE DEF c2
<1>5. /\ DOMAIN e2 = Fields /\ e2.ctx = r.st.ctx /\ e2.flights = c2.flights
      /\ e2.waiters = c2.waiters /\ e2.queue = c2.queue /\ e2.jobs = c2.jobs
  BY <1>4 DEF Sound, Fields
<1> HIDE DEF e2
<1>6. Sound(e2)
  BY <1>4, <1>5, NewContextIsSound
<1>7. Cmd("Needs").kind \in JobKinds
  BY DEF Cmd, JobKinds
<1>8. Sound(c3)
  BY <1>6, <1>7, JobIsSound
<1> HIDE DEF c3
<1>9. SameWork(c4, c3)
  BY <1>8 DEF SameWork, Sound, Fields
<1>10. Sound(c4)
  BY <1>8, <1>9, SameWorkIsSound
<1> HIDE DEF c4
<1>11. ASSUME r.id \in DOMAIN c4.queue
       PROVE  Sound(c6)
  <2> DEFINE q == c4.queue
             p == [[q[r.id] EXCEPT !.next = r.next] EXCEPT !.have = {u \in @ : u >= r.next}]
  <2>1. "ctx" \in DOMAIN q[r.id]
    BY <1>10, <1>11 DEF Sound, QueueOk
  <2>2. DOMAIN p = DOMAIN q[r.id] /\ p.ctx = q[r.id].ctx
    BY <2>1
  <2>3. /\ DOMAIN c5 = Fields /\ c5.ctx = c4.ctx /\ c5.flights = c4.flights
        /\ c5.waiters = c4.waiters /\ c5.jobs = c4.jobs
    BY <1>10 DEF Sound, Fields
  <2>4. c5.queue = [q EXCEPT ![r.id] = p]
    BY <1>10, <1>11 DEF Sound, Fields
  <2> HIDE DEF p, c5
  <2>5. DOMAIN c5.queue = DOMAIN q
    BY <2>4
  <2>6. \A id \in DOMAIN q : c5.queue[id] = IF id = r.id THEN p ELSE q[id]
    BY <2>4
  <2>7. Part(c5.waiters, Len(c4.waiters), c4.waiters)
    BY <2>3, <1>10, WholePart DEF Sound, WaitersOk
  <2>8. Narrows(c5, c4)
    BY <2>2, <2>3, <2>5, <2>6, <2>7 DEF Narrows
  <2>9. Sound(c5)
    BY <2>8, <1>10, NarrowerIsSound
  <2>10. L \subseteq DOMAIN c5.queue
    OBVIOUS
  <2>11. /\ DOMAIN c6 = Fields /\ c6.ctx = c5.ctx /\ c6.flights = c5.flights
         /\ c6.waiters = c5.waiters /\ c6.jobs = c5.jobs /\ c6.queue = Restrict(c5.queue, L)
    BY <2>9 DEF Sound, Fields, Keep
  <2> HIDE DEF c6, L
  <2> QED BY <2>9, <2>10, <2>11, FewerPlansIsSound
<1> QED BY <1>1, <1>10, <1>11

\* A failed job.
LEMMA OnFailedIsSound ==
    ASSUME NEW c, Sound(c)
    PROVE  Sound(OnFailed(c))
<1> DEFINE d == RetirePrefetch(c)
           id == d.applying
           b == [d EXCEPT !.queue[id].blocked = TRUE]
           K == DOMAIN d.queue \ {id}
           g == [d EXCEPT !.queue = Restrict(@, K)]
           e == IF id \notin DOMAIN d.queue THEN d
                ELSE IF Ordinary(d.queue[id]) THEN b
                ELSE Job(g, Cmd("Needs"))
           f == [e EXCEPT !.applying = 0, !.freezing = FALSE]
<1>1. OnFailed(c) = Retry(f)
  BY DEF OnFailed
<1>2. Sound(d)
  BY RetirePrefetchIsSound
<1> HIDE DEF d, id
<1>3. ASSUME id \in DOMAIN d.queue PROVE Sound(b)
  <2> DEFINE q == d.queue
             p == [q[id] EXCEPT !.blocked = TRUE]
  <2>1. "ctx" \in DOMAIN q[id]
    BY <1>2, <1>3 DEF Sound, QueueOk
  <2>2. DOMAIN p = DOMAIN q[id] /\ p.ctx = q[id].ctx
    BY <2>1
  <2>3. /\ DOMAIN b = Fields /\ b.ctx = d.ctx /\ b.flights = d.flights
        /\ b.waiters = d.waiters /\ b.jobs = d.jobs
    BY <1>2 DEF Sound, Fields
  <2>4. b.queue = [q EXCEPT ![id] = p]
    BY <1>2, <1>3 DEF Sound, Fields
  <2> HIDE DEF p, b
  <2>5. DOMAIN b.queue = DOMAIN q
    BY <2>4
  <2>6. \A i \in DOMAIN q : b.queue[i] = IF i = id THEN p ELSE q[i]
    BY <2>4
  <2>7. Part(b.waiters, Len(d.waiters), d.waiters)
    BY <2>3, <1>2, WholePart DEF Sound, WaitersOk
  <2>8. Narrows(b, d)
    BY <2>2, <2>3, <2>5, <2>6, <2>7 DEF Narrows
  <2> QED BY <2>8, <1>2, NarrowerIsSound
<1>4. Sound(g)
  <2>1. K \subseteq DOMAIN d.queue
    OBVIOUS
  <2> HIDE DEF K
  <2>2. /\ DOMAIN g = Fields /\ g.ctx = d.ctx /\ g.flights = d.flights
        /\ g.waiters = d.waiters /\ g.jobs = d.jobs /\ g.queue = Restrict(d.queue, K)
    BY <1>2 DEF Sound, Fields
  <2> HIDE DEF g
  <2> QED BY <1>2, <2>1, <2>2, FewerPlansIsSound
<1> HIDE DEF b, g, K
<1>5. Cmd("Needs").kind \in JobKinds
  BY DEF Cmd, JobKinds
<1>6. Sound(Job(g, Cmd("Needs")))
  BY <1>4, <1>5, JobIsSound
<1>7. Sound(e)
  BY <1>2, <1>3, <1>6
<1> HIDE DEF e
<1>8. SameWork(f, e)
  BY <1>7 DEF SameWork, Sound, Fields
<1>9. Sound(f)
  BY <1>7, <1>8, SameWorkIsSound
<1> HIDE DEF f
<1> QED BY <1>1, <1>9, RetryIsSound


\* The recursive function in Resent exists.
LEMMA ResentIsDefined ==
    ASSUME NEW c, NEW waiting, IsSequence(waiting)
    PROVE  \E after :
             /\ after = [n \in 0..Len(waiting) |->
                           IF n = 0 THEN c ELSE Resend(after[n - 1], waiting[n])]
             /\ Resent(c, waiting) = after[Len(waiting)]
<1> DEFINE Step(g, n) == IF n = 0 THEN c ELSE Resend(g[n - 1], waiting[n])
           Fits(g, N) == g = [n \in 0..N |-> Step(g, n)]
           Bad == {N \in Nat : ~\E g : Fits(g, N)}
<1>1. Len(waiting) \in Nat
  BY IsASeqFacts
<1>2. Bad = {}
  <2> SUFFICES ASSUME Bad # {} PROVE FALSE
    OBVIOUS
  <2>1. PICK m \in Bad : \A k \in Bad : m <= k
    <3>1. Bad \subseteq Nat
      OBVIOUS
    <3> HIDE DEF Bad
    <3> QED BY <3>1, LeastNatural
  <2>2. m # 0
    <3>1. Fits([n \in 0..0 |-> c], 0)
      OBVIOUS
    <3> HIDE DEF Fits
    <3> QED BY <3>1, <2>1
  <2>3. m \in Nat /\ m - 1 \in Nat /\ m - 1 \notin Bad
    <3>1. m \in Nat
      OBVIOUS
    <3> HIDE DEF Bad
    <3> QED BY <3>1, <2>1, <2>2
  <2>4. PICK g : Fits(g, m - 1)
    <3> HIDE DEF Fits
    <3> QED BY <2>3
  <2> DEFINE h == [n \in 0..m |-> IF n = m THEN Step(g, m) ELSE g[n]]
  <2>5. ASSUME NEW n \in 0..m PROVE h[n] = Step(h, n)
    <3>1. CASE n = m
      BY <3>1, <2>2, <2>3
    <3>2. CASE n # m
      <4>1. n \in 0..(m - 1) /\ h[n] = g[n]
        BY <3>2, <2>3
      <4>2. g[n] = Step(g, n)
        BY <4>1, <2>4
      <4>3. n = 0 \/ (n - 1 \in 0..m /\ n - 1 # m)
        BY <4>1, <2>3
      <4>4. n = 0 \/ h[n - 1] = g[n - 1]
        BY <4>3
      <4> QED BY <4>1, <4>2, <4>4
    <3> QED BY <3>1, <3>2
  <2>6. Fits(h, m)
    BY <2>5
  <2> HIDE DEF Fits
  <2> QED BY <2>6, <2>1
<1>3. \E g : Fits(g, Len(waiting))
  <2> HIDE DEF Fits
  <2> QED BY <1>1, <1>2
<1> DEFINE after == CHOOSE g : Fits(g, Len(waiting))
<1>4. Fits(after, Len(waiting))
  <2> HIDE DEF Fits
  <2> QED BY <1>3
<1>5. Resent(c, waiting) = after[Len(waiting)]
  BY DEF Resent
<1> QED BY <1>4, <1>5

\* Control after n waiters have been sent again.
Sending(d, n, c, waiting) ==
    /\ Sound(d)
    /\ d.ctx = c.ctx
    /\ NoneWaits(d.waiters)
    /\ NoneFlies(d.flights) \/ ~NoneFlies(c.flights)
         \/ \E i \in 1..n : IsDelta(waiting[i])

\* One waiter is sent again: its cursor request, if it is one, is the only one.
LEMMA ResendIsSound ==
    ASSUME NEW c, NEW waiting, NEW d, NEW n,
           WaitersOk(waiting, c.ctx.store), Single(c.flights, waiting),
           n \in 1..Len(waiting), Sending(d, n - 1, c, waiting)
    PROVE  Sending(Resend(d, waiting[n]), n, c, waiting)
<1> DEFINE f == waiting[n]
<1>1. IsSequence(waiting) /\ Len(waiting) \in Nat /\ DOMAIN waiting = 1..Len(waiting)
  BY IsASeqFacts DEF WaitersOk
<1>2. Sound(d) /\ d.ctx = c.ctx /\ NoneWaits(d.waiters)
  BY DEF Sending
<1>3. CASE f.kind = "Socket"
  <2>1. Resend(d, f) = Handshake(d)
    BY <1>3 DEF Resend
  <2>2. /\ Sound(Handshake(d)) /\ Handshake(d).ctx = d.ctx
        /\ NoneFlies(Handshake(d).flights) /\ NoneWaits(Handshake(d).waiters)
    BY <1>2, HandshakeIsSound
  <2> QED BY <2>1, <2>2, <1>2 DEF Sending
<1>4. CASE f.kind # "Socket"
  <2>1. Resend(d, f) = Effect(d, f)
    BY <1>4 DEF Resend
  <2>2. Belongs(f, d.ctx.store)
    BY <1>1, <1>2 DEF WaitersOk
  <2>3. IsDelta(f) => NoneFlies(d.flights)
    <3> SUFFICES ASSUME IsDelta(f), ~NoneFlies(d.flights) PROVE FALSE
      OBVIOUS
    <3>1. ~NoneWaits(waiting)
      BY <1>1 DEF NoneWaits
    <3>2. NoneFlies(c.flights)
      BY <3>1 DEF Single
    <3>3. PICK i \in 1..(n - 1) : IsDelta(waiting[i])
      BY <3>2 DEF Sending
    <3>4. i \in DOMAIN waiting /\ n \in DOMAIN waiting /\ i # n
      BY <1>1, <3>3
    <3> QED BY <3>3, <3>4 DEF Single, AtMostOne
  <2>4. /\ Sound(Effect(d, f))
        /\ \A k \in Fields \ {"flights"} : Effect(d, f)[k] = d[k]
    BY <1>2, <2>2, <2>3, EffectIsSound
  <2>5. PICK m : /\ Effect(d, f).flights = d.flights \cup {[f |-> f, n |-> m]}
                 /\ DOMAIN Effect(d, f) = Fields
                 /\ \A k \in Fields \ {"flights"} : Effect(d, f)[k] = d[k]
    <3>1. DOMAIN d = Fields
      BY <1>2 DEF Sound
    <3> HIDE DEF f
    <3> QED BY <3>1, EffectAdds, Zenon
  <2> DEFINE e == Effect(d, f)
             y == [f |-> f, n |-> m]
  <2>6. y.f = f
    OBVIOUS
  <2>7. e.flights = d.flights \cup {y} /\ e.ctx = d.ctx /\ e.waiters = d.waiters
    BY <2>4, <2>5 DEF Fields
  <2> HIDE DEF y, e
  <2>8. \/ NoneFlies(e.flights) \/ ~NoneFlies(c.flights)
        \/ \E i \in 1..n : IsDelta(waiting[i])
    <3>1. CASE IsDelta(f)
      <4>1. n \in 1..n
        BY <1>1
      <4> QED BY <3>1, <4>1
    <3>2. CASE ~IsDelta(f)
      <4>1. NoneFlies(d.flights) => NoneFlies(e.flights)
        BY <3>2, <2>6, <2>7 DEF NoneFlies
      <4>2. (\E i \in 1..(n - 1) : IsDelta(waiting[i])) => \E i \in 1..n : IsDelta(waiting[i])
        BY <1>1
      <4> QED BY <4>1, <4>2 DEF Sending
    <3> QED BY <3>1, <3>2
  <2> QED BY <2>1, <2>4, <2>7, <2>8, <1>2 DEF Sending, e
<1> QED BY <1>3, <1>4

\* All waiters are sent again, a handshake among them cancelling those before it.
LEMMA ResentIsSound ==
    ASSUME NEW c, NEW waiting, Sound(c), NoneWaits(c.waiters),
           WaitersOk(waiting, c.ctx.store), Single(c.flights, waiting)
    PROVE  Sound(Resent(c, waiting))
<1>1. IsSequence(waiting) /\ Len(waiting) \in Nat
  BY IsASeqFacts DEF WaitersOk
<1>2. PICK after :
             /\ after = [n \in 0..Len(waiting) |->
                           IF n = 0 THEN c ELSE Resend(after[n - 1], waiting[n])]
             /\ Resent(c, waiting) = after[Len(waiting)]
  BY <1>1, ResentIsDefined
<1> DEFINE Bad == {n \in 0..Len(waiting) : ~Sending(after[n], n, c, waiting)}
<1>3. Bad = {}
  <2> SUFFICES ASSUME Bad # {} PROVE FALSE
    OBVIOUS
  <2>1. PICK m \in Bad : \A k \in Bad : m <= k
    <3>1. Bad \subseteq Nat
      BY <1>1
    <3> HIDE DEF Bad
    <3> QED BY <3>1, LeastNatural
  <2>2. CASE m = 0
    <3>1. after[0] = c
      BY <1>1, <1>2
    <3>2. Sending(c, 0, c, waiting)
      BY DEF Sending
    <3> QED BY <2>1, <2>2, <3>1, <3>2
  <2>3. CASE m # 0
    <3>1. m \in 1..Len(waiting) /\ m - 1 \in 0..Len(waiting) /\ m - 1 \notin Bad
      BY <2>1, <2>3, <1>1
    <3>2. Sending(after[m - 1], m - 1, c, waiting)
      BY <3>1
    <3>3. after[m] = Resend(after[m - 1], waiting[m])
      <4>1. m \in 0..Len(waiting)
        BY <3>1
      <4> HIDE DEF Bad
      <4> QED BY <1>2, <4>1, <2>3
    <3>4. Sending(after[m], m, c, waiting)
      BY <3>1, <3>2, <3>3, ResendIsSound
    <3> QED BY <3>4, <2>1
  <2> QED BY <2>2, <2>3
<1>4. Sending(after[Len(waiting)], Len(waiting), c, waiting)
  BY <1>1, <1>3
<1> QED BY <1>2, <1>4 DEF Sending


----------------------------------------------------------------------------
\* The mailboxes, the Store, and the invariant.
ReportKinds == {"Snapshot", "Needs", "Frozen", "ActivePlans", "Committed", "Failed"}
LetterOk(l) == DOMAIN l = {"old", "ctx", "cmd"} /\ l.cmd.kind \in JobKinds
ReportOk(r) ==
    /\ DOMAIN r = {"guarded", "old", "ctx", "rep"}
    /\ r.rep.kind \in ReportKinds
    /\ r.rep.kind \in {"Snapshot", "Committed"} => Context(r.rep.st.ctx)
    /\ r.rep.kind = "Committed" => r.guarded /\ r.rep.st.ctx.store = r.ctx.store
MailOk(q) == IsSequence(q) /\ \A i \in DOMAIN q : LetterOk(q[i])
ReportsOk(q) == IsSequence(q) /\ \A i \in DOMAIN q : ReportOk(q[i])
StoreFields == {"ctx", "desired", "S", "B", "C", "progress", "unsent", "batch", "stage",
                "sync", "need", "evidence"}
StoreOk(s) == DOMAIN s = StoreFields /\ Context(s.ctx)

ControlInv == Sound(ctl) /\ MailOk(mail) /\ ReportsOk(reports) /\ StoreOk(store)

\* Every report that Control accepts leaves it sound.
LEMMA OnReportIsSound ==
    ASSUME NEW c, NEW r, Sound(c), ReportOk(r), ~r.guarded \/ r.ctx = c.ctx
    PROVE  Sound(OnReport(c, r.rep))
<1>1. CASE r.rep.kind = "Snapshot"
  <2>1. OnReport(c, r.rep) = Schedule(OnSnapshot(c, r.rep.st))
    BY <1>1 DEF OnReport
  <2>2. Sound(OnSnapshot(c, r.rep.st))
    BY <1>1, OnSnapshotIsSound DEF ReportOk
  <2> QED BY <2>1, <2>2, ScheduleIsSound
<1>2. CASE r.rep.kind = "Needs"
  <2>1. OnReport(c, r.rep) = Schedule(OnNeeds(c, r.rep))
    BY <1>2 DEF OnReport
  <2> QED BY <2>1, OnNeedsIsSound, ScheduleIsSound
<1>3. CASE r.rep.kind = "Frozen"
  <2>1. OnReport(c, r.rep) = Schedule(OnFrozen(c, r.rep.batch))
    BY <1>3 DEF OnReport
  <2> QED BY <2>1, OnFrozenIsSound, ScheduleIsSound
<1>4. CASE r.rep.kind = "ActivePlans"
  <2>1. OnReport(c, r.rep) = Schedule(OnActive(c, r.rep.active))
    BY <1>4 DEF OnReport
  <2> QED BY <2>1, OnActiveIsSound, ScheduleIsSound
<1>5. CASE r.rep.kind = "Committed"
  <2>1. OnReport(c, r.rep) = Schedule(OnCommitted(c, r.rep))
    BY <1>5 DEF OnReport
  <2>2. Context(r.rep.st.ctx) /\ r.rep.st.ctx.store = c.ctx.store
    BY <1>5 DEF ReportOk
  <2> QED BY <2>1, <2>2, OnCommittedIsSound, ScheduleIsSound
<1>6. CASE r.rep.kind = "Failed"
  <2>1. OnReport(c, r.rep) = OnFailed(c)
    BY <1>6 DEF OnReport
  <2> QED BY <2>1, OnFailedIsSound
<1> QED BY <1>1, <1>2, <1>3, <1>4, <1>5, <1>6 DEF ReportOk, ReportKinds

\* Two parts of the worker's mailbox.
LEMMA ConcatIsMail ==
    ASSUME NEW s, NEW t, MailOk(s), MailOk(t)
    PROVE  MailOk(s \o t)
<1>1. IsSequence(s) /\ IsSequence(t)
  BY DEF MailOk
<1>2. /\ IsSequence(s \o t)
      /\ DOMAIN (s \o t) = 1..(Len(s) + Len(t))
      /\ \A i \in 1..Len(s) : (s \o t)[i] = s[i]
      /\ \A i \in 1..Len(t) : (s \o t)[Len(s) + i] = t[i]
  BY <1>1, ConcatIsASeq
<1>3. Len(s) \in Nat /\ Len(t) \in Nat /\ DOMAIN s = 1..Len(s) /\ DOMAIN t = 1..Len(t)
  BY <1>1, IsASeqFacts
<1>4. ASSUME NEW i \in DOMAIN (s \o t) PROVE LetterOk((s \o t)[i])
  <2>1. i \in 1..(Len(s) + Len(t))
    BY <1>2
  <2>2. CASE i <= Len(s)
    <3>1. i \in 1..Len(s)
      BY <2>1, <2>2, <1>3
    <3>2. (s \o t)[i] = s[i] /\ LetterOk(s[i])
      BY <3>1, <1>2, <1>3 DEF MailOk
    <3> QED BY <3>2
  <2>3. CASE i > Len(s)
    <3>1. i - Len(s) \in 1..Len(t) /\ Len(s) + (i - Len(s)) = i
      BY <2>1, <2>3, <1>3
    <3>2. (s \o t)[Len(s) + (i - Len(s))] = t[i - Len(s)] /\ LetterOk(t[i - Len(s)])
      BY <3>1, <1>2, <1>3 DEF MailOk
    <3> QED BY <3>1, <3>2
  <2> QED BY <2>1, <2>2, <2>3, <1>3
<1> QED BY <1>2, <1>4 DEF MailOk

\* The end of a turn: jobs are sent and the fences aged.
LEMMA TurnKeeps ==
    ASSUME NEW c, NEW rest, Sound(c), MailOk(mail), ReportsOk(rest), Turn(c, rest)
    PROVE  Sound(ctl') /\ MailOk(mail') /\ ReportsOk(reports')
<1> DEFINE aged == [i \in DOMAIN mail |-> [mail[i] EXCEPT !.old = @ \/ c.newEpoch]]
           told == [i \in DOMAIN rest |-> [rest[i] EXCEPT !.old = @ \/ c.newEpoch]]
           sent == [i \in DOMAIN c.jobs |-> [old |-> FALSE, ctx |-> c.ctx, cmd |-> c.jobs[i]]]
<1>1. /\ ctl' = [c EXCEPT !.jobs = <<>>, !.newEpoch = FALSE]
      /\ mail' = aged \o sent
      /\ reports' = told
  BY DEF Turn
<1>2. Sound(ctl')
  <2>1. /\ DOMAIN ctl' = Fields /\ ctl'.ctx = c.ctx /\ ctl'.flights = c.flights
        /\ ctl'.waiters = c.waiters /\ ctl'.queue = c.queue /\ ctl'.jobs = <<>>
    BY <1>1 DEF Sound, Fields
  <2>2. JobsOk(<<>>)
    BY EmptyIsASeq DEF JobsOk
  <2> QED BY <2>1, <2>2 DEF Sound
<1>3. IsSequence(aged) /\ \A i \in DOMAIN aged : LetterOk(aged[i])
  <2>1. IsSequence(mail) /\ \A i \in DOMAIN mail : LetterOk(mail[i])
    BY DEF MailOk
  <2>2. ASSUME NEW i \in DOMAIN mail
        PROVE  LetterOk([mail[i] EXCEPT !.old = @ \/ c.newEpoch])
    <3>1. LetterOk(mail[i])
      BY <2>1
    <3> QED BY <3>1 DEF LetterOk
  <2>3. IsSequence(aged)
    BY <2>1, MapIsASeq
  <2> QED BY <2>2, <2>3
<1>4. IsSequence(sent) /\ \A i \in DOMAIN sent : LetterOk(sent[i])
  <2>1. IsSequence(c.jobs) /\ \A i \in DOMAIN c.jobs : c.jobs[i].kind \in JobKinds
    BY DEF Sound, JobsOk
  <2>2. ASSUME NEW i \in DOMAIN c.jobs
        PROVE  LetterOk([old |-> FALSE, ctx |-> c.ctx, cmd |-> c.jobs[i]])
    BY <2>1 DEF LetterOk
  <2>3. IsSequence(sent)
    BY <2>1, MapIsASeq
  <2> QED BY <2>2, <2>3
<1>5. ReportsOk(told)
  <2>1. IsSequence(rest) /\ \A i \in DOMAIN rest : ReportOk(rest[i])
    BY DEF ReportsOk
  <2>2. ASSUME NEW i \in DOMAIN rest
        PROVE  ReportOk([rest[i] EXCEPT !.old = @ \/ c.newEpoch])
    <3>1. ReportOk(rest[i])
      BY <2>1
    <3> QED BY <3>1 DEF ReportOk
  <2>3. IsSequence(told)
    BY <2>1, MapIsASeq
  <2> QED BY <2>2, <2>3 DEF ReportsOk
<1> HIDE DEF aged, sent, told
<1>6. MailOk(aged) /\ MailOk(sent)
  BY <1>3, <1>4 DEF MailOk
<1>7. MailOk(aged \o sent)
  BY <1>6, ConcatIsMail
<1> QED BY <1>1, <1>2, <1>5, <1>7

\* A network turn that leaves Control sound keeps the invariant.
LEMMA NetTurnKeeps ==
    ASSUME ControlInv, NEW c, Sound(c), NetTurn(c)
    PROVE  ControlInv'
<1>1. Turn(c, reports) /\ store' = store
  BY DEF NetTurn
<1>2. Sound(ctl') /\ MailOk(mail') /\ ReportsOk(reports')
  BY <1>1, TurnKeeps DEF ControlInv
<1> QED BY <1>1, <1>2 DEF ControlInv

\* One step per action.  A report is heard.
LEMMA HearReportKeeps ==
    ASSUME ControlInv, HearReport
    PROVE  ControlInv'
<1> DEFINE r == Head(reports)
           c == IF Accepted(r) THEN OnReport(ctl, r.rep) ELSE ctl
<1>1. reports # <<>> /\ Turn(c, Tail(reports)) /\ store' = store
  BY DEF HearReport
<1>2. ReportOk(r) /\ ReportsOk(Tail(reports))
  BY <1>1, TailIsASeq DEF ControlInv, ReportsOk
<1> HIDE DEF r
<1>3. Sound(c)
  BY <1>2, OnReportIsSound DEF ControlInv, Accepted
<1> HIDE DEF c
<1>4. Sound(ctl') /\ MailOk(mail') /\ ReportsOk(reports')
  BY <1>1, <1>2, <1>3, TurnKeeps DEF ControlInv
<1> QED BY <1>1, <1>4 DEF ControlInv

\* The flight whose effect was answered is gone.
LEMMA LandedIsSound ==
    ASSUME NEW x, Sound(ctl)
    PROVE  /\ Sound(Landed(x))
           /\ Landed(x).flights = ctl.flights \ {x}
           /\ DOMAIN Landed(x) = Fields
           /\ \A k \in Fields \ {"flights"} : Landed(x)[k] = ctl[k]
<1> DEFINE d == Landed(x)
<1>1. /\ DOMAIN d = Fields /\ d.flights = ctl.flights \ {x}
      /\ \A k \in Fields \ {"flights"} : d[k] = ctl[k]
  BY DEF Sound, Fields, Landed
<1>2. d.ctx = ctl.ctx /\ d.waiters = ctl.waiters /\ d.queue = ctl.queue /\ d.jobs = ctl.jobs
  BY <1>1 DEF Fields
<1>3. Part(ctl.waiters, Len(ctl.waiters), ctl.waiters)
  BY WholePart DEF Sound, WaitersOk
<1> HIDE DEF d
<1>4. Narrows(d, ctl)
  BY <1>1, <1>2, <1>3 DEF Narrows
<1> QED BY <1>1, <1>4, NarrowerIsSound DEF d


\* connect, stop and wake.
LEMMA HostKeeps ==
    ASSUME ControlInv, HostStep
    PROVE  ControlInv'
<1>1. Sound(ctl)
  BY DEF ControlInv
<1>2. Sound(Connect(ctl)) /\ Sound(Stop(ctl)) /\ Sound(Wake(ctl))
  BY <1>1, ConnectIsSound, StopIsSound, WakeIsSound
<1>3. NetTurn(Connect(ctl)) \/ NetTurn(Stop(ctl)) \/ NetTurn(Wake(ctl))
  BY DEF HostStep, HostConnect, HostReconnect, HostStop, HostWake
<1> QED BY <1>2, <1>3, NetTurnKeeps

\* An effect fails.
LEMMA EffectFailsKeeps ==
    ASSUME ControlInv, NEW x, EffectFails(x)
    PROVE  ControlInv'
<1> DEFINE d == Landed(x)
           e == [d EXCEPT !.refreshing = FALSE, !.waiters = <<>>]
           g == IF x.f.kind = "Refresh" THEN e ELSE d
<1>1. NetTurn(Retry(g))
  BY DEF EffectFails
<1>2. Sound(d)
  BY LandedIsSound DEF ControlInv
<1> HIDE DEF d
<1>3. /\ DOMAIN e = Fields /\ e.ctx = d.ctx /\ e.flights = d.flights /\ e.waiters = <<>>
      /\ e.queue = d.queue /\ e.jobs = d.jobs
  BY <1>2 DEF Sound, Fields
<1> HIDE DEF e
<1>4. /\ WaitersOk(<<>>, d.ctx.store) /\ AtMostOne(<<>>) /\ NoneWaits(<<>>)
  BY EmptyIsASeq DEF WaitersOk, AtMostOne, NoneWaits
<1>5. Sound(e)
  BY <1>2, <1>3, <1>4 DEF Sound, Single
<1>6. Sound(g)
  BY <1>2, <1>5
<1> HIDE DEF g
<1> QED BY <1>1, <1>6, RetryIsSound, NetTurnKeeps

\* A 401 moves the request to the waiters, with the slot it occupies.
LEMMA UnauthorizedKeeps ==
    ASSUME ControlInv, NEW x \in ctl.flights, Unauthorized(x)
    PROVE  ControlInv'
<1> DEFINE d == Landed(x)
           c == [d EXCEPT !.waiters = Append(@, x.f), !.refreshing = TRUE]
<1>1. NetTurn(IF ctl.refreshing THEN c ELSE Effect(c, Plain("Refresh")))
  BY DEF Unauthorized
<1>2. /\ Sound(d) /\ d.flights = ctl.flights \ {x} /\ d.ctx = ctl.ctx
      /\ d.waiters = ctl.waiters
  BY LandedIsSound DEF ControlInv, Fields
<1> HIDE DEF d
<1>3. /\ DOMAIN c = Fields /\ c.ctx = d.ctx /\ c.flights = d.flights
      /\ c.waiters = Append(ctl.waiters, x.f) /\ c.queue = d.queue /\ c.jobs = d.jobs
  BY <1>2 DEF Sound, Fields
<1> HIDE DEF c
<1> DEFINE w == ctl.waiters
           v == Append(w, x.f)
<1>4. /\ IsSequence(w) /\ Len(w) \in Nat /\ DOMAIN w = 1..Len(w)
      /\ \A i \in DOMAIN w : Belongs(w[i], ctl.ctx.store)
      /\ Single(ctl.flights, w)
      /\ Belongs(x.f, ctl.ctx.store)
  BY IsASeqFacts DEF ControlInv, Sound, WaitersOk, FlightsOk
<1>5. /\ IsSequence(v) /\ DOMAIN v = 1..(Len(w) + 1)
      /\ \A i \in 1..Len(w) : v[i] = w[i]
      /\ v[Len(w) + 1] = x.f
  BY <1>4, AppendIsASeq
<1> HIDE DEF w, v
<1>6. WaitersOk(v, ctl.ctx.store)
  BY <1>4, <1>5 DEF WaitersOk
<1>7. Single(d.flights, v)
  <2>1. \A y, z \in d.flights : IsDelta(y.f) /\ IsDelta(z.f) => y = z
    BY <1>2, <1>4 DEF Single
  <2>2. CASE IsDelta(x.f)
    <3>1. NoneFlies(d.flights)
      BY <1>2, <1>4, <2>2 DEF Single, NoneFlies
    <3>2. NoneWaits(w)
      BY <1>4, <2>2 DEF Single, NoneFlies
    <3>3. AtMostOne(v)
      BY <3>2, <1>4, <1>5 DEF AtMostOne, NoneWaits
    <3> QED BY <2>1, <3>1, <3>3 DEF Single
  <2>3. CASE ~IsDelta(x.f)
    <3>1. AtMostOne(v)
      BY <1>4, <1>5, <2>3 DEF Single, AtMostOne
    <3>2. NoneWaits(w) => NoneWaits(v)
      BY <1>4, <1>5, <2>3 DEF NoneWaits
    <3>3. NoneFlies(ctl.flights) => NoneFlies(d.flights)
      BY <1>2 DEF NoneFlies
    <3> QED BY <2>1, <3>1, <3>2, <3>3, <1>4 DEF Single
  <2> QED BY <2>2, <2>3
<1>8. Sound(c)
  BY <1>2, <1>3, <1>6, <1>7 DEF Sound, v, w
<1>9. Plain("Refresh").kind = "Refresh"
  BY DEF Plain
<1>10. Sound(Effect(c, Plain("Refresh")))
  BY <1>8, <1>9, PlainIsSound
<1> QED BY <1>1, <1>8, <1>10, NetTurnKeeps

\* The waiters leave with the slot they occupied.
LEMMA RefreshedKeeps ==
    ASSUME ControlInv, NEW x, Refreshed(x)
    PROVE  ControlInv'
<1> DEFINE d == Landed(x)
           c == [d EXCEPT !.refreshing = FALSE, !.waiters = <<>>]
<1>1. NetTurn(Resent(c, ctl.waiters))
  BY DEF Refreshed
<1>2. /\ Sound(d) /\ d.flights = ctl.flights \ {x} /\ d.ctx = ctl.ctx
      /\ d.waiters = ctl.waiters
  BY LandedIsSound DEF ControlInv, Fields
<1> HIDE DEF d
<1>3. /\ DOMAIN c = Fields /\ c.ctx = d.ctx /\ c.flights = d.flights
      /\ c.waiters = <<>> /\ c.queue = d.queue /\ c.jobs = d.jobs
  BY <1>2 DEF Sound, Fields
<1> HIDE DEF c
<1>4. /\ WaitersOk(<<>>, d.ctx.store) /\ AtMostOne(<<>>) /\ NoneWaits(<<>>)
  BY EmptyIsASeq DEF WaitersOk, AtMostOne, NoneWaits
<1>5. Sound(c)
  BY <1>2, <1>3, <1>4 DEF Sound, Single
<1>6. WaitersOk(ctl.waiters, c.ctx.store) /\ Single(c.flights, ctl.waiters)
  BY <1>2, <1>3 DEF Sound
<1>7. Sound(Resent(c, ctl.waiters))
  BY <1>3, <1>4, <1>5, <1>6, ResentIsSound
<1> QED BY <1>1, <1>7, NetTurnKeeps

\* The back-off is over.
LEMMA RetryFiresKeeps ==
    ASSUME ControlInv, NEW x, RetryFires(x)
    PROVE  ControlInv'
<1> DEFINE d == Landed(x)
           q == [id \in DOMAIN d.queue |-> [d.queue[id] EXCEPT !.blocked = FALSE]]
           c == [d EXCEPT !.queue = q]
<1>1. NetTurn(Handshake(c))
  BY DEF RetryFires
<1>2. Sound(d)
  BY LandedIsSound DEF ControlInv
<1> HIDE DEF d
<1>3. ASSUME NEW id \in DOMAIN d.queue
      PROVE  DOMAIN q[id] = DOMAIN d.queue[id] /\ q[id].ctx = d.queue[id].ctx
  <2>1. "ctx" \in DOMAIN d.queue[id]
    BY <1>2 DEF Sound, QueueOk
  <2>2. q[id] = [d.queue[id] EXCEPT !.blocked = FALSE]
    OBVIOUS
  <2> QED BY <2>1, <2>2
<1>4. DOMAIN q = DOMAIN d.queue
  OBVIOUS
<1> HIDE DEF q
<1>5. /\ DOMAIN c = Fields /\ c.ctx = d.ctx /\ c.flights = d.flights
      /\ c.waiters = d.waiters /\ c.queue = q /\ c.jobs = d.jobs
  BY <1>2 DEF Sound, Fields
<1> HIDE DEF c
<1>6. Part(c.waiters, Len(d.waiters), d.waiters)
  BY <1>2, <1>5, WholePart DEF Sound, WaitersOk
<1>7. Narrows(c, d)
  BY <1>3, <1>4, <1>5, <1>6 DEF Narrows
<1>8. Sound(Handshake(c))
  BY <1>2, <1>7, NarrowerIsSound, HandshakeIsSound
<1> QED BY <1>1, <1>8, NetTurnKeeps

\* The expiry timer.
LEMMA ExpireFiresKeeps ==
    ASSUME ControlInv, NEW x, NEW gone, ExpireFires(x, gone)
    PROVE  ControlInv'
<1> DEFINE cleanup == [kind |-> "Cleanup", gone |-> gone]
           Left(id, p) == id \notin gone
           l == Landed(x)
           c == Job(l, cleanup)
           d == Keep(c, Left)
           K == {id \in DOMAIN c.queue : id \notin gone}
<1>1. NetTurn(Schedule(IF d.queue = c.queue THEN d ELSE Job(d, cleanup)))
  BY DEF ExpireFires
<1>2. Sound(l) /\ cleanup.kind \in JobKinds
  BY LandedIsSound DEF ControlInv, JobKinds
<1> HIDE DEF l, cleanup
<1>3. Sound(c)
  BY <1>2, JobIsSound
<1> HIDE DEF c
<1>4. /\ DOMAIN d = Fields /\ d.ctx = c.ctx /\ d.flights = c.flights
      /\ d.waiters = c.waiters /\ d.jobs = c.jobs /\ d.queue = Restrict(c.queue, K)
  BY <1>3 DEF Keep, Sound, Fields
<1>5. K \subseteq DOMAIN c.queue
  OBVIOUS
<1> HIDE DEF d, K
<1>6. Sound(d)
  BY <1>3, <1>4, <1>5, FewerPlansIsSound
<1>7. Sound(Job(d, cleanup))
  BY <1>2, <1>6, JobIsSound
<1>8. Sound(IF d.queue = c.queue THEN d ELSE Job(d, cleanup))
  BY <1>6, <1>7
<1> QED BY <1>1, <1>8, ScheduleIsSound, NetTurnKeeps


\* A handshake is answered.
LEMMA HandshakeAnsweredKeeps ==
    ASSUME ControlInv, NEW x, NEW h, HandshakeAnswered(x, h)
    PROVE  ControlInv'
<1> DEFINE l == Landed(x)
           c == [l EXCEPT !.dhead = Later(@, h)]
           cmd == [kind |-> "Initialize", head |-> h]
<1>1. NetTurn(Effect(Job(c, cmd), Socket(FALSE)))
  BY DEF HandshakeAnswered
<1>2. Sound(l) /\ cmd.kind \in JobKinds
  BY LandedIsSound DEF ControlInv, JobKinds
<1> HIDE DEF l, cmd
<1>3. SameWork(c, l)
  BY <1>2 DEF SameWork, Sound, Fields
<1>4. Sound(c)
  BY <1>2, <1>3, SameWorkIsSound
<1> HIDE DEF c
<1>5. Sound(Job(c, cmd))
  BY <1>2, <1>4, JobIsSound
<1>6. Socket(FALSE).kind = "Socket"
  BY DEF Socket
<1>7. Sound(Effect(Job(c, cmd), Socket(FALSE)))
  BY <1>5, <1>6, PlainIsSound
<1> QED BY <1>1, <1>7, NetTurnKeeps

\* The socket opens or closes.
LEMMA SocketKeeps ==
    ASSUME ControlInv, NEW x, SocketOpened(x) \/ SocketClosed(x)
    PROVE  ControlInv'
<1> DEFINE l == Landed(x)
<1>1. Sound(l)
  BY LandedIsSound DEF ControlInv
<1>2. CASE SocketOpened(x)
  <2> DEFINE c == [l EXCEPT !.live = TRUE]
  <2>1. NetTurn(Schedule(Effect(c, Socket(TRUE))))
    BY <1>2 DEF SocketOpened
  <2> HIDE DEF l
  <2>2. SameWork(c, l)
    BY <1>1 DEF SameWork, Sound, Fields
  <2>3. Sound(c)
    BY <1>1, <2>2, SameWorkIsSound
  <2> HIDE DEF c
  <2>4. Socket(TRUE).kind = "Socket"
    BY DEF Socket
  <2>5. Sound(Effect(c, Socket(TRUE)))
    BY <2>3, <2>4, PlainIsSound
  <2> QED BY <2>1, <2>5, ScheduleIsSound, NetTurnKeeps
<1>3. CASE SocketClosed(x)
  <2> DEFINE c == [l EXCEPT !.live = FALSE]
             Left(id, p) == ~Ordinary(p) \/ Complete(p)
             d == Keep(c, Left)
             K == {id \in DOMAIN c.queue : Left(id, c.queue[id])}
  <2>1. NetTurn(Retry(Schedule(d)))
    BY <1>3 DEF SocketClosed
  <2> HIDE DEF l
  <2>2. SameWork(c, l)
    BY <1>1 DEF SameWork, Sound, Fields
  <2>3. Sound(c)
    BY <1>1, <2>2, SameWorkIsSound
  <2> HIDE DEF c
  <2>4. /\ DOMAIN d = Fields /\ d.ctx = c.ctx /\ d.flights = c.flights
        /\ d.waiters = c.waiters /\ d.jobs = c.jobs /\ d.queue = Restrict(c.queue, K)
    BY <2>3 DEF Keep, Sound, Fields
  <2>5. K \subseteq DOMAIN c.queue
    OBVIOUS
  <2> HIDE DEF d, K
  <2>6. Sound(d)
    BY <2>3, <2>4, <2>5, FewerPlansIsSound
  <2> QED BY <2>1, <2>6, ScheduleIsSound, RetryIsSound, NetTurnKeeps
<1> QED BY <1>2, <1>3

\* A plan of Control's Store is admitted to the queue, or declined.
LEMMA AdmitIsSound ==
    ASSUME NEW c, NEW id, NEW p, NEW evicted, NEW fits, Sound(c),
           "ctx" \in DOMAIN p, p.ctx.store = c.ctx.store
    PROVE  /\ Sound(Admit(c, id, p, evicted, fits).c)
           /\ Admit(c, id, p, evicted, fits).c.ctx = c.ctx
<1> DEFINE K == DOMAIN c.queue \ evicted
           room == [c EXCEPT !.queue = Restrict(@, K)]
           q == [i \in DOMAIN room.queue \cup {id} |-> IF i = id THEN p ELSE room.queue[i]]
           full == [room EXCEPT !.queue = q]
<1>1. Admit(c, id, p, evicted, fits).c \in {c, room, full}
  BY DEF Admit
<1>2. K \subseteq DOMAIN c.queue
  OBVIOUS
<1> HIDE DEF K
<1>3. /\ DOMAIN room = Fields /\ room.ctx = c.ctx /\ room.flights = c.flights
      /\ room.waiters = c.waiters /\ room.jobs = c.jobs /\ room.queue = Restrict(c.queue, K)
  BY DEF Sound, Fields
<1> HIDE DEF room
<1>4. Sound(room)
  BY <1>2, <1>3, FewerPlansIsSound
<1>5. QueueOk(room.queue, c.ctx.store)
  BY <1>3, <1>4 DEF Sound
<1>6. QueueOk(q, c.ctx.store)
  BY <1>5 DEF QueueOk
<1> HIDE DEF q
<1>7. /\ DOMAIN full = Fields /\ full.ctx = room.ctx /\ full.flights = room.flights
      /\ full.waiters = room.waiters /\ full.jobs = room.jobs /\ full.queue = q
  BY <1>4 DEF Sound, Fields
<1> HIDE DEF full
<1>8. Sound(full)
  BY <1>3, <1>4, <1>6, <1>7 DEF Sound
<1> QED BY <1>1, <1>3, <1>4, <1>7, <1>8

\* A page arrives.
LEMMA DeltaAnsweredKeeps ==
    ASSUME ControlInv, NEW x \in ctl.flights, x.f.kind = "Delta",
           NEW id, NEW through, NEW observed, NEW evicted, NEW fits,
           DeltaAnswered(x, id, through, observed, evicted, fits)
    PROVE  ControlInv'
<1> DEFINE p == WholePage(x.f.boot, x.f.after, through, x.f.ctx)
           l == Landed(x)
           c == [l EXCEPT !.dhead = Later(@, observed)]
           speculative == x.f.boot /\ x.f.after > Zero(ctl.st.B)
           a == Admit(c, id, p, evicted, fits)
           e == [c EXCEPT !.prefetch = FALSE]
<1>1. \/ NetTurn(Retry(l)) \/ NetTurn(Schedule(a.c)) \/ NetTurn(Schedule(e)) \/ NetTurn(Retry(a.c))
  BY DEF DeltaAnswered
<1>2. Sound(l) /\ l.ctx = ctl.ctx
  BY LandedIsSound DEF ControlInv, Fields
<1>3. "ctx" \in DOMAIN p /\ p.ctx = x.f.ctx
  BY DEF WholePage, Page
<1> HIDE DEF l, p
<1>4. SameWork(c, l) /\ SameWork(e, l)
  BY <1>2 DEF SameWork, Sound, Fields
<1>5. Sound(c) /\ Sound(e) /\ c.ctx = ctl.ctx
  BY <1>2, <1>4, SameWorkIsSound DEF SameWork
<1>6. p.ctx.store = c.ctx.store
  BY <1>3, <1>5 DEF ControlInv, Sound, FlightsOk, Belongs
<1> HIDE DEF c, e
<1>7. Sound(a.c)
  BY <1>3, <1>5, <1>6, AdmitIsSound
<1> HIDE DEF a
<1> QED BY <1>1, <1>2, <1>5, <1>7, RetryIsSound, ScheduleIsSound, NetTurnKeeps

\* An owned transfer arrives; one of another Store is not staged.
LEMMA OwnedAnsweredKeeps ==
    ASSUME ControlInv, NEW x, NEW id, OwnedAnswered(x, id)
    PROVE  ControlInv'
<1> DEFINE p == [owner |-> x.f.owner, boot |-> FALSE, after |-> None, through |-> None,
                 ctx |-> x.f.ctx, have |-> {0}, next |-> 0, blocked |-> FALSE,
                 held |-> x.f.held]
           l == Landed(x)
           a == Admit(l, id, p, {}, TRUE)
<1>1. \/ NetTurn(Retry(l))
      \/ NetTurn(Schedule(a.c)) /\ x.f.ctx.store = ctl.ctx.store
  BY DEF OwnedAnswered
<1>2. Sound(l) /\ l.ctx = ctl.ctx
  BY LandedIsSound DEF ControlInv, Fields
<1>3. "ctx" \in DOMAIN p /\ p.ctx = x.f.ctx
  OBVIOUS
<1> HIDE DEF l, p
<1>4. x.f.ctx.store = ctl.ctx.store => Sound(a.c)
  BY <1>2, <1>3, AdmitIsSound
<1> HIDE DEF a
<1> QED BY <1>1, <1>2, <1>4, RetryIsSound, ScheduleIsSound, NetTurnKeeps

\* A hint of the head.
LEMMA HintIsSound ==
    ASSUME NEW c, NEW observed, Sound(c)
    PROVE  Sound(Hint(c, observed))
<1> DEFINE d == [c EXCEPT !.dhead = Later(@, observed)]
<1>1. SameWork(d, c)
  BY DEF SameWork, Sound, Fields
<1>2. Sound(d)
  BY <1>1, SameWorkIsSound
<1> HIDE DEF d
<1>3. Sound(Schedule(d))
  BY <1>2, ScheduleIsSound
<1> QED BY <1>3 DEF Hint, d

\* A live offer.
LEMMA LiveOfferKeeps ==
    ASSUME ControlInv, NEW x, NEW id, NEW mat, NEW after, NEW through, NEW parts,
           NEW observed, NEW evicted, NEW fits,
           LiveOffer(x, id, mat, after, through, parts, observed, evicted, fits)
    PROVE  ControlInv'
<1> DEFINE ctx == [ctl.ctx EXCEPT !.mat = mat]
           p == Page(FALSE, after, through, ctx, parts)
           a == Admit(ctl, id, p, evicted, fits)
<1>1. NetTurn(Hint(ctl, observed)) \/ NetTurn(QueueOffer(ctl, id, p, observed, evicted, fits))
  BY DEF LiveOffer
<1>2. QueueOffer(ctl, id, p, observed, evicted, fits) \in {Hint(a.c, observed), Retry(a.c)}
  BY DEF QueueOffer
<1>3. Sound(ctl)
  BY DEF ControlInv
<1>4. ctx.store = ctl.ctx.store
  BY <1>3 DEF Sound, Context
<1>5. "ctx" \in DOMAIN p /\ p.ctx = ctx
  BY DEF Page
<1> HIDE DEF ctx, p
<1>6. Sound(a.c)
  BY <1>3, <1>4, <1>5, AdmitIsSound
<1> HIDE DEF a
<1>7. Sound(Hint(ctl, observed)) /\ Sound(Hint(a.c, observed)) /\ Sound(Retry(a.c))
  BY <1>3, <1>6, HintIsSound, RetryIsSound
<1>8. Sound(QueueOffer(ctl, id, p, observed, evicted, fits))
  BY <1>2, <1>7
<1> QED BY <1>1, <1>7, <1>8, NetTurnKeeps

\* The missing parts of an offer.
LEMMA LiveFragmentsKeeps ==
    ASSUME ControlInv, NEW x, NEW id \in DOMAIN ctl.queue, LiveFragments(x, id)
    PROVE  ControlInv'
<1> DEFINE U == (ctl.queue[id].next)..(Units(ctl.queue[id]) - 1)
           p == [ctl.queue[id] EXCEPT !.have = @ \cup U]
           c == [ctl EXCEPT !.queue[id].have = @ \cup U]
<1>1. NetTurn(Schedule(c))
  BY DEF LiveFragments
<1>2. Sound(ctl) /\ "ctx" \in DOMAIN ctl.queue[id]
  BY DEF ControlInv, Sound, QueueOk
<1> HIDE DEF U
<1>3. DOMAIN p = DOMAIN ctl.queue[id] /\ p.ctx = ctl.queue[id].ctx
  BY <1>2
<1>4. /\ DOMAIN c = Fields /\ c.ctx = ctl.ctx /\ c.flights = ctl.flights
      /\ c.waiters = ctl.waiters /\ c.jobs = ctl.jobs
      /\ c.queue = [ctl.queue EXCEPT ![id] = p]
  BY <1>2 DEF Sound, Fields
<1> HIDE DEF p, c
<1>5. /\ DOMAIN c.queue = DOMAIN ctl.queue
      /\ \A i \in DOMAIN ctl.queue : c.queue[i] = IF i = id THEN p ELSE ctl.queue[i]
  BY <1>4
<1>6. Part(c.waiters, Len(ctl.waiters), ctl.waiters)
  BY <1>2, <1>4, WholePart DEF Sound, WaitersOk
<1>7. Narrows(c, ctl)
  BY <1>3, <1>4, <1>5, <1>6 DEF Narrows
<1>8. Sound(c)
  BY <1>2, <1>7, NarrowerIsSound
<1> QED BY <1>1, <1>8, ScheduleIsSound, NetTurnKeeps

\* A Push is answered, lost or refused.
LEMMA PushTurnsKeep ==
    ASSUME ControlInv, NEW x, NEW published, NEW need,
           \/ PushAnswered(x, published, need) \/ PushLost(x, published, need)
           \/ PushSuperseded(x)
    PROVE  ControlInv'
<1> DEFINE l == Landed(x)
           cmd == [kind |-> "Acknowledge", receipt |-> done'[x.f.store]]
<1>1. NetTurn(Job(l, cmd)) \/ NetTurn(Retry(l))
  BY DEF PushAnswered, PushLost, PushSuperseded
<1>2. Sound(l)
  BY LandedIsSound DEF ControlInv
<1>3. cmd.kind \in JobKinds
  BY DEF JobKinds
<1> HIDE DEF l, cmd
<1>4. Sound(Job(l, cmd)) /\ Sound(Retry(l))
  BY <1>2, <1>3, JobIsSound, RetryIsSound
<1> QED BY <1>1, <1>4, NetTurnKeeps


----------------------------------------------------------------------------
\* A transaction of the worker leaves the Store's incarnation alone.
Keeps(t, s) == DOMAIN t = StoreFields /\ Context(t.ctx) /\ t.ctx.store = s.ctx.store

\* A settlement changes nothing of the context.
LEMMA SettledKeeps ==
    ASSUME NEW s, NEW t, Keeps(t, s)
    PROVE  Keeps(Settled(t), s)
<1> DEFINE u == [t EXCEPT !.stage = "idle"]
<1>1. DOMAIN u = StoreFields /\ u.ctx = t.ctx
  BY DEF Keeps, StoreFields
<1>2. Settled(t) \in {t, u}
  BY DEF Settled
<1> HIDE DEF u
<1> QED BY <1>1, <1>2 DEF Keeps

\* A unit is installed.
LEMMA InstallKeeps ==
    ASSUME NEW s, StoreOk(s), NEW id, NEW p
    PROVE  Keeps(Install(s, id, p), s)
<1> DEFINE reach == Min({p.after + p.next + 1, p.through})
           final == p.next + 1 = Units(p)
           b == IF p.boot THEN Later(Zero(s.B), reach) ELSE s.B
           c == IF p.boot THEN s.C ELSE Later(s.C, reach)
           g == IF final THEN NoProgress ELSE [id |-> id, next |-> p.next + 1]
           t == [s EXCEPT
                   !.B = b, !.C = c, !.progress[p.boot] = g,
                   !.evidence = @ \/ (s.stage = "owed" /\ s.need = "stream" /\ c >= s.sync)]
<1>1. Install(s, id, p) = Settled(t)
  BY DEF Install
<1> HIDE DEF b, c, g
<1>2. DOMAIN t = StoreFields /\ t.ctx = s.ctx
  BY DEF StoreOk, StoreFields
<1>3. Keeps(t, s)
  BY <1>2 DEF Keeps, StoreOk
<1> QED BY <1>1, <1>3, SettledKeeps

\* A transfer may change the materialization, never the incarnation.
LEMMA TransferredKeeps ==
    ASSUME NEW s, StoreOk(s), NEW p
    PROVE  Keeps(Transferred(s, p), s)
<1> DEFINE k == [s.ctx EXCEPT !.mat = s.desired]
           t == [s EXCEPT !.ctx.mat = s.desired]
           u == [s EXCEPT !.evidence = @ \/ (s.stage = "owed" /\ s.batch = p.owner.batch)]
<1>1. Transferred(s, p) \in {Settled(t), Settled(u)}
  BY DEF Transferred
<1>2. DOMAIN k = DOMAIN s.ctx /\ Context(k) /\ k.store = s.ctx.store
  BY DEF StoreOk, Context
<1>3. DOMAIN t = StoreFields /\ t.ctx = k
  BY DEF StoreOk, StoreFields
<1>4. DOMAIN u = StoreFields /\ u.ctx = s.ctx
  BY DEF StoreOk, StoreFields
<1> HIDE DEF k, t, u
<1>5. Keeps(t, s) /\ Keeps(u, s)
  BY <1>2, <1>3, <1>4 DEF Keeps, StoreOk
<1> QED BY <1>1, <1>5, SettledKeeps

\* What the worker reports of a transaction of this Store.
Reported(rep, s) ==
    /\ rep.kind \in ReportKinds
    /\ rep.kind \in {"Snapshot", "Committed"} =>
         Context(rep.st.ctx) /\ rep.st.ctx.store = s.ctx.store

\* The report of a transaction names the Store it ran on.
LEMMA CommittedIsReported ==
    ASSUME NEW s, NEW t, Keeps(t, s), NEW id, NEW n
    PROVE  Reported(Committed(t, id, n), s) /\ Reported(Snapshot(t), s) /\ Reported(Failed, s)
BY DEF Keeps, Reported, Committed, Snapshot, Failed, Status, ReportKinds

\* apply_next_delivery05
LEMMA ApplyKeeps ==
    ASSUME NEW s, StoreOk(s), NEW id, NEW p
    PROVE  Keeps(Apply(s, id, p).s, s) /\ Reported(Apply(s, id, p).rep, s)
<1> DEFINE Good(o) == Keeps(o.s, s) /\ Reported(o.rep, s)
           Out(t, n) == [s |-> t, rep |-> Committed(t, id, n)]
           none == [s |-> s, rep |-> Failed]
           saved == s.progress[p.boot]
           next == IF saved.id = id THEN saved.next ELSE 0
<1>1. Keeps(s, s)
  BY DEF Keeps, StoreOk
<1>2. ASSUME NEW t, NEW n, Keeps(t, s) PROVE Good(Out(t, n))
  BY <1>2, CommittedIsReported
<1>3. Good(none)
  BY <1>1, CommittedIsReported
<1>4. Keeps(Install(s, id, p), s) /\ Keeps(Transferred(s, p), s)
  BY InstallKeeps, TransferredKeeps
<1> DEFINE m == IF p.next + 1 = Units(p) THEN Done ELSE p.next + 1
<1>5. /\ Good(Out(s, Done)) /\ Good(Out(s, p.next)) /\ Good(Out(s, next))
      /\ Good(Out(Transferred(s, p), Done)) /\ Good(Out(Install(s, id, p), m))
  <2> HIDE DEF Good, Out, next, m
  <2> QED BY <1>1, <1>2, <1>4
<1>6. Apply(s, id, p) \in {Out(s, Done), Out(s, p.next), none, Out(Transferred(s, p), Done),
                           Out(s, next), Out(Install(s, id, p), m)}
  BY DEF Apply
<1>7. Good(Apply(s, id, p))
  <2> HIDE DEF Good, Out, next, m, none
  <2> QED BY <1>3, <1>5, <1>6
<1> QED BY <1>7

\* Every command of the worker.
LEMMA RunKeeps ==
    ASSUME NEW s, StoreOk(s), NEW cmd, cmd.kind \in JobKinds
    PROVE  Keeps(Run(s, cmd).s, s) /\ Reported(Run(s, cmd).rep, s)
<1>0. Keeps(s, s)
  BY DEF Keeps, StoreOk
<1>1. CASE cmd.kind = "Initialize"
  <2> DEFINE t == Initialize(s, cmd.head)
             u == [s EXCEPT !.S = cmd.head, !.C = cmd.head]
  <2>1. Run(s, cmd).s = t /\ Run(s, cmd).rep = Snapshot(t)
    BY <1>1 DEF Run
  <2>2. DOMAIN u = StoreFields /\ u.ctx = s.ctx
    BY DEF StoreOk, StoreFields
  <2>3. t \in {s, u}
    BY DEF Initialize
  <2> HIDE DEF t, u
  <2>4. Keeps(t, s)
    BY <1>0, <2>2, <2>3 DEF Keeps
  <2> QED BY <2>1, <2>4, CommittedIsReported
<1>2. CASE cmd.kind = "NetworkState"
  <2>1. Run(s, cmd).s = s /\ Run(s, cmd).rep = Snapshot(s)
    BY <1>2 DEF Run
  <2> QED BY <2>1, <1>0, CommittedIsReported
<1>3. CASE cmd.kind = "Needs"
  <2>1. Run(s, cmd).s = Settled(s) /\ Run(s, cmd).rep.kind = "Needs"
    BY <1>3 DEF Run
  <2> QED BY <2>1, <1>0, SettledKeeps DEF Reported, ReportKinds
<1>4. CASE cmd.kind = "Cleanup"
  <2> DEFINE t == [s EXCEPT !.progress = [lane \in BOOLEAN |->
                        IF @[lane].id \in cmd.gone THEN NoProgress ELSE @[lane]]]
  <2>1. Run(s, cmd).s = t /\ Run(s, cmd).rep.kind = "ActivePlans"
    BY <1>4 DEF Run
  <2>2. DOMAIN t = StoreFields /\ t.ctx = s.ctx
    BY DEF StoreOk, StoreFields
  <2> HIDE DEF t
  <2>3. Keeps(t, s)
    BY <1>0, <2>2 DEF Keeps
  <2> QED BY <2>1, <2>3 DEF Reported, ReportKinds
<1>5. CASE cmd.kind = "Freeze"
  <2> DEFINE u == [s EXCEPT !.stage = "frozen", !.batch = @ + 1, !.unsent = 0]
             t == Freeze(s).s
  <2>1. Run(s, cmd).s = t /\ Run(s, cmd).rep.kind = "Frozen"
    BY <1>5 DEF Run
  <2>2. DOMAIN u = StoreFields /\ u.ctx = s.ctx
    BY DEF StoreOk, StoreFields
  <2>3. t \in {s, u}
    BY DEF Freeze
  <2> HIDE DEF t, u
  <2>4. Keeps(t, s)
    BY <1>0, <2>2, <2>3 DEF Keeps
  <2> QED BY <2>1, <2>4 DEF Reported, ReportKinds
<1>6. CASE cmd.kind = "Acknowledge"
  <2> DEFINE r == cmd.receipt
             u == [s EXCEPT !.stage = "owed", !.sync = r.sync, !.need = r.need,
                            !.evidence = \/ r.need = "none"
                                         \/ r.need = "stream" /\ Zero(s.C) >= r.sync]
             t == Acknowledge(s, r)
  <2>1. Run(s, cmd).s = t /\ Run(s, cmd).rep = Committed(t, 0, 0)
    BY <1>6 DEF Run
  <2>2. DOMAIN u = StoreFields /\ u.ctx = s.ctx
    BY DEF StoreOk, StoreFields
  <2>3. t \in {s, u}
    BY DEF Acknowledge
  <2> HIDE DEF t, u
  <2>4. Keeps(t, s)
    BY <1>0, <2>2, <2>3 DEF Keeps
  <2> QED BY <2>1, <2>4, CommittedIsReported
<1>7. CASE cmd.kind = "Apply"
  <2>1. Run(s, cmd) = Apply(s, cmd.id, cmd.plan)
    BY <1>7 DEF Run
  <2> QED BY <2>1, ApplyKeeps
<1> QED BY <1>1, <1>2, <1>3, <1>4, <1>5, <1>6, <1>7 DEF JobKinds

\* One report more.
LEMMA AppendKeepsReports ==
    ASSUME NEW q, ReportsOk(q), NEW r, ReportOk(r)
    PROVE  ReportsOk(Append(q, r))
<1>1. IsSequence(q) /\ Len(q) \in Nat /\ DOMAIN q = 1..Len(q)
  BY IsASeqFacts DEF ReportsOk
<1> DEFINE t == Append(q, r)
<1>2. /\ IsSequence(t) /\ DOMAIN t = 1..(Len(q) + 1)
      /\ \A i \in 1..Len(q) : t[i] = q[i]
      /\ t[Len(q) + 1] = r
  BY <1>1, AppendIsASeq
<1> HIDE DEF t
<1>3. ReportsOk(t)
  BY <1>1, <1>2 DEF ReportsOk
<1> QED BY <1>3 DEF t

\* The Store worker, an application's write and a reset.
LEMMA WorkerKeeps ==
    ASSUME ControlInv, WorkerStep
    PROVE  ControlInv'
<1>1. ASSUME mail # <<>>, mail' = Tail(mail)
      PROVE  MailOk(mail') /\ LetterOk(Head(mail))
  BY <1>1, TailIsASeq DEF ControlInv, MailOk
<1>2. ASSUME NEW job, NEW rep, NEW s, Report(job, rep), job.ctx = s.ctx, Reported(rep, s)
      PROVE  ReportsOk(reports')
  <2> DEFINE r == [guarded |-> TRUE, old |-> job.old, ctx |-> job.ctx, rep |-> rep]
  <2>1. ReportOk(r)
    BY <1>2 DEF Reported, ReportOk
  <2>2. reports' = Append(reports, r)
    BY <1>2 DEF Report
  <2> HIDE DEF r
  <2> QED BY <2>1, <2>2, AppendKeepsReports DEF ControlInv
<1>3. ASSUME NEW s, StoreOk(s), Tell(s)
      PROVE  ReportsOk(reports')
  <2> DEFINE r == [guarded |-> FALSE, old |-> FALSE, ctx |-> s.ctx, rep |-> Snapshot(s)]
  <2>1. ReportOk(r)
    BY <1>3 DEF ReportOk, Snapshot, Status, ReportKinds, StoreOk
  <2>2. reports' = Append(reports, r)
    BY <1>3 DEF Tell
  <2> HIDE DEF r
  <2> QED BY <2>1, <2>2, AppendKeepsReports DEF ControlInv
<1>4. StoreOk(store) /\ Keeps(store, store)
  BY DEF ControlInv, StoreOk, Keeps
<1>5. CASE Work
  <2> DEFINE job == Head(mail)
             ran == Run(store, job.cmd)
  <2>1. /\ mail # <<>> /\ mail' = Tail(mail) /\ Current(job) /\ ctl' = ctl
        /\ store' = ran.s /\ Report(job, ran.rep)
    BY <1>5 DEF Work
  <2>2. MailOk(mail') /\ LetterOk(job)
    BY <1>1, <2>1
  <2> HIDE DEF job
  <2>3. Keeps(ran.s, store) /\ Reported(ran.rep, store)
    BY <1>4, <2>2, RunKeeps DEF LetterOk
  <2> HIDE DEF ran
  <2>4. ReportsOk(reports')
    BY <1>2, <2>1, <2>3 DEF Current
  <2>5. StoreOk(store')
    BY <2>1, <2>3 DEF Keeps, StoreOk
  <2> QED BY <2>1, <2>2, <2>4, <2>5 DEF ControlInv
<1>6. CASE WorkObsolete
  BY <1>6, <1>1 DEF WorkObsolete, ControlInv
<1>7. CASE WorkFails
  <2> DEFINE job == Head(mail)
  <2>1. /\ mail # <<>> /\ mail' = Tail(mail) /\ Current(job) /\ ctl' = ctl
        /\ store' = store /\ Report(job, Failed)
    BY <1>7 DEF WorkFails
  <2>2. Reported(Failed, store)
    BY <1>4, CommittedIsReported
  <2> HIDE DEF job
  <2>3. ReportsOk(reports')
    BY <1>2, <2>1, <2>2 DEF Current
  <2> QED BY <1>1, <2>1, <2>3 DEF ControlInv
<1>8. CASE Submit
  <2>1. /\ store' = [store EXCEPT !.unsent = @ + 1] /\ Tell(store')
        /\ ctl' = ctl /\ mail' = mail
    BY <1>8 DEF Submit
  <2>2. StoreOk(store')
    BY <1>4, <2>1 DEF StoreOk, StoreFields
  <2>3. ReportsOk(reports')
    BY <1>3, <2>1, <2>2
  <2> QED BY <2>1, <2>2, <2>3 DEF ControlInv
<1>9. CASE Reset
  <2>1. /\ store' = FreshStore(1, store.desired) /\ Tell(store')
        /\ ctl' = ctl /\ mail' = mail
    BY <1>9 DEF Reset
  <2>2. StoreOk(store')
    BY <2>1 DEF FreshStore, StoreOk, StoreFields, Context
  <2>3. ReportsOk(reports')
    BY <1>3, <2>1, <2>2
  <2> QED BY <2>1, <2>2, <2>3 DEF ControlInv
<1> QED BY <1>5, <1>6, <1>7, <1>8, <1>9 DEF WorkerStep

\* A new Control.
LEMMA NewControlIsSound ==
    ASSUME NEW s, StoreOk(s)
    PROVE  Sound(NewControl(Status(s)))
<1> DEFINE c == NewControl(Status(s))
<1>1. /\ DOMAIN c = Fields /\ c.ctx = s.ctx /\ c.queue = EmptyQueue /\ c.flights = {}
      /\ c.waiters = <<>> /\ c.jobs = <<>>
  BY DEF NewControl, Status, Fields
<1> HIDE DEF c
<1>2. /\ FlightsOk({}, c.ctx.store) /\ WaitersOk(<<>>, c.ctx.store) /\ JobsOk(<<>>)
      /\ Single({}, <<>>) /\ QueueOk(EmptyQueue, c.ctx.store)
  BY EmptyIsASeq DEF FlightsOk, WaitersOk, JobsOk, Single, NoneFlies, NoneWaits, AtMostOne,
                     QueueOk, EmptyQueue
<1> QED BY <1>1, <1>2 DEF Sound, StoreOk, c

\* The invariant holds in every file a behaviour begins with.
LEMMA InitControlInv == Init => ControlInv
<1> SUFFICES ASSUME Init PROVE ControlInv
  OBVIOUS
<1>1. PICK opened \in Opened : store = Begun(opened)
  BY DEF Init
<1>2. opened \in {"new", "changed", "settled", "sent"}
  BY ControlAssumption
<1>3. StoreOk(store)
  <2> DEFINE f == FreshStore(0, 0)
             ready == [f EXCEPT !.S = 0, !.B = 0, !.C = 0]
  <2>1. StoreOk(f)
    BY DEF FreshStore, StoreOk, StoreFields, Context
  <2>2. store \in {f, [ready EXCEPT !.desired = 1],
                   [ready EXCEPT !.desired = 1, !.batch = MaxCalls],
                   [ready EXCEPT !.batch = 1, !.stage = "frozen"]}
    BY <1>1, <1>2 DEF Begun
  <2> HIDE DEF f
  <2> QED BY <2>1, <2>2 DEF StoreOk, StoreFields
<1>4. Sound(ctl)
  BY <1>3, NewControlIsSound DEF Init
<1>5. MailOk(<<>>) /\ ReportsOk(<<>>)
  BY EmptyIsASeq DEF MailOk, ReportsOk
<1> QED BY <1>3, <1>4, <1>5 DEF Init, ControlInv

\* Every network and timer turn.
LEMMA NetworkKeeps ==
    ASSUME ControlInv, NetworkStep
    PROVE  ControlInv'
<1>1. CASE Upset
  <2>1. PICK x \in ctl.flights : EffectFails(x) \/ Unauthorized(x) \/ Refused(x)
    BY <1>1 DEF Upset
  <2>2. CASE Refused(x)
    BY <2>2, StopIsSound, NetTurnKeeps DEF Refused, ControlInv
  <2> QED BY <2>1, <2>2, EffectFailsKeeps, UnauthorizedKeeps
<1>2. CASE Refreshes
  BY <1>2, RefreshedKeeps DEF Refreshes
<1>3. CASE Retries
  BY <1>3, RetryFiresKeeps DEF Retries
<1>4. CASE Opens \/ Closes
  BY <1>4, SocketKeeps DEF Opens, Closes
<1>5. CASE AnswerHandshake
  BY <1>5, HandshakeAnsweredKeeps DEF AnswerHandshake
<1>6. CASE AnswerDelta
  BY <1>6, DeltaAnsweredKeeps DEF AnswerDelta, Flights
<1>7. CASE AnswerOwned
  BY <1>7, OwnedAnsweredKeeps DEF AnswerOwned
<1>8. CASE AnswerPush \/ LosePush
  BY <1>8, PushTurnsKeep DEF AnswerPush, LosePush
<1>9. CASE \E observed \in 1..head : Offer(observed)
  BY <1>9, LiveOfferKeeps DEF Offer
<1>10. CASE Acknowledged
  <2>1. PICK x : SocketAcknowledged(x, head)
    BY <1>10 DEF Acknowledged
  <2>2. NetTurn(Hint(ctl, head))
    BY <2>1 DEF SocketAcknowledged
  <2> QED BY <2>2, HintIsSound, NetTurnKeeps DEF ControlInv
<1>11. CASE Fragments
  BY <1>11, LiveFragmentsKeeps DEF Fragments
<1>12. CASE \E gone \in SUBSET (DOMAIN ctl.queue \cup ActivePlans(store)) : Expiry(gone)
  BY <1>12, ExpireFiresKeeps DEF Expiry
<1> QED BY <1>1, <1>2, <1>3, <1>4, <1>5, <1>6, <1>7, <1>8, <1>9, <1>10, <1>11, <1>12
        DEF NetworkStep

\* Every step keeps the invariant.
LEMMA NextControlInv == ControlInv /\ [Next]_vars => ControlInv'
<1> SUFFICES ASSUME ControlInv, [Next]_vars PROVE ControlInv'
  OBVIOUS
<1>1. CASE HostStep
  BY <1>1, HostKeeps
<1>2. CASE NetworkStep
  BY <1>2, NetworkKeeps
<1>3. CASE HearReport
  BY <1>3, HearReportKeeps
<1>4. CASE WorkerStep
  BY <1>4, WorkerKeeps
<1>5. CASE Publish
  BY <1>5 DEF Publish, ControlInv
<1>6. CASE Restart
  <2>1. /\ ctl' = NewControl(Status(store)) /\ mail' = <<>> /\ reports' = <<>>
        /\ store' = store
    BY <1>6 DEF Restart
  <2>2. MailOk(<<>>) /\ ReportsOk(<<>>)
    BY EmptyIsASeq DEF MailOk, ReportsOk
  <2> QED BY <2>1, <2>2, NewControlIsSound DEF ControlInv
<1>7. CASE UNCHANGED vars
  BY <1>7 DEF vars, ControlInv
<1> QED BY <1>1, <1>2, <1>3, <1>4, <1>5, <1>6, <1>7 DEF Next

\* In every reachable state, for every bound, kind of fault and file to begin with:
\* what Control has in flight, waiting and staged is of the incarnation it is at,
\* one cursor request is outstanding, and the letters both ways are well formed.
THEOREM ControlInvariant == Spec => []ControlInv
<1> QED BY InitControlInv, NextControlInv, PTL DEF Spec

\* A set without two members has at most one.
LEMMA SmallSet ==
    ASSUME NEW S, \A x, y \in S : x = y
    PROVE  Cardinality(S) \in {0, 1} /\ (Cardinality(S) = 1 => S # {})
<1>1. CASE S = {}
  BY <1>1, FS_EmptySet
<1>2. CASE S # {}
  <2>1. PICK x : S = {x}
    BY <1>2
  <2>2. Cardinality({x}) = 1
    BY FS_Singleton
  <2> QED BY <2>1, <2>2, <1>2
<1> QED BY <1>1, <1>2

\* However 401s, refreshes, handshakes, retries and reports interleave, one cursor
\* request at most is in flight or waits for credentials.
THEOREM OneCursorSlot == Spec => []OneCursorRequest
<1>1. ControlInv => OneCursorRequest
  <2> SUFFICES ASSUME ControlInv PROVE OneCursorRequest
    OBVIOUS
  <2> DEFINE F == {x \in ctl.flights : x.f.kind = "Delta"}
             W == {i \in DOMAIN ctl.waiters : ctl.waiters[i].kind = "Delta"}
  <2>1. OneCursorRequest <=> Cardinality(F) + Cardinality(W) <= 1
    BY DEF OneCursorRequest, Outstanding
  <2>2. /\ \A x, y \in F : x = y
        /\ \A i, j \in W : i = j
        /\ F = {} \/ W = {}
    BY DEF ControlInv, Sound, Single, AtMostOne, NoneFlies, NoneWaits, IsDelta
  <2> HIDE DEF F, W
  <2>3. /\ Cardinality(F) \in {0, 1} /\ (Cardinality(F) = 1 => F # {})
        /\ Cardinality(W) \in {0, 1} /\ (Cardinality(W) = 1 => W # {})
    BY <2>2, SmallSet
  <2> QED BY <2>1, <2>2, <2>3
<1> QED BY <1>1, ControlInvariant, PTL

\* Whatever was in flight, waiting or staged when the Store was reset, nothing of the
\* old incarnation outlives the turn in which Control hears of the new one.
THEOREM NothingForeign == Spec => []NoForeignWork
<1>1. ControlInv => NoForeignWork
  <2> SUFFICES ASSUME ControlInv PROVE NoForeignWork
    OBVIOUS
  <2> DEFINE Foreign(f) == \/ f.kind \in {"Delta", "Owned"} /\ f.ctx.store # ctl.ctx.store
                           \/ f.kind = "Push" /\ f.store # ctl.ctx.store
             F == {x \in ctl.flights : Foreign(x.f)}
             W == {i \in DOMAIN ctl.waiters : Foreign(ctl.waiters[i])}
  <2>1. NoForeignWork <=> /\ Cardinality(F) + Cardinality(W) = 0
                          /\ \A p \in Range(ctl.queue) : p.ctx.store = ctl.ctx.store
    BY DEF NoForeignWork, Outstanding
  <2>2. F = {} /\ W = {}
    BY DEF ControlInv, Sound, FlightsOk, WaitersOk, Belongs
  <2>3. \A p \in Range(ctl.queue) : p.ctx.store = ctl.ctx.store
    BY DEF ControlInv, Sound, QueueOk, Range
  <2>4. Cardinality({}) = 0
    BY FS_EmptySet
  <2> HIDE DEF F, W
  <2> QED BY <2>1, <2>2, <2>3, <2>4
<1> QED BY <1>1, ControlInvariant, PTL

----------------------------------------------------------------------------
(***************************************************************************)
(* LatchesReleased, for a Store whose read contract does not change.       *)
(*                                                                         *)
(* A latch is one of the three things Control waits for at the worker.     *)
(* Every operation of Control leaves each of its latches with a job under  *)
(* way, clears it, or leaves a retry that will: Holding says so of Control *)
(* in the middle of a turn, U being the kinds that were under way before   *)
(* the turn and count until it begins an epoch.  Fenced says why what is   *)
(* under way arrives: a fence of the current epoch is Control's context,   *)
(* and contexts only change with the incarnation, which the unguarded      *)
(* Snapshots bring in their order.                                         *)
(***************************************************************************)
Latches == {"Apply", "Freeze", "Needs"}
Latch(c, k) ==
    \/ k = "Apply" /\ c.applying # 0
    \/ k = "Freeze" /\ c.freezing # FALSE
    \/ k = "Needs" /\ (c.wakeAfterNeeds # FALSE \/ c.waitingPush # 0)

\* The command that answers to a latch, and the reports that release it.
Asks(cmd, k) == cmd.kind = k /\ (k = "Apply" => cmd.id # 0)
Answers(rep, k) ==
    \/ rep.kind = "Failed"
    \/ k = "Apply" /\ rep.kind = "Committed" /\ rep.id # 0
    \/ k = "Freeze" /\ rep.kind = "Frozen"
    \/ k = "Needs" /\ rep.kind = "Needs"

Gathered(jobs, k) == \E i \in DOMAIN jobs : Asks(jobs[i], k)
Holding(c, at, U) ==
    /\ DOMAIN c = Fields
    /\ IsSequence(c.jobs)
    /\ c.ctx = at
    /\ (c.connected /\ ~Has(c, "Retry")) =>
          \A k \in Latches : Latch(c, k) =>
              (k \in U /\ c.newEpoch = FALSE) \/ Gathered(c.jobs, k)

\* A change that leaves the latches and what they wait for alone.
LatchFields == {"ctx", "connected", "newEpoch", "applying", "freezing", "wakeAfterNeeds",
                "waitingPush"}
Neutral(d, c) ==
    /\ DOMAIN d = Fields
    /\ \A k \in LatchFields : d[k] = c[k]
    /\ Has(c, "Retry") => Has(d, "Retry")
    /\ IsSequence(d.jobs)
    /\ \A i \in DOMAIN c.jobs : \E j \in DOMAIN d.jobs : d.jobs[j] = c.jobs[i]

\* A neutral change keeps what Control holds.
LEMMA NeutralHolds ==
    ASSUME NEW c, NEW d, NEW at, NEW U, Holding(c, at, U), Neutral(d, c)
    PROVE  Holding(d, at, U)
<1>1. /\ d.ctx = c.ctx /\ d.connected = c.connected /\ d.newEpoch = c.newEpoch
      /\ d.applying = c.applying /\ d.freezing = c.freezing
      /\ d.wakeAfterNeeds = c.wakeAfterNeeds /\ d.waitingPush = c.waitingPush
  BY DEF Neutral, LatchFields
<1>2. \A k \in Latches : Latch(d, k) => Latch(c, k)
  BY <1>1 DEF Latch
<1>3. \A k \in Latches : Gathered(c.jobs, k) => Gathered(d.jobs, k)
  BY DEF Neutral, Gathered
<1> QED BY <1>1, <1>2, <1>3 DEF Neutral, Holding

\* Other fields change.
LEMMA AsideIsNeutral ==
    ASSUME NEW c, NEW d, DOMAIN d = Fields, IsSequence(c.jobs),
           \A k \in LatchFields : d[k] = c[k], d.jobs = c.jobs,
           \A x \in c.flights : x.f.kind = "Retry" => x \in d.flights
    PROVE  Neutral(d, c)
BY DEF Neutral, Has

\* An effect is sent.
LEMMA EffectIsNeutral ==
    ASSUME NEW c, NEW f, DOMAIN c = Fields, IsSequence(c.jobs)
    PROVE  Neutral(Effect(c, f), c)
<1>1. PICK n : /\ Effect(c, f).flights = c.flights \cup {[f |-> f, n |-> n]}
               /\ DOMAIN Effect(c, f) = Fields
               /\ \A k \in Fields \ {"flights"} : Effect(c, f)[k] = c[k]
  BY EffectAdds
<1> DEFINE d == Effect(c, f)
<1> HIDE DEF d
<1>2. d.jobs = c.jobs /\ \A k \in LatchFields : d[k] = c[k]
  BY <1>1 DEF d, Fields, LatchFields
<1>3. \A x \in c.flights : x \in d.flights
  BY <1>1 DEF d
<1>4. DOMAIN d = Fields
  BY <1>1 DEF d
<1> QED BY <1>2, <1>3, <1>4, AsideIsNeutral DEF d

\* A job is gathered.
LEMMA JobIsNeutral ==
    ASSUME NEW c, NEW cmd, DOMAIN c = Fields, IsSequence(c.jobs)
    PROVE  /\ Neutral(Job(c, cmd), c)
           /\ \E j \in DOMAIN Job(c, cmd).jobs : Job(c, cmd).jobs[j] = cmd
<1> DEFINE d == Job(c, cmd)
<1>1. /\ DOMAIN d = Fields /\ d.jobs = Append(c.jobs, cmd) /\ d.flights = c.flights
      /\ \A k \in LatchFields : d[k] = c[k]
  BY DEF Job, Fields, LatchFields
<1> HIDE DEF d
<1>2. Len(c.jobs) \in Nat /\ DOMAIN c.jobs = 1..Len(c.jobs)
  BY IsASeqFacts
<1>3. /\ IsSequence(d.jobs) /\ DOMAIN d.jobs = 1..(Len(c.jobs) + 1)
      /\ \A i \in 1..Len(c.jobs) : d.jobs[i] = c.jobs[i]
      /\ d.jobs[Len(c.jobs) + 1] = cmd
  BY <1>1, <1>2, AppendIsASeq
<1>4. \A i \in DOMAIN c.jobs : i \in DOMAIN d.jobs /\ d.jobs[i] = c.jobs[i]
  BY <1>2, <1>3
<1>5. Len(c.jobs) + 1 \in DOMAIN d.jobs
  BY <1>2, <1>3
<1>6. Has(c, "Retry") => Has(d, "Retry")
  BY <1>1 DEF Has
<1>7. Neutral(d, c)
  BY <1>1, <1>3, <1>4, <1>6 DEF Neutral
<1> QED BY <1>3, <1>5, <1>7 DEF d

\* Effects and jobs leave Control holding what it held.
LEMMA EffectHolds ==
    ASSUME NEW c, NEW at, NEW U, Holding(c, at, U), NEW f
    PROVE  Holding(Effect(c, f), at, U)
<1>1. Neutral(Effect(c, f), c)
  BY EffectIsNeutral DEF Holding
<1> HIDE DEF Effect
<1> QED BY <1>1, NeutralHolds

LEMMA JobHolds ==
    ASSUME NEW c, NEW at, NEW U, Holding(c, at, U), NEW cmd
    PROVE  Holding(Job(c, cmd), at, U)
<1>1. Neutral(Job(c, cmd), c)
  BY JobIsNeutral DEF Holding
<1> QED BY <1>1, NeutralHolds

\* A job that is gathered for a latch that is set.
LEMMA LatchedJobHolds ==
    ASSUME NEW c, NEW at, NEW U, NEW cmd, NEW k0 \in Latches, Asks(cmd, k0),
           DOMAIN c = Fields, IsSequence(c.jobs), c.ctx = at,
           (c.connected /\ ~Has(c, "Retry")) =>
               \A k \in Latches \ {k0} : Latch(c, k) =>
                   (k \in U /\ c.newEpoch = FALSE) \/ Gathered(c.jobs, k)
    PROVE  Holding(Job(c, cmd), at, U)
<1> DEFINE d == Job(c, cmd)
<1>1. Neutral(d, c) /\ \E j \in DOMAIN d.jobs : d.jobs[j] = cmd
  BY JobIsNeutral
<1> HIDE DEF d
<1>2. Gathered(d.jobs, k0)
  BY <1>1 DEF Gathered
<1>3. \A k \in Latches : Gathered(c.jobs, k) => Gathered(d.jobs, k)
  BY <1>1 DEF Neutral, Gathered
<1>4. /\ d.ctx = c.ctx /\ d.connected = c.connected /\ d.newEpoch = c.newEpoch
      /\ d.applying = c.applying /\ d.freezing = c.freezing
      /\ d.wakeAfterNeeds = c.wakeAfterNeeds /\ d.waitingPush = c.waitingPush
  BY <1>1 DEF Neutral, LatchFields
<1>5. \A k \in Latches : Latch(d, k) => Latch(c, k)
  BY <1>4 DEF Latch
<1>6. Holding(d, at, U)
  BY <1>1, <1>2, <1>3, <1>4, <1>5 DEF Neutral, Holding
<1> QED BY <1>6 DEF d

\* retry_status
LEMMA RetryHolds ==
    ASSUME NEW c, NEW at, NEW U, Holding(c, at, U)
    PROVE  Holding(Retry(c), at, U)
<1>1. Holding(Effect(c, Plain("Retry")), at, U)
  BY EffectHolds
<1> QED BY <1>1 DEF Retry

\* retire_bootstrap_prefetch
LEMMA RetirePrefetchIsNeutral ==
    ASSUME NEW c, DOMAIN c = Fields, IsSequence(c.jobs)
    PROVE  Neutral(RetirePrefetch(c), c)
<1> DEFINE d == RetirePrefetch(c)
<1>1. /\ DOMAIN d = Fields /\ d.jobs = c.jobs
      /\ \A k \in LatchFields : d[k] = c[k]
      /\ \A x \in c.flights : x.f.kind = "Retry" => x \in d.flights
  BY DEF Fields, LatchFields, RetirePrefetch, Keep, Drop
<1> HIDE DEF d
<1>2. Neutral(d, c)
  BY <1>1, AsideIsNeutral
<1> QED BY <1>2 DEF d

\* Nothing is waited for.
Unlatched(c) ==
    c.applying = 0 /\ c.freezing = FALSE /\ c.wakeAfterNeeds = FALSE /\ c.waitingPush = 0

LEMMA UnlatchedHolds ==
    ASSUME NEW c, NEW U, DOMAIN c = Fields, IsSequence(c.jobs), Unlatched(c)
    PROVE  Holding(c, c.ctx, U)
BY DEF Holding, Unlatched, Latch, Latches

\* handshake clears the latches and begins an epoch.
LEMMA HandshakeHolds ==
    ASSUME NEW c, NEW U, DOMAIN c = Fields, IsSequence(c.jobs)
    PROVE  Holding(Handshake(c), c.ctx, U) /\ Handshake(c).newEpoch = TRUE
<1> DEFINE r == RetirePrefetch(c)
           d == [[r EXCEPT !.flights = {x \in @ : x.f.kind \notin
                              {"Socket", "Delta", "Handshake", "Owned", "Push"}}]
                 EXCEPT !.newEpoch = TRUE, !.applying = 0, !.freezing = FALSE,
                        !.wakeAfterNeeds = FALSE, !.waitingPush = 0]
           h == Effect(d, Plain("Handshake"))
<1>1. Handshake(c) = h
  BY DEF Handshake, Drop
<1>2. DOMAIN r = Fields /\ IsSequence(r.jobs) /\ r.ctx = c.ctx
  BY RetirePrefetchIsNeutral DEF Neutral, LatchFields
<1> HIDE DEF r
<1>3. /\ DOMAIN d = Fields /\ d.jobs = r.jobs /\ d.ctx = c.ctx
      /\ Unlatched(d) /\ d.newEpoch = TRUE
  BY <1>2 DEF Fields, Unlatched
<1> HIDE DEF d
<1>4. Holding(d, c.ctx, U)
  BY <1>2, <1>3, UnlatchedHolds
<1>5. Neutral(h, d)
  BY <1>2, <1>3, EffectIsNeutral
<1> HIDE DEF h
<1>6. Holding(h, c.ctx, U)
  BY <1>4, <1>5, NeutralHolds
<1>7. h.newEpoch = d.newEpoch
  BY <1>5 DEF Neutral, LatchFields
<1> QED BY <1>1, <1>3, <1>6, <1>7

\* connect
LEMMA ConnectHolds ==
    ASSUME NEW c, NEW U, DOMAIN c = Fields, IsSequence(c.jobs)
    PROVE  Holding(Connect(c), c.ctx, U) /\ Connect(c).newEpoch = TRUE
<1> DEFINE d == [c EXCEPT !.connected = TRUE]
<1>1. DOMAIN d = Fields /\ d.jobs = c.jobs /\ d.ctx = c.ctx
  BY DEF Fields
<1> HIDE DEF d
<1>2. Holding(Handshake(d), c.ctx, U) /\ Handshake(d).newEpoch = TRUE
  BY <1>1, HandshakeHolds
<1> QED BY <1>2 DEF Connect, d

\* stop
LEMMA StopHolds ==
    ASSUME NEW c, NEW U, DOMAIN c = Fields
    PROVE  Holding(Stop(c), c.ctx, U) /\ Stop(c).newEpoch = TRUE
<1> DEFINE d == Stop(c)
<1>1. /\ DOMAIN d = Fields /\ d.jobs = <<>> /\ d.ctx = c.ctx /\ Unlatched(d)
      /\ d.newEpoch = TRUE
  BY DEF Fields, Stop, Unlatched
<1> HIDE DEF d
<1>2. Holding(d, c.ctx, U)
  BY <1>1, EmptyIsASeq, UnlatchedHolds
<1> QED BY <1>1, <1>2 DEF d

\* wake gathers the Freeze it will wait for.
LEMMA WakeHolds ==
    ASSUME NEW c, NEW at, NEW U, Holding(c, at, U)
    PROVE  Holding(Wake(c), at, U)
<1> DEFINE d == [c EXCEPT !.freezing = TRUE]
<1>1. /\ DOMAIN d = Fields /\ d.jobs = c.jobs /\ d.ctx = at /\ d.flights = c.flights
      /\ d.connected = c.connected /\ d.newEpoch = c.newEpoch /\ d.applying = c.applying
      /\ d.wakeAfterNeeds = c.wakeAfterNeeds /\ d.waitingPush = c.waitingPush
  BY DEF Holding, Fields
<1> HIDE DEF d
<1>2. \A k \in Latches \ {"Freeze"} : Latch(d, k) => Latch(c, k)
  BY <1>1 DEF Latch
<1>3. "Freeze" \in Latches /\ Asks(Cmd("Freeze"), "Freeze")
  BY DEF Latches, Asks, Cmd
<1>4. (d.connected /\ ~Has(d, "Retry")) =>
               \A k \in Latches \ {"Freeze"} : Latch(d, k) =>
                   (k \in U /\ d.newEpoch = FALSE) \/ Gathered(d.jobs, k)
  BY <1>1, <1>2 DEF Holding, Has
<1>5. IsSequence(d.jobs)
  BY <1>1 DEF Holding
<1> DEFINE cmd == Cmd("Freeze")
<1>6. Holding(Job(d, cmd), at, U)
  <2> HIDE DEF cmd
  <2> QED BY <1>1, <1>3, <1>4, <1>5, LatchedJobHolds DEF cmd
<1> QED BY <1>6 DEF Wake, d

\* A field outside the latches changes.
LEMMA AsideHolds ==
    ASSUME NEW c, NEW d, NEW at, NEW U, Holding(c, at, U), DOMAIN d = Fields,
           \A k \in LatchFields : d[k] = c[k], d.jobs = c.jobs,
           \A x \in c.flights : x.f.kind = "Retry" => x \in d.flights
    PROVE  Holding(d, at, U)
<1>1. Neutral(d, c)
  BY AsideIsNeutral DEF Holding
<1> QED BY <1>1, NeutralHolds

\* schedule gathers the Apply it will wait for.
LEMMA ScheduleApplyHolds ==
    ASSUME NEW c, NEW at, NEW U, Holding(c, at, U)
    PROVE  Holding(ScheduleApply(c), at, U)
<1> DEFINE ready == {i \in DOMAIN c.queue : MayApply(c, i)}
           id == Min(ready)
           d == [c EXCEPT !.applying = id]
           cmd == [kind |-> "Apply", id |-> id, plan |-> c.queue[id]]
<1>1. ScheduleApply(c) = IF c.applying # 0 \/ ready = {} THEN c ELSE Job(d, cmd)
  BY DEF ScheduleApply
<1>2. cmd.kind = "Apply" /\ cmd.id = id
  OBVIOUS
<1> HIDE DEF ready, id, cmd
<1>3. /\ DOMAIN d = Fields /\ d.jobs = c.jobs /\ d.ctx = at /\ d.flights = c.flights
      /\ d.connected = c.connected /\ d.newEpoch = c.newEpoch /\ d.applying = id
      /\ d.freezing = c.freezing
      /\ d.wakeAfterNeeds = c.wakeAfterNeeds /\ d.waitingPush = c.waitingPush
  BY DEF Holding, Fields
<1> HIDE DEF d
<1>4. \A k \in Latches \ {"Apply"} : Latch(d, k) => Latch(c, k)
  BY <1>3 DEF Latch
<1>5. IsSequence(d.jobs)
  BY <1>3 DEF Holding
<1>6. (d.connected /\ ~Has(d, "Retry")) =>
               \A k \in Latches \ {"Apply"} : Latch(d, k) =>
                   (k \in U /\ d.newEpoch = FALSE) \/ Gathered(d.jobs, k)
  BY <1>3, <1>4 DEF Holding, Has
<1>7. CASE id # 0
  <2>1. "Apply" \in Latches /\ Asks(cmd, "Apply")
    BY <1>2, <1>7 DEF Latches, Asks
  <2>2. Holding(Job(d, cmd), at, U)
    BY <1>3, <1>5, <1>6, <2>1, LatchedJobHolds
  <2> QED BY <1>1, <2>2
<1>8. CASE id = 0
  <2>1. ~Latch(d, "Apply")
    BY <1>3, <1>8 DEF Latch
  <2>2. Holding(d, at, U)
    BY <1>3, <1>5, <1>6, <2>1 DEF Holding
  <2>3. Holding(Job(d, cmd), at, U)
    BY <2>2, JobHolds
  <2> QED BY <1>1, <2>3
<1> QED BY <1>7, <1>8

\* schedule sends timers and requests besides.
LEMMA ScheduleHolds ==
    ASSUME NEW c, NEW at, NEW U, Holding(c, at, U)
    PROVE  Holding(Schedule(c), at, U)
<1> DEFINE c1 == ArmExpiry(c)
           c2 == TellNetwork(c1)
           c3 == ScheduleApply(c2)
<1>1. Holding(c1, at, U)
  <2>1. Holding(Effect(c, Plain("Expire")), at, U)
    BY EffectHolds
  <2> QED BY <2>1 DEF ArmExpiry
<1> HIDE DEF c1
<1>2. Holding(c2, at, U)
  <2> DEFINE net == <<c1.live, c1.st.C = None \/ c1.st.C < c1.dhead>>
             d == [c1 EXCEPT !.net = net]
  <2>1. c2 = IF c1.net = net THEN c1 ELSE Job(d, Cmd("NetworkState"))
    BY DEF TellNetwork
  <2> HIDE DEF net, c2
  <2>2. /\ DOMAIN d = Fields /\ d.jobs = c1.jobs /\ d.flights = c1.flights
        /\ \A k \in LatchFields : d[k] = c1[k]
    BY <1>1 DEF Holding, Fields, LatchFields
  <2> HIDE DEF d
  <2>3. Holding(d, at, U)
    BY <1>1, <2>2, AsideHolds
  <2> DEFINE cmd == Cmd("NetworkState")
  <2> HIDE DEF cmd
  <2>4. Holding(Job(d, cmd), at, U)
    BY <2>3, JobHolds
  <2> QED BY <1>1, <2>1, <2>4 DEF cmd
<1> HIDE DEF c2
<1>3. Holding(c3, at, U)
  BY <1>2, ScheduleApplyHolds
<1> HIDE DEF c3
<1>4. ASSUME NEW lane, NEW after, NEW through
      PROVE  /\ Holding(Pull(c3, lane, after, through), at, U)
             /\ Holding(PullSuccessor(c3, after, through), at, U)
  <2>1. ASSUME NEW l, NEW a, NEW t PROVE Holding(Pull(c3, l, a, t), at, U)
    <3> DEFINE f == [kind |-> "Delta", ctx |-> c3.ctx, boot |-> l, after |-> a, through |-> t]
    <3>1. Pull(c3, l, a, t) = Effect(c3, f)
      BY DEF Pull
    <3> HIDE DEF f
    <3>2. Holding(Effect(c3, f), at, U)
      BY <1>3, EffectHolds
    <3> QED BY <3>1, <3>2
  <2>2. Holding(PullSuccessor(c3, after, through), at, U)
    BY <1>3, <2>1 DEF PullSuccessor
  <2> QED BY <2>1, <2>2
<1>5. Holding(SchedulePull(c3), at, U)
  <2> DEFINE boot == c3.st.B # c3.st.S
             after == Reached(c3.st, boot)
             through == IF boot THEN c3.st.S ELSE c3.dhead
  <2>1. SchedulePull(c3) \in {c3, PullSuccessor(c3, after, through), Pull(c3, boot, after, through)}
    BY DEF SchedulePull
  <2> HIDE DEF boot, after, through
  <2> QED BY <1>3, <1>4, <2>1
<1> QED BY <1>5 DEF Schedule, c1, c2, c3

\* hint
LEMMA HintHolds ==
    ASSUME NEW c, NEW at, NEW U, Holding(c, at, U), NEW observed
    PROVE  Holding(Hint(c, observed), at, U)
<1> DEFINE d == [c EXCEPT !.dhead = Later(@, observed)]
<1>1. /\ DOMAIN d = Fields /\ d.jobs = c.jobs /\ d.flights = c.flights
      /\ \A k \in LatchFields : d[k] = c[k]
  BY DEF Holding, Fields, LatchFields
<1> HIDE DEF d
<1>2. Holding(d, at, U)
  BY <1>1, AsideHolds
<1> QED BY <1>2, ScheduleHolds DEF Hint, d

\* Admission touches only the queue.
LEMMA AdmitHolds ==
    ASSUME NEW c, NEW at, NEW U, Holding(c, at, U), NEW id, NEW p, NEW evicted, NEW fits
    PROVE  Holding(Admit(c, id, p, evicted, fits).c, at, U)
<1> DEFINE room == [c EXCEPT !.queue = Restrict(@, DOMAIN @ \ evicted)]
           q == [i \in DOMAIN room.queue \cup {id} |-> IF i = id THEN p ELSE room.queue[i]]
           full == [room EXCEPT !.queue = q]
<1>1. Admit(c, id, p, evicted, fits).c \in {c, room, full}
  BY DEF Admit
<1>2. /\ DOMAIN room = Fields /\ room.jobs = c.jobs /\ room.flights = c.flights
      /\ \A k \in LatchFields : room[k] = c[k]
  BY DEF Holding, Fields, LatchFields
<1> HIDE DEF room
<1>3. Holding(room, at, U)
  BY <1>2, AsideHolds
<1> HIDE DEF q
<1>4. /\ DOMAIN full = Fields /\ full.jobs = room.jobs /\ full.flights = room.flights
      /\ \A k \in LatchFields : full[k] = room[k]
  BY <1>2 DEF Fields, LatchFields
<1> HIDE DEF full
<1>5. Holding(full, at, U)
  BY <1>3, <1>4, AsideHolds
<1> QED BY <1>1, <1>3, <1>5

\* schedule begins no epoch and ends none.
LEMMA ScheduleKeepsEpoch ==
    ASSUME NEW c, DOMAIN c = Fields
    PROVE  Schedule(c).newEpoch = c.newEpoch
<1> DEFINE Same(d, e) == DOMAIN d = Fields /\ d.newEpoch = e.newEpoch
           c1 == ArmExpiry(c)
           c2 == TellNetwork(c1)
           c3 == ScheduleApply(c2)
           c4 == SchedulePull(c3)
<1>1. ASSUME NEW d, NEW f, DOMAIN d = Fields PROVE Same(Effect(d, f), d)
  <2>1. \E n : /\ Effect(d, f).flights = d.flights \cup {[f |-> f, n |-> n]}
               /\ DOMAIN Effect(d, f) = Fields
               /\ \A k \in Fields \ {"flights"} : Effect(d, f)[k] = d[k]
    BY <1>1, EffectAdds
  <2> QED BY <2>1 DEF Fields
<1>2. ASSUME NEW d, NEW cmd, DOMAIN d = Fields PROVE Same(Job(d, cmd), d)
  BY <1>2 DEF Job, Fields
<1>3. Same(c1, c)
  <2> HIDE DEF Same
  <2>1. Same(c, c) /\ Same(Effect(c, Plain("Expire")), c)
    BY <1>1 DEF Same
  <2> QED BY <2>1 DEF ArmExpiry
<1> HIDE DEF c1
<1>4. Same(c2, c1)
  <2> DEFINE net == <<c1.live, c1.st.C = None \/ c1.st.C < c1.dhead>>
             d == [c1 EXCEPT !.net = net]
  <2>1. c2 = IF c1.net = net THEN c1 ELSE Job(d, Cmd("NetworkState"))
    BY DEF TellNetwork
  <2> HIDE DEF net, c2
  <2>2. Same(d, c1)
    BY <1>3 DEF Fields
  <2> HIDE DEF d
  <2>3. Same(Job(d, Cmd("NetworkState")), d)
    BY <1>2, <2>2
  <2> QED BY <1>3, <2>1, <2>2, <2>3
<1> HIDE DEF c2
<1>5. Same(c3, c2)
  <2> DEFINE ready == {i \in DOMAIN c2.queue : MayApply(c2, i)}
             id == Min(ready)
             d == [c2 EXCEPT !.applying = id]
             cmd == [kind |-> "Apply", id |-> id, plan |-> c2.queue[id]]
  <2>1. c3 = IF c2.applying # 0 \/ ready = {} THEN c2 ELSE Job(d, cmd)
    BY DEF ScheduleApply
  <2> HIDE DEF ready, id, cmd, c3
  <2>2. Same(d, c2)
    BY <1>4 DEF Fields
  <2> HIDE DEF d
  <2>3. Same(Job(d, cmd), d)
    BY <1>2, <2>2
  <2> QED BY <1>4, <2>1, <2>2, <2>3
<1> HIDE DEF c3
<1>6. Same(c4, c3)
  <2>1. ASSUME NEW l, NEW a, NEW t PROVE Same(Pull(c3, l, a, t), c3)
    <3> DEFINE f == [kind |-> "Delta", ctx |-> c3.ctx, boot |-> l, after |-> a, through |-> t]
    <3>1. Pull(c3, l, a, t) = Effect(c3, f)
      BY DEF Pull
    <3> HIDE DEF f
    <3>2. Same(Effect(c3, f), c3)
      BY <1>1, <1>5
    <3> HIDE DEF Same
    <3> QED BY <3>1, <3>2
  <2> DEFINE boot == c3.st.B # c3.st.S
             after == Reached(c3.st, boot)
             through == IF boot THEN c3.st.S ELSE c3.dhead
  <2>2. c4 \in {c3, PullSuccessor(c3, after, through), Pull(c3, boot, after, through)}
    BY DEF SchedulePull
  <2>3. Same(c3, c3)
    BY <1>5
  <2> HIDE DEF boot, after, through, c4, Same
  <2>4. Same(PullSuccessor(c3, after, through), c3)
    BY <2>1, <2>3 DEF PullSuccessor
  <2> QED BY <2>1, <2>2, <2>3, <2>4
<1> HIDE DEF c4
<1>7. c4.newEpoch = c.newEpoch
  BY <1>3, <1>4, <1>5, <1>6
<1> QED BY <1>7 DEF Schedule, c1, c2, c3, c4

----------------------------------------------------------------------------
\* The reports.  A Snapshot: of another incarnation, it begins an epoch.
LEMMA OnSnapshotHolds ==
    ASSUME NEW c, NEW at, NEW U, Holding(c, at, U), NEW st,
           st.ctx.store = at.store => st.ctx = at
    PROVE  /\ Holding(OnSnapshot(c, st), st.ctx, U)
           /\ st.ctx = at \/ OnSnapshot(c, st).newEpoch = TRUE
<1> DEFINE s == Stop(c)
           fresh == [s EXCEPT !.queue = EmptyQueue, !.dhead = Zero(st.C), !.ctx = st.ctx]
           d == IF st.ctx.store = c.ctx.store THEN c
                ELSE IF c.connected THEN Connect(fresh) ELSE fresh
           e == [d EXCEPT !.ctx = st.ctx, !.st = st, !.wakeAfterNeeds = TRUE]
           cmd == Cmd("Needs")
<1>1. OnSnapshot(c, st) = Job(e, cmd)
  BY DEF OnSnapshot
<1>2. /\ DOMAIN s = Fields /\ Unlatched(s) /\ s.jobs = <<>> /\ s.newEpoch = TRUE
  BY DEF Holding, Fields, Stop, Unlatched
<1> HIDE DEF s
<1>3. /\ DOMAIN fresh = Fields /\ fresh.ctx = st.ctx /\ Unlatched(fresh)
      /\ fresh.jobs = <<>> /\ fresh.newEpoch = TRUE
  BY <1>2 DEF Unlatched, Fields
<1> HIDE DEF fresh
<1>4. Holding(fresh, st.ctx, U)
  BY <1>3, EmptyIsASeq, UnlatchedHolds
<1>5. Holding(Connect(fresh), st.ctx, U) /\ Connect(fresh).newEpoch = TRUE
  BY <1>3, EmptyIsASeq, ConnectHolds
<1>6. c.ctx = at
  BY DEF Holding
<1>7. Holding(d, st.ctx, U) /\ (st.ctx = at \/ d.newEpoch = TRUE)
  BY <1>3, <1>4, <1>5, <1>6
<1> HIDE DEF d
<1>8. /\ DOMAIN e = Fields /\ e.ctx = st.ctx /\ e.flights = d.flights /\ e.jobs = d.jobs
      /\ e.connected = d.connected /\ e.newEpoch = d.newEpoch
      /\ e.applying = d.applying /\ e.freezing = d.freezing
  BY <1>7 DEF Holding, Fields
<1> HIDE DEF e
<1>9. \A k \in Latches \ {"Needs"} : Latch(e, k) => Latch(d, k)
  BY <1>8 DEF Latch
<1>10. (e.connected /\ ~Has(e, "Retry")) =>
               \A k \in Latches \ {"Needs"} : Latch(e, k) =>
                   (k \in U /\ e.newEpoch = FALSE) \/ Gathered(e.jobs, k)
  BY <1>7, <1>8, <1>9 DEF Holding, Has
<1>11. "Needs" \in Latches /\ Asks(cmd, "Needs")
  BY DEF Latches, Asks, Cmd
<1> HIDE DEF cmd
<1>12. IsSequence(e.jobs)
  BY <1>7, <1>8 DEF Holding
<1>13. Holding(Job(e, cmd), st.ctx, U)
  BY <1>8, <1>10, <1>11, <1>12, LatchedJobHolds
<1>14. Job(e, cmd).newEpoch = e.newEpoch
  BY <1>8 DEF Job, Fields
<1> QED BY <1>1, <1>7, <1>8, <1>13, <1>14

\* Needs releases its latch and the Push it holds back.
LEMMA OnNeedsHolds ==
    ASSUME NEW c, NEW at, NEW U, Holding(c, at, U \cup {"Needs"}), NEW r
    PROVE  Holding(OnNeeds(c, r), at, U)
<1> DEFINE Pending(ctx, owner) ==
            \/ owner = SchemaOwner /\ r.schema /\ ctx.store = c.ctx.store /\ ctx.mat = r.desired
            \/ owner = SettlementOwner(r.owed) /\ r.owed # 0 /\ ctx = c.ctx
           Unowned(f) == f.kind = "Owned" /\ ~Pending(f.ctx, f.owner)
           Kept(id, p) == Ordinary(p) \/ Pending(p.ctx, p.owner)
           c1 == [Keep(Drop(c, Unowned), Kept) EXCEPT
                     !.waiters = Remaining(@, {i \in DOMAIN @ : ~Unowned(@[i])})]
           desired == [c.ctx EXCEPT !.mat = r.desired]
           c2 == IF r.schema THEN Own(c1, SchemaOwner, desired, r.held) ELSE c1
           c3 == IF r.progressed THEN [c2 EXCEPT !.st = r.st, !.wakeAfterNeeds = TRUE] ELSE c2
           c4 == IF r.missing THEN Own(c3, SettlementOwner(r.owed), c.ctx, r.held) ELSE c3
           c5 == [c4 EXCEPT !.wakeAfterNeeds = FALSE, !.waitingPush = 0]
           c6 == IF c4.waitingPush # 0 THEN Push(c5, c4.waitingPush) ELSE c5
           Other == {"ctx", "connected", "newEpoch", "applying", "freezing", "jobs"}
           Like(d) == /\ DOMAIN d = Fields
                      /\ \A k \in Other : d[k] = c[k]
                      /\ \A x \in c.flights : x.f.kind = "Retry" => x \in d.flights
<1>1. OnNeeds(c, r) = IF c4.wakeAfterNeeds THEN Wake(c6) ELSE c6
  BY DEF OnNeeds
<1>2. DOMAIN c = Fields /\ IsSequence(c.jobs) /\ c.ctx = at
  BY DEF Holding
<1>3. Like(c1)
  BY <1>2 DEF Fields, Keep, Drop
<1> HIDE DEF c1, desired
<1>4. ASSUME NEW d, NEW o, NEW k, NEW h, Like(d) PROVE Like(Own(d, o, k, h))
  <2> DEFINE f == [kind |-> "Owned", ctx |-> k, owner |-> o, held |-> h]
  <2>1. Own(d, o, k, h) \in {d, Effect(d, f)}
    BY DEF Own
  <2> HIDE DEF f
  <2>2. \E n : /\ Effect(d, f).flights = d.flights \cup {[f |-> f, n |-> n]}
               /\ DOMAIN Effect(d, f) = Fields
               /\ \A j \in Fields \ {"flights"} : Effect(d, f)[j] = d[j]
    BY <1>4, EffectAdds
  <2>3. Like(Effect(d, f))
    BY <1>4, <2>2 DEF Fields
  <2> HIDE DEF Like
  <2> QED BY <1>4, <2>1, <2>3
<1>5. Like(c2)
  <2> HIDE DEF Like
  <2> QED BY <1>3, <1>4
<1> HIDE DEF c2
<1>6. Like(c3)
  BY <1>5 DEF Fields
<1> HIDE DEF c3
<1>7. Like(c4)
  <2> HIDE DEF Like
  <2> QED BY <1>4, <1>6
<1> HIDE DEF c4
<1>8. Like(c5) /\ c5.wakeAfterNeeds = FALSE /\ c5.waitingPush = 0
  BY <1>7 DEF Fields
<1> HIDE DEF c5
<1>9. Holding(c5, at, U)
  <2>1. /\ DOMAIN c5 = Fields /\ c5.ctx = at /\ c5.jobs = c.jobs
        /\ c5.connected = c.connected /\ c5.newEpoch = c.newEpoch
        /\ c5.applying = c.applying /\ c5.freezing = c.freezing
        /\ Has(c, "Retry") => Has(c5, "Retry")
    BY <1>2, <1>8 DEF Has
  <2>2. ~Latch(c5, "Needs") /\ \A k \in Latches \ {"Needs"} : Latch(c5, k) => Latch(c, k)
    BY <1>8, <2>1 DEF Latch
  <2> QED BY <1>2, <2>1, <2>2 DEF Holding
<1>10. Holding(c6, at, U)
  <2> DEFINE f == [kind |-> "Push", store |-> c5.ctx.store, batch |-> c4.waitingPush]
  <2>1. c6 \in {c5, Effect(c5, f)}
    BY DEF Push
  <2> HIDE DEF f
  <2>2. Holding(Effect(c5, f), at, U)
    BY <1>9, EffectHolds
  <2> QED BY <1>9, <2>1, <2>2
<1> HIDE DEF c6
<1> QED BY <1>1, <1>10, WakeHolds

\* Frozen releases its latch; a Push waits only where a Needs is waited for.
LEMMA OnFrozenHolds ==
    ASSUME NEW c, NEW at, NEW U, Holding(c, at, U \cup {"Freeze"}), NEW b
    PROVE  Holding(OnFrozen(c, b), at, U)
<1> DEFINE d == [c EXCEPT !.freezing = FALSE]
           e == [d EXCEPT !.waitingPush = b]
           f == [kind |-> "Push", store |-> d.ctx.store, batch |-> b]
<1>1. OnFrozen(c, b) \in {d, Effect(d, f)} \/ (OnFrozen(c, b) = e /\ c.wakeAfterNeeds)
  BY DEF OnFrozen, Push
<1>2. ASSUME NEW g, DOMAIN g = Fields, g.jobs = c.jobs, g.ctx = at, g.flights = c.flights,
             g.connected = c.connected, g.newEpoch = c.newEpoch, g.applying = c.applying,
             g.freezing = FALSE, Latch(g, "Needs") => Latch(c, "Needs")
      PROVE  Holding(g, at, U)
  <2>1. ~Latch(g, "Freeze") /\ \A k \in Latches \ {"Freeze"} : Latch(g, k) => Latch(c, k)
    BY <1>2 DEF Latch, Latches
  <2> QED BY <1>2, <2>1 DEF Holding, Has
<1>3. /\ DOMAIN d = Fields /\ d.jobs = c.jobs /\ d.ctx = at /\ d.flights = c.flights
      /\ d.connected = c.connected /\ d.newEpoch = c.newEpoch /\ d.applying = c.applying
      /\ d.freezing = FALSE
      /\ d.wakeAfterNeeds = c.wakeAfterNeeds /\ d.waitingPush = c.waitingPush
  BY DEF Holding, Fields
<1> HIDE DEF d, f
<1>4. Holding(d, at, U)
  BY <1>2, <1>3 DEF Latch
<1>5. Holding(Effect(d, f), at, U)
  BY <1>4, EffectHolds
<1>6. /\ DOMAIN e = Fields /\ e.jobs = c.jobs /\ e.ctx = at /\ e.flights = c.flights
      /\ e.connected = c.connected /\ e.newEpoch = c.newEpoch /\ e.applying = c.applying
      /\ e.freezing = FALSE
  BY <1>3 DEF Fields
<1> HIDE DEF e
<1>7. c.wakeAfterNeeds => Latch(c, "Needs")
  BY DEF Latch
<1>8. c.wakeAfterNeeds => Holding(e, at, U)
  BY <1>2, <1>6, <1>7
<1> QED BY <1>1, <1>4, <1>5, <1>8

\* ActivePlans touches only the queue.
LEMMA OnActiveHolds ==
    ASSUME NEW c, NEW at, NEW U, Holding(c, at, U), NEW active
    PROVE  Holding(OnActive(c, active), at, U)
<1> DEFINE d == OnActive(c, active)
<1>1. /\ DOMAIN d = Fields /\ d.jobs = c.jobs /\ d.flights = c.flights
      /\ \A k \in LatchFields : d[k] = c[k]
  BY DEF OnActive, Keep, Holding, Fields, LatchFields
<1> HIDE DEF d
<1>2. Holding(d, at, U)
  BY <1>1, AsideHolds
<1> QED BY <1>2 DEF d

\* Committed, in an unchanged context: a plan's releases its latch, and each is
\* followed by the Needs it will wait for.
LEMMA OnCommittedHolds ==
    ASSUME NEW c, NEW at, NEW U, NEW r, r.st.ctx = at,
           Holding(c, at, IF r.id = 0 THEN U ELSE U \cup {"Apply"})
    PROVE  Holding(OnCommitted(c, r), at, U)
<1> DEFINE V == IF r.id = 0 THEN U ELSE U \cup {"Apply"}
           Foreign(f) == f.kind \in {"Delta", "Owned"} /\ f.ctx # r.st.ctx
           Kept(id, p) == p.ctx = r.st.ctx
           c1 == IF r.st.ctx = c.ctx THEN c ELSE Keep(Drop(c, Foreign), Kept)
           c2 == IF r.id = 0 THEN c1 ELSE OnActive(c1, r.active)
           e2 == [c2 EXCEPT !.ctx = r.st.ctx, !.st = r.st, !.wakeAfterNeeds = TRUE]
           cmd == Cmd("Needs")
           c3 == Job(e2, cmd)
           c4 == IF r.id = 0 THEN c3 ELSE [c3 EXCEPT !.applying = 0]
           c5 == [c4 EXCEPT !.queue[r.id].next = r.next,
                            !.queue[r.id].have = {u \in @ : u >= r.next}]
           Left(id, p) == id # r.id \/ r.next < Units(p)
           c6 == Keep(c5, Left)
<1>1. OnCommitted(c, r) = IF r.id \in DOMAIN c4.queue THEN c6 ELSE c4
  BY DEF OnCommitted
<1>2. c1 = c
  BY DEF Holding
<1> HIDE DEF c1, V
<1>3. Holding(c2, at, V)
  BY <1>2, OnActiveHolds DEF V
<1> HIDE DEF c2
<1>4. /\ DOMAIN e2 = Fields /\ e2.ctx = at /\ e2.flights = c2.flights /\ e2.jobs = c2.jobs
      /\ e2.connected = c2.connected /\ e2.newEpoch = c2.newEpoch
      /\ e2.applying = c2.applying /\ e2.freezing = c2.freezing
  BY <1>3 DEF Holding, Fields
<1> HIDE DEF e2
<1>5. \A k \in Latches \ {"Needs"} : Latch(e2, k) => Latch(c2, k)
  BY <1>4 DEF Latch
<1>6. (e2.connected /\ ~Has(e2, "Retry")) =>
               \A k \in Latches \ {"Needs"} : Latch(e2, k) =>
                   (k \in V /\ e2.newEpoch = FALSE) \/ Gathered(e2.jobs, k)
  BY <1>3, <1>4, <1>5 DEF Holding, Has
<1>7. "Needs" \in Latches /\ Asks(cmd, "Needs")
  BY DEF Latches, Asks, Cmd
<1> HIDE DEF cmd
<1>8. IsSequence(e2.jobs)
  BY <1>3, <1>4 DEF Holding
<1>9. Holding(c3, at, V)
  BY <1>4, <1>6, <1>7, <1>8, LatchedJobHolds
<1> HIDE DEF c3
<1>10. Holding(c4, at, U)
  <2>1. CASE r.id = 0
    BY <2>1, <1>9 DEF V
  <2>2. CASE r.id # 0
    <3> DEFINE g == [c3 EXCEPT !.applying = 0]
    <3>1. c4 = g
      BY <2>2
    <3>2. /\ DOMAIN g = Fields /\ g.ctx = at /\ g.flights = c3.flights /\ g.jobs = c3.jobs
          /\ g.connected = c3.connected /\ g.newEpoch = c3.newEpoch
          /\ g.applying = 0 /\ g.freezing = c3.freezing
          /\ g.wakeAfterNeeds = c3.wakeAfterNeeds /\ g.waitingPush = c3.waitingPush
      BY <1>9 DEF Holding, Fields
    <3> HIDE DEF g, c4
    <3>3. ~Latch(g, "Apply") /\ \A k \in Latches : Latch(g, k) => Latch(c3, k)
      BY <3>2 DEF Latch, Latches
    <3>4. Holding(g, at, U)
      BY <1>9, <3>2, <3>3 DEF Holding, Has, V
    <3> QED BY <3>1, <3>4
  <2> QED BY <2>1, <2>2
<1> HIDE DEF c4
<1>11. Holding(c6, at, U)
  <2>1. /\ DOMAIN c5 = Fields /\ c5.jobs = c4.jobs /\ c5.flights = c4.flights
        /\ \A k \in LatchFields : c5[k] = c4[k]
    BY <1>10 DEF Holding, Fields, LatchFields
  <2> HIDE DEF c5
  <2>2. Holding(c5, at, U)
    BY <1>10, <2>1, AsideHolds
  <2>3. /\ DOMAIN c6 = Fields /\ c6.jobs = c5.jobs /\ c6.flights = c5.flights
        /\ \A k \in LatchFields : c6[k] = c5[k]
    BY <2>1 DEF Keep, Fields, LatchFields
  <2> HIDE DEF c6
  <2> QED BY <2>2, <2>3, AsideHolds
<1> QED BY <1>1, <1>10, <1>11

\* A failed job leaves a retry.
LEMMA OnFailedHolds ==
    ASSUME NEW c, NEW at, NEW U, DOMAIN c = Fields, IsSequence(c.jobs), c.ctx = at
    PROVE  Holding(OnFailed(c), at, U)
<1> DEFINE d == RetirePrefetch(c)
           id == d.applying
           b == [d EXCEPT !.queue[id].blocked = TRUE]
           g == [d EXCEPT !.queue = Restrict(@, DOMAIN @ \ {id})]
           e == IF id \notin DOMAIN d.queue THEN d
                ELSE IF Ordinary(d.queue[id]) THEN b
                ELSE Job(g, Cmd("Needs"))
           f == [e EXCEPT !.applying = 0, !.freezing = FALSE]
           Plainly(h) == DOMAIN h = Fields /\ IsSequence(h.jobs) /\ h.ctx = at
<1>1. OnFailed(c) = Retry(f)
  BY DEF OnFailed
<1>2. Plainly(d)
  BY RetirePrefetchIsNeutral DEF Neutral, LatchFields
<1> HIDE DEF d, id
<1>3. Plainly(b) /\ Plainly(g)
  BY <1>2 DEF Fields
<1> HIDE DEF b, g
<1>4. Plainly(Job(g, Cmd("Needs")))
  BY <1>3, JobIsNeutral DEF Neutral, LatchFields
<1>5. Plainly(e)
  BY <1>2, <1>3, <1>4
<1> HIDE DEF e
<1>6. Plainly(f)
  BY <1>5 DEF Fields
<1> HIDE DEF f
<1> DEFINE p == Plain("Retry")
           w == Effect(f, p)
<1>7. p.kind = "Retry"
  BY DEF Plain
<1>8. PICK n : /\ w.flights = f.flights \cup {[f |-> p, n |-> n]}
               /\ DOMAIN w = Fields
               /\ \A k \in Fields \ {"flights"} : w[k] = f[k]
  <2> HIDE DEF p
  <2> QED BY <1>6, EffectAdds
<1>9. Plainly(w)
  BY <1>6, <1>8 DEF Fields
<1>10. Has(w, "Retry")
  <2> DEFINE y == [f |-> p, n |-> n]
  <2> HIDE DEF w, p
  <2>1. y \in w.flights /\ y.f.kind = "Retry"
    BY <1>7, <1>8
  <2> HIDE DEF y
  <2> QED BY <2>1 DEF Has
<1> HIDE DEF w, p
<1>11. Holding(w, at, U)
  BY <1>9, <1>10 DEF Holding
<1>12. ~f.connected \/ Has(f, "Retry") => Holding(f, at, U)
  BY <1>6 DEF Holding
<1> QED BY <1>1, <1>11, <1>12 DEF Retry, w, p

\* What was under way may count for more.
LEMMA WiderHolds ==
    ASSUME NEW c, NEW at, NEW U, NEW V, Holding(c, at, V), V \cap Latches \subseteq U
    PROVE  Holding(c, at, U)
BY DEF Holding

\* Every report that Control accepts: V counts it among what is under way, U does not.
LEMMA OnReportHolds ==
    ASSUME NEW c, NEW at, NEW U, NEW V, NEW rep, Holding(c, at, V),
           V \subseteq U \cup {k \in Latches : Answers(rep, k)},
           rep.kind \in ReportKinds,
           rep.kind = "Committed" => rep.st.ctx = at,
           rep.kind = "Snapshot" /\ rep.st.ctx.store = at.store => rep.st.ctx = at
    PROVE  \/ Holding(OnReport(c, rep), at, U)
           \/ /\ rep.kind = "Snapshot" /\ Holding(OnReport(c, rep), rep.st.ctx, U)
              /\ OnReport(c, rep).newEpoch = TRUE
<1>1. CASE rep.kind = "Snapshot"
  <2> DEFINE d == OnSnapshot(c, rep.st)
  <2>1. OnReport(c, rep) = Schedule(d)
    BY <1>1 DEF OnReport
  <2>2. V \cap Latches \subseteq U
    BY <1>1 DEF Answers
  <2>3. Holding(c, at, U)
    BY <2>2, WiderHolds
  <2>4. Holding(d, rep.st.ctx, U) /\ (rep.st.ctx = at \/ d.newEpoch = TRUE)
    BY <1>1, <2>3, OnSnapshotHolds
  <2> HIDE DEF d
  <2>5. Holding(Schedule(d), rep.st.ctx, U)
    BY <2>4, ScheduleHolds
  <2>6. Schedule(d).newEpoch = d.newEpoch
    BY <2>4, ScheduleKeepsEpoch DEF Holding
  <2> QED BY <1>1, <2>1, <2>4, <2>5, <2>6
<1>2. CASE rep.kind = "Needs"
  <2>1. OnReport(c, rep) = Schedule(OnNeeds(c, rep))
    BY <1>2 DEF OnReport
  <2>2. V \cap Latches \subseteq U \cup {"Needs"}
    BY <1>2 DEF Answers
  <2>3. Holding(OnNeeds(c, rep), at, U)
    BY <2>2, WiderHolds, OnNeedsHolds
  <2> QED BY <2>1, <2>3, ScheduleHolds
<1>3. CASE rep.kind = "Frozen"
  <2>1. OnReport(c, rep) = Schedule(OnFrozen(c, rep.batch))
    BY <1>3 DEF OnReport
  <2>2. V \cap Latches \subseteq U \cup {"Freeze"}
    BY <1>3 DEF Answers
  <2>3. Holding(OnFrozen(c, rep.batch), at, U)
    BY <2>2, WiderHolds, OnFrozenHolds
  <2> QED BY <2>1, <2>3, ScheduleHolds
<1>4. CASE rep.kind = "ActivePlans"
  <2>1. OnReport(c, rep) = Schedule(OnActive(c, rep.active))
    BY <1>4 DEF OnReport
  <2>2. V \cap Latches \subseteq U
    BY <1>4 DEF Answers
  <2>3. Holding(OnActive(c, rep.active), at, U)
    BY <2>2, WiderHolds, OnActiveHolds
  <2> QED BY <2>1, <2>3, ScheduleHolds
<1>5. CASE rep.kind = "Committed"
  <2>1. OnReport(c, rep) = Schedule(OnCommitted(c, rep))
    BY <1>5 DEF OnReport
  <2> DEFINE W == IF rep.id = 0 THEN U ELSE U \cup {"Apply"}
  <2>2. V \cap Latches \subseteq W
    BY <1>5 DEF Answers
  <2>3. Holding(c, at, W)
    <3> HIDE DEF W
    <3> QED BY <2>2, WiderHolds
  <2>4. Holding(OnCommitted(c, rep), at, U)
    BY <1>5, <2>3, OnCommittedHolds
  <2> QED BY <2>1, <2>4, ScheduleHolds
<1>6. CASE rep.kind = "Failed"
  <2>1. OnReport(c, rep) = OnFailed(c)
    BY <1>6 DEF OnReport
  <2>2. Holding(OnFailed(c), at, U)
    BY OnFailedHolds DEF Holding
  <2> QED BY <2>1, <2>2
<1> QED BY <1>1, <1>2, <1>3, <1>4, <1>5, <1>6 DEF ReportKinds

----------------------------------------------------------------------------
\* Where the elements of a sequence are after a tail and after a concatenation.
LEMMA TailPlaces ==
    ASSUME NEW s, IsSequence(s), s # <<>>
    PROVE  /\ IsSequence(Tail(s)) /\ 1 \in DOMAIN s /\ Head(s) = s[1]
           /\ \A i \in DOMAIN Tail(s) : i \in Nat /\ i + 1 \in DOMAIN s /\ Tail(s)[i] = s[i + 1]
           /\ \A j \in DOMAIN s : j # 1 => j - 1 \in DOMAIN Tail(s) /\ Tail(s)[j - 1] = s[j]
<1> DEFINE S == {s[i] : i \in DOMAIN s}
<1>1. s \in Seq(S) /\ s # <<>>
  BY DEF IsSequence
<1>2. /\ Tail(s) \in Seq(S) /\ Len(Tail(s)) = Len(s) - 1 /\ Len(s) \in Nat /\ Len(s) >= 1
      /\ DOMAIN s = 1..Len(s) /\ DOMAIN Tail(s) = 1..(Len(s) - 1)
  BY <1>1
<1>3. \A i \in DOMAIN Tail(s) : Tail(s)[i] = s[i + 1] /\ i + 1 \in DOMAIN s /\ i \in Nat
  BY <1>1, <1>2
<1>4. \A j \in DOMAIN s : j # 1 => j - 1 \in DOMAIN Tail(s) /\ (j - 1) + 1 = j
  BY <1>2
<1> QED BY <1>3, <1>4, TailIsASeq

Joined(u, s, t) ==
    /\ \A i \in DOMAIN s : i \in DOMAIN u /\ u[i] = s[i]
    /\ \A i \in DOMAIN t : \E j \in DOMAIN u : u[j] = t[i]
    /\ \A j \in DOMAIN u : \/ \E i \in DOMAIN s : u[j] = s[i]
                           \/ \E i \in DOMAIN t : u[j] = t[i]
LEMMA ConcatPlaces ==
    ASSUME NEW s, NEW t, NEW u, IsSequence(s), IsSequence(t), u = s \o t
    PROVE  Joined(u, s, t)
<1>1. /\ DOMAIN u = 1..(Len(s) + Len(t))
      /\ \A i \in 1..Len(s) : u[i] = s[i]
      /\ \A i \in 1..Len(t) : u[Len(s) + i] = t[i]
  BY ConcatIsASeq
<1>2. Len(s) \in Nat /\ Len(t) \in Nat /\ DOMAIN s = 1..Len(s) /\ DOMAIN t = 1..Len(t)
  BY IsASeqFacts
<1>3. \A i \in DOMAIN s : i \in DOMAIN u /\ u[i] = s[i]
  BY <1>1, <1>2
<1>4. \A i \in DOMAIN t : Len(s) + i \in DOMAIN u /\ u[Len(s) + i] = t[i]
  BY <1>1, <1>2
<1>5. ASSUME NEW j \in DOMAIN u, ~\E i \in DOMAIN s : u[j] = s[i]
      PROVE  \E i \in DOMAIN t : u[j] = t[i]
  <2>1. j \in 1..(Len(s) + Len(t)) /\ j \notin 1..Len(s)
    BY <1>1, <1>2, <1>3, <1>5
  <2>2. j - Len(s) \in DOMAIN t /\ Len(s) + (j - Len(s)) = j
    BY <1>2, <2>1
  <2> QED BY <1>4, <2>2
<1> QED BY <1>3, <1>4, <1>5 DEF Joined

\* The contexts of a Store whose read contract does not change.
Contexts == {[store |-> s, mat |-> 0] : s \in {0, 1}}

\* A fence of the current epoch is Control's context, and what a report says of the
\* Store is what its fence says.
ReportFenced(r, at) ==
    /\ r.ctx \in Contexts
    /\ r.guarded /\ ~r.old => r.ctx = at
    /\ ~r.guarded => r.rep.kind = "Snapshot"
    /\ r.rep.kind \in {"Snapshot", "Committed"} => r.rep.st.ctx = r.ctx
MailFenced(q, at) == \A i \in DOMAIN q : ~q[i].old => q[i].ctx = at
ReportsFenced(q, at) == \A i \in DOMAIN q : ReportFenced(q[i], at)

\* The unguarded Snapshots, oldest first, between Control and the Store.
InOrder(q, first, last) ==
    /\ \A i \in DOMAIN q : ~q[i].guarded => first <= q[i].ctx.store /\ q[i].ctx.store <= last
    /\ \A i, j \in DOMAIN q : i < j /\ ~q[i].guarded /\ ~q[j].guarded =>
                                  q[i].ctx.store <= q[j].ctx.store

Fenced ==
    /\ store.ctx \in Contexts /\ store.desired = 0
    /\ ctl.ctx \in Contexts /\ ctl.ctx.store <= store.ctx.store
    /\ MailFenced(mail, ctl.ctx)
    /\ ReportsFenced(reports, ctl.ctx)
    /\ InOrder(reports, ctl.ctx.store, store.ctx.store)

\* The kinds of work under way: all of them before Control has heard of a reset.
Posted(q, k) == \E i \in DOMAIN q : ~q[i].old /\ Asks(q[i].cmd, k)
Replied(q, k) == \E i \in DOMAIN q : q[i].guarded /\ ~q[i].old /\ Answers(q[i].rep, k)
Under(q, r, apart) == {k \in Latches : apart \/ Posted(q, k) \/ Replied(r, k)}
Apart == ctl.ctx.store # store.ctx.store

LatchInv ==
    /\ Fenced
    /\ ctl.jobs = <<>> /\ ctl.newEpoch = FALSE
    /\ Holding(ctl, ctl.ctx, Under(mail, reports, Apart))

\* The end of a turn.
LEMMA TurnLatches ==
    ASSUME MailOk(mail), ReportsOk(reports), Fenced, NEW c, NEW rest, ReportsOk(rest), NEW at,
           at \in Contexts, at.store <= store.ctx.store,
           Holding(c, at, Under(mail, rest, Apart)), at = ctl.ctx \/ c.newEpoch = TRUE,
           ReportsFenced(rest, ctl.ctx), InOrder(rest, at.store, store.ctx.store),
           Turn(c, rest), store' = store
    PROVE  LatchInv'
<1> DEFINE aged == [i \in DOMAIN mail |-> [mail[i] EXCEPT !.old = @ \/ c.newEpoch]]
           told == [i \in DOMAIN rest |-> [rest[i] EXCEPT !.old = @ \/ c.newEpoch]]
           sent == [i \in DOMAIN c.jobs |-> [old |-> FALSE, ctx |-> c.ctx, cmd |-> c.jobs[i]]]
<1>1. /\ ctl' = [c EXCEPT !.jobs = <<>>, !.newEpoch = FALSE]
      /\ mail' = aged \o sent
      /\ reports' = told
  BY DEF Turn
<1>2. /\ DOMAIN ctl' = Fields /\ ctl'.ctx = at /\ ctl'.flights = c.flights /\ ctl'.jobs = <<>>
      /\ ctl'.newEpoch = FALSE /\ ctl'.connected = c.connected
      /\ ctl'.applying = c.applying /\ ctl'.freezing = c.freezing
      /\ ctl'.wakeAfterNeeds = c.wakeAfterNeeds /\ ctl'.waitingPush = c.waitingPush
  BY <1>1 DEF Holding, Fields
<1>3. DOMAIN c = Fields /\ IsSequence(c.jobs) /\ c.ctx = at
  BY DEF Holding
<1>4. /\ DOMAIN aged = DOMAIN mail
      /\ \A i \in DOMAIN mail : /\ aged[i].old = (mail[i].old \/ c.newEpoch)
                                /\ aged[i].ctx = mail[i].ctx /\ aged[i].cmd = mail[i].cmd
  BY DEF MailOk, LetterOk
<1>5. /\ DOMAIN told = DOMAIN rest
      /\ \A i \in DOMAIN rest : /\ told[i].old = (rest[i].old \/ c.newEpoch)
                                /\ told[i].ctx = rest[i].ctx /\ told[i].rep = rest[i].rep
                                /\ told[i].guarded = rest[i].guarded
  BY DEF ReportsOk, ReportOk
<1>6. /\ DOMAIN sent = DOMAIN c.jobs
      /\ \A i \in DOMAIN c.jobs : /\ sent[i].old = FALSE /\ sent[i].ctx = at
                                  /\ sent[i].cmd = c.jobs[i]
  BY <1>3
<1>7. IsSequence(aged) /\ IsSequence(sent)
  <2>1. IsSequence(mail)
    BY DEF MailOk
  <2>2. IsSequence(aged)
    BY <2>1, MapIsASeq
  <2>3. IsSequence(sent)
    BY <1>3, MapIsASeq
  <2> QED BY <2>2, <2>3
<1> HIDE DEF aged, told, sent
<1>8. /\ \A i \in DOMAIN aged : i \in DOMAIN mail' /\ mail'[i] = aged[i]
      /\ \A i \in DOMAIN sent : \E j \in DOMAIN mail' : mail'[j] = sent[i]
      /\ \A j \in DOMAIN mail' : \/ \E i \in DOMAIN aged : mail'[j] = aged[i]
                                 \/ \E i \in DOMAIN sent : mail'[j] = sent[i]
  <2>1. mail' = aged \o sent
    BY <1>1
  <2>2. Joined(mail', aged, sent)
    BY <1>7, <2>1, ConcatPlaces, Zenon
  <2> QED BY <2>2 DEF Joined
<1>9. MailFenced(mail', at)
  <2> SUFFICES ASSUME NEW j \in DOMAIN mail', ~mail'[j].old PROVE mail'[j].ctx = at
    BY DEF MailFenced
  <2>1. CASE \E i \in DOMAIN sent : mail'[j] = sent[i]
    BY <2>1, <1>6
  <2>2. CASE \E i \in DOMAIN aged : mail'[j] = aged[i]
    <3>1. PICK i \in DOMAIN mail : mail'[j] = aged[i]
      BY <2>2, <1>4
    <3>2. ~mail[i].old /\ ~c.newEpoch /\ mail'[j].ctx = mail[i].ctx
      BY <3>1, <1>4
    <3>3. mail[i].ctx = ctl.ctx
      BY <3>2 DEF Fenced, MailFenced
    <3> QED BY <3>2, <3>3
  <2> QED BY <2>1, <2>2, <1>8
<1>10. ReportsFenced(told, at)
  <2> SUFFICES ASSUME NEW i \in DOMAIN rest PROVE ReportFenced(told[i], at)
    BY <1>5 DEF ReportsFenced
  <2>1. ReportFenced(rest[i], ctl.ctx)
    BY DEF ReportsFenced
  <2>2. ~told[i].old => ~rest[i].old /\ at = ctl.ctx
    BY <1>5
  <2> QED BY <1>5, <2>1, <2>2 DEF ReportFenced
<1>11. InOrder(told, at.store, store.ctx.store)
  BY <1>5 DEF InOrder
<1>12. Fenced'
  BY <1>1, <1>2, <1>9, <1>10, <1>11 DEF Fenced
<1>13. ASSUME NEW k \in Latches, c.connected, ~Has(c, "Retry"), Latch(c, k)
       PROVE  Apart' \/ Posted(mail', k) \/ Replied(reports', k)
  <2>1. CASE Gathered(c.jobs, k)
    <3>1. PICK i \in DOMAIN c.jobs : Asks(c.jobs[i], k)
      BY <2>1 DEF Gathered
    <3>2. PICK j \in DOMAIN mail' : mail'[j] = sent[i]
      BY <3>1, <1>6, <1>8
    <3>3. ~mail'[j].old /\ mail'[j].cmd = c.jobs[i]
      BY <3>1, <3>2, <1>6
    <3> QED BY <3>1, <3>2, <3>3 DEF Posted
  <2>2. CASE k \in Under(mail, rest, Apart) /\ c.newEpoch = FALSE
    <3>1. at = ctl.ctx
      BY <2>2
    <3>2. CASE Apart
      BY <3>1, <3>2, <1>2 DEF Apart
    <3>3. CASE Posted(mail, k)
      <4>1. PICK i \in DOMAIN mail : ~mail[i].old /\ Asks(mail[i].cmd, k)
        BY <3>3 DEF Posted
      <4>2. i \in DOMAIN mail' /\ ~mail'[i].old /\ mail'[i].cmd = mail[i].cmd
        BY <4>1, <1>4, <1>8, <2>2
      <4> QED BY <4>1, <4>2 DEF Posted
    <3>4. CASE Replied(rest, k)
      <4>1. PICK i \in DOMAIN rest : rest[i].guarded /\ ~rest[i].old /\ Answers(rest[i].rep, k)
        BY <3>4 DEF Replied
      <4>2. i \in DOMAIN told /\ ~told[i].old /\ told[i].rep = rest[i].rep /\ told[i].guarded
        BY <4>1, <1>5, <2>2
      <4> QED BY <4>1, <4>2, <1>1 DEF Replied
    <3> QED BY <2>2, <3>2, <3>3, <3>4 DEF Under
  <2> QED BY <1>13, <2>1, <2>2 DEF Holding
<1>14. \A k \in Latches : Latch(ctl', k) => Latch(c, k)
  BY <1>2 DEF Latch
<1> DEFINE d == ctl'
           W == Under(mail', reports', Apart')
<1>15. (d.connected /\ ~Has(d, "Retry")) =>
          \A k \in Latches : Latch(d, k) => k \in W
  BY <1>2, <1>13, <1>14 DEF Under, Has
<1> HIDE DEF W
<1>16. Holding(d, at, W)
  BY <1>2, <1>15, EmptyIsASeq DEF Holding
<1> QED BY <1>2, <1>12, <1>16 DEF LatchInv, W

\* A turn of the network or of a timer stays in Control's context.
LEMMA NetTurnLatches ==
    ASSUME ControlInv, LatchInv, NEW c, NetTurn(c),
           Holding(c, ctl.ctx, Under(mail, reports, Apart))
    PROVE  LatchInv'
<1>1. Turn(c, reports) /\ store' = store
  BY DEF NetTurn
<1>2. MailOk(mail) /\ ReportsOk(reports) /\ Fenced
  BY DEF ControlInv, LatchInv
<1>3. /\ ctl.ctx \in Contexts /\ ctl.ctx.store <= store.ctx.store
      /\ ReportsFenced(reports, ctl.ctx) /\ InOrder(reports, ctl.ctx.store, store.ctx.store)
  BY <1>2 DEF Fenced
<1> QED BY <1>1, <1>2, <1>3, TurnLatches

\* An answered flight that is no retry.
LEMMA LandedHolds ==
    ASSUME NEW x, NEW U, Holding(ctl, ctl.ctx, U), x.f.kind # "Retry"
    PROVE  /\ Holding(Landed(x), ctl.ctx, U)
           /\ \A k \in Fields \ {"flights"} : Landed(x)[k] = ctl[k]
<1> DEFINE d == Landed(x)
<1>1. /\ DOMAIN d = Fields /\ d.flights = ctl.flights \ {x}
      /\ \A k \in Fields \ {"flights"} : d[k] = ctl[k]
  BY DEF Landed, Holding, Fields
<1> HIDE DEF d
<1>2. d.jobs = ctl.jobs /\ \A k \in LatchFields : d[k] = ctl[k]
  BY <1>1 DEF Fields, LatchFields
<1>3. \A y \in ctl.flights : y.f.kind = "Retry" => y \in d.flights
  BY <1>1
<1>4. Holding(d, ctl.ctx, U)
  BY <1>1, <1>2, <1>3, AsideHolds
<1> QED BY <1>1, <1>4 DEF d

\* connect, stop and wake.
LEMMA HostLatches ==
    ASSUME ControlInv, LatchInv, HostStep
    PROVE  LatchInv'
<1> DEFINE U == Under(mail, reports, Apart)
<1>1. Holding(ctl, ctl.ctx, U)
  BY DEF LatchInv
<1> HIDE DEF U
<1>2. Holding(Connect(ctl), ctl.ctx, U) /\ Holding(Stop(ctl), ctl.ctx, U)
  BY <1>1, ConnectHolds, StopHolds DEF Holding
<1>3. Holding(Wake(ctl), ctl.ctx, U)
  BY <1>1, WakeHolds
<1>4. NetTurn(Connect(ctl)) \/ NetTurn(Stop(ctl)) \/ NetTurn(Wake(ctl))
  BY DEF HostStep, HostConnect, HostReconnect, HostStop, HostWake
<1> QED BY <1>2, <1>3, <1>4, NetTurnLatches DEF U

\* An effect fails, waits for credentials or is refused.
LEMMA UpsetLatches ==
    ASSUME ControlInv, LatchInv, Upset
    PROVE  LatchInv'
<1> DEFINE U == Under(mail, reports, Apart)
<1>1. Holding(ctl, ctl.ctx, U)
  BY DEF LatchInv
<1> HIDE DEF U
<1>2. PICK x \in ctl.flights : EffectFails(x) \/ Unauthorized(x) \/ Refused(x)
  BY DEF Upset
<1> DEFINE d == Landed(x)
           e == [d EXCEPT !.refreshing = FALSE, !.waiters = <<>>]
           g == [d EXCEPT !.waiters = Append(@, x.f), !.refreshing = TRUE]
<1>3. /\ EffectFails(x) => x.f.kind # "Retry" /\ (NetTurn(Retry(e)) \/ NetTurn(Retry(d)))
      /\ Unauthorized(x) => /\ x.f.kind # "Retry"
                            /\ NetTurn(g) \/ NetTurn(Effect(g, Plain("Refresh")))
      /\ Refused(x) => NetTurn(Stop(ctl))
  BY DEF EffectFails, Unauthorized, Refused, Carriers
<1>4. CASE Refused(x)
  <2>1. Holding(Stop(ctl), ctl.ctx, U)
    BY <1>1, StopHolds DEF Holding
  <2> QED BY <1>3, <1>4, <2>1, NetTurnLatches DEF U
<1>5. CASE x.f.kind # "Retry" /\ ~Refused(x)
  <2>1. Holding(d, ctl.ctx, U)
    BY <1>1, <1>5, LandedHolds
  <2> HIDE DEF d
  <2>2. /\ DOMAIN e = Fields /\ e.jobs = d.jobs /\ e.flights = d.flights
        /\ \A k \in LatchFields : e[k] = d[k]
    BY <2>1 DEF Holding, Fields, LatchFields
  <2>3. /\ DOMAIN g = Fields /\ g.jobs = d.jobs /\ g.flights = d.flights
        /\ \A k \in LatchFields : g[k] = d[k]
    BY <2>1 DEF Holding, Fields, LatchFields
  <2> HIDE DEF e, g
  <2>4. Holding(e, ctl.ctx, U) /\ Holding(g, ctl.ctx, U)
    BY <2>1, <2>2, <2>3, AsideHolds
  <2>5. Holding(Retry(e), ctl.ctx, U) /\ Holding(Retry(d), ctl.ctx, U)
    BY <2>1, <2>4, RetryHolds
  <2>6. Holding(Effect(g, Plain("Refresh")), ctl.ctx, U)
    BY <2>4, EffectHolds
  <2>7. \/ NetTurn(Retry(e)) \/ NetTurn(Retry(d)) \/ NetTurn(g)
        \/ NetTurn(Effect(g, Plain("Refresh")))
    BY <1>2, <1>3, <1>5
  <2> HIDE DEF Retry
  <2> QED BY <2>4, <2>5, <2>6, <2>7, NetTurnLatches DEF U
<1> QED BY <1>2, <1>3, <1>4, <1>5

\* The waiters are sent again, each an effect or a handshake.
LEMMA ResentHolds ==
    ASSUME NEW c, NEW at, NEW U, Holding(c, at, U), NEW waiting, IsSequence(waiting)
    PROVE  Holding(Resent(c, waiting), at, U)
<1>1. Len(waiting) \in Nat
  BY IsASeqFacts
<1>2. PICK after :
             /\ after = [n \in 0..Len(waiting) |->
                           IF n = 0 THEN c ELSE Resend(after[n - 1], waiting[n])]
             /\ Resent(c, waiting) = after[Len(waiting)]
  BY ResentIsDefined
<1> DEFINE Bad == {n \in 0..Len(waiting) : ~Holding(after[n], at, U)}
<1>3. Bad = {}
  <2> SUFFICES ASSUME Bad # {} PROVE FALSE
    OBVIOUS
  <2>1. PICK m \in Bad : \A k \in Bad : m <= k
    <3>1. Bad \subseteq Nat
      BY <1>1
    <3> HIDE DEF Bad
    <3> QED BY <3>1, LeastNatural
  <2>2. CASE m = 0
    <3>1. after[0] = c
      BY <1>1, <1>2
    <3> QED BY <2>1, <2>2, <3>1
  <2>3. CASE m # 0
    <3>1. m \in 0..Len(waiting) /\ m - 1 \in 0..Len(waiting) /\ m - 1 \notin Bad
      BY <2>1, <2>3, <1>1
    <3>2. Holding(after[m - 1], at, U)
      BY <3>1
    <3>3. after[m] = Resend(after[m - 1], waiting[m])
      <4> HIDE DEF Bad
      <4> QED BY <1>2, <3>1, <2>3
    <3> DEFINE d == after[m - 1]
               f == waiting[m]
    <3> HIDE DEF d, f
    <3>4. Holding(Effect(d, f), at, U)
      BY <3>2, EffectHolds DEF d
    <3>5. Holding(Handshake(d), at, U)
      BY <3>2, HandshakeHolds DEF d, Holding
    <3>6. Resend(d, f) \in {Effect(d, f), Handshake(d)}
      BY DEF Resend
    <3>7. Holding(after[m], at, U)
      BY <3>3, <3>4, <3>5, <3>6 DEF d, f
    <3> QED BY <3>7, <2>1
  <2> QED BY <2>2, <2>3
<1>4. Len(waiting) \in 0..Len(waiting)
  BY <1>1
<1>5. Holding(after[Len(waiting)], at, U)
  BY <1>3, <1>4
<1> QED BY <1>2, <1>5

\* A refresh succeeds.
LEMMA RefreshedLatches ==
    ASSUME ControlInv, LatchInv, NEW x, x.f.kind = "Refresh", Refreshed(x)
    PROVE  LatchInv'
<1> DEFINE U == Under(mail, reports, Apart)
           d == Landed(x)
           c == [d EXCEPT !.refreshing = FALSE, !.waiters = <<>>]
<1>1. NetTurn(Resent(c, ctl.waiters))
  BY DEF Refreshed
<1>2. Holding(ctl, ctl.ctx, U)
  BY DEF LatchInv
<1> HIDE DEF U
<1>3. Holding(d, ctl.ctx, U)
  BY <1>2, LandedHolds
<1> HIDE DEF d
<1>4. /\ DOMAIN c = Fields /\ c.jobs = d.jobs /\ c.flights = d.flights
      /\ \A k \in LatchFields : c[k] = d[k]
  BY <1>3 DEF Holding, Fields, LatchFields
<1> HIDE DEF c
<1>5. Holding(c, ctl.ctx, U)
  BY <1>3, <1>4, AsideHolds
<1>6. IsSequence(ctl.waiters)
  BY DEF ControlInv, Sound, WaitersOk
<1>7. Holding(Resent(c, ctl.waiters), ctl.ctx, U)
  BY <1>5, <1>6, ResentHolds
<1> QED BY <1>1, <1>7, NetTurnLatches DEF U

\* The retry clears what it was to release.
LEMMA RetryLatches ==
    ASSUME ControlInv, LatchInv, NEW x, RetryFires(x)
    PROVE  LatchInv'
<1> DEFINE U == Under(mail, reports, Apart)
           d == Landed(x)
           c == [d EXCEPT !.queue = [id \in DOMAIN @ |-> [@[id] EXCEPT !.blocked = FALSE]]]
<1>1. NetTurn(Handshake(c))
  BY DEF RetryFires
<1>2. DOMAIN ctl = Fields /\ IsSequence(ctl.jobs)
  BY DEF LatchInv, Holding
<1>3. DOMAIN d = Fields /\ d.jobs = ctl.jobs /\ d.ctx = ctl.ctx
  BY <1>2 DEF Landed, Fields
<1> HIDE DEF d
<1>4. DOMAIN c = Fields /\ c.jobs = ctl.jobs /\ c.ctx = ctl.ctx
  BY <1>3 DEF Fields
<1> HIDE DEF c, U
<1>5. Holding(Handshake(c), ctl.ctx, U)
  BY <1>2, <1>4, HandshakeHolds
<1> QED BY <1>1, <1>5, NetTurnLatches DEF U

\* The expiry timer, an answered handshake, the socket.
LEMMA TimerLatches ==
    ASSUME ControlInv, LatchInv, NEW x, NEW gone, NEW h,
           \/ x.f.kind = "Expire" /\ ExpireFires(x, gone)
           \/ x.f.kind = "Handshake" /\ HandshakeAnswered(x, h)
           \/ x.f.kind = "Socket" /\ (SocketOpened(x) \/ SocketClosed(x))
    PROVE  LatchInv'
<1> DEFINE U == Under(mail, reports, Apart)
           l == Landed(x)
<1>1. Holding(ctl, ctl.ctx, U)
  BY DEF LatchInv
<1> HIDE DEF U
<1>2. Holding(l, ctl.ctx, U)
  BY <1>1, LandedHolds
<1>3. CASE ExpireFires(x, gone)
  <2> DEFINE cleanup == [kind |-> "Cleanup", gone |-> gone]
             Left(id, p) == id \notin gone
             c == Job(l, cleanup)
             d == Keep(c, Left)
  <2>1. NetTurn(Schedule(IF d.queue = c.queue THEN d ELSE Job(d, cleanup)))
    BY <1>3 DEF ExpireFires
  <2> HIDE DEF l, cleanup
  <2>2. Holding(c, ctl.ctx, U)
    BY <1>2, JobHolds
  <2> HIDE DEF c
  <2>3. /\ DOMAIN d = Fields /\ d.jobs = c.jobs /\ d.flights = c.flights
        /\ \A k \in LatchFields : d[k] = c[k]
    BY <2>2 DEF Keep, Holding, Fields, LatchFields
  <2> HIDE DEF d
  <2>4. Holding(d, ctl.ctx, U) /\ Holding(Job(d, cleanup), ctl.ctx, U)
    BY <2>2, <2>3, AsideHolds, JobHolds
  <2> DEFINE e == IF d.queue = c.queue THEN d ELSE Job(d, cleanup)
  <2>5. Holding(e, ctl.ctx, U)
    BY <2>4
  <2> HIDE DEF e
  <2>6. Holding(Schedule(e), ctl.ctx, U)
    BY <2>5, ScheduleHolds
  <2> QED BY <2>1, <2>6, NetTurnLatches DEF U, e
<1>4. CASE HandshakeAnswered(x, h)
  <2> DEFINE c == [l EXCEPT !.dhead = Later(@, h)]
             cmd == [kind |-> "Initialize", head |-> h]
  <2>1. NetTurn(Effect(Job(c, cmd), Socket(FALSE)))
    BY <1>4 DEF HandshakeAnswered
  <2> HIDE DEF l, cmd
  <2>2. /\ DOMAIN c = Fields /\ c.jobs = l.jobs /\ c.flights = l.flights
        /\ \A k \in LatchFields : c[k] = l[k]
    BY <1>2 DEF Holding, Fields, LatchFields
  <2> HIDE DEF c
  <2>3. Holding(c, ctl.ctx, U)
    BY <1>2, <2>2, AsideHolds
  <2>4. Holding(Effect(Job(c, cmd), Socket(FALSE)), ctl.ctx, U)
    BY <2>3, JobHolds, EffectHolds
  <2> QED BY <2>1, <2>4, NetTurnLatches DEF U
<1>5. CASE SocketOpened(x)
  <2> DEFINE c == [l EXCEPT !.live = TRUE]
  <2>1. NetTurn(Schedule(Effect(c, Socket(TRUE))))
    BY <1>5 DEF SocketOpened
  <2> HIDE DEF l
  <2>2. /\ DOMAIN c = Fields /\ c.jobs = l.jobs /\ c.flights = l.flights
        /\ \A k \in LatchFields : c[k] = l[k]
    BY <1>2 DEF Holding, Fields, LatchFields
  <2> HIDE DEF c
  <2>3. Holding(c, ctl.ctx, U)
    BY <1>2, <2>2, AsideHolds
  <2>4. Holding(Schedule(Effect(c, Socket(TRUE))), ctl.ctx, U)
    BY <2>3, EffectHolds, ScheduleHolds
  <2> QED BY <2>1, <2>4, NetTurnLatches DEF U
<1>6. CASE SocketClosed(x)
  <2> DEFINE c == [l EXCEPT !.live = FALSE]
             Left(id, p) == ~Ordinary(p) \/ Complete(p)
             d == Keep(c, Left)
  <2>1. NetTurn(Retry(Schedule(d)))
    BY <1>6 DEF SocketClosed
  <2> HIDE DEF l
  <2>2. /\ DOMAIN c = Fields /\ c.jobs = l.jobs /\ c.flights = l.flights
        /\ \A k \in LatchFields : c[k] = l[k]
    BY <1>2 DEF Holding, Fields, LatchFields
  <2> HIDE DEF c
  <2>3. Holding(c, ctl.ctx, U)
    BY <1>2, <2>2, AsideHolds
  <2>4. /\ DOMAIN d = Fields /\ d.jobs = c.jobs /\ d.flights = c.flights
        /\ \A k \in LatchFields : d[k] = c[k]
    BY <2>3 DEF Keep, Holding, Fields, LatchFields
  <2> HIDE DEF d
  <2>5. Holding(Retry(Schedule(d)), ctl.ctx, U)
    BY <2>3, <2>4, AsideHolds, ScheduleHolds, RetryHolds
  <2> QED BY <2>1, <2>5, NetTurnLatches DEF U
<1> QED BY <1>3, <1>4, <1>5, <1>6

\* A page, a transfer or the answer of a Push arrives.
LEMMA AnswerLatches ==
    ASSUME ControlInv, LatchInv, NEW x, NEW id, NEW through, NEW observed, NEW evicted,
           NEW fits, NEW published, NEW need, x.f.kind \in {"Delta", "Owned", "Push"},
           \/ DeltaAnswered(x, id, through, observed, evicted, fits)
           \/ OwnedAnswered(x, id)
           \/ PushAnswered(x, published, need) \/ PushLost(x, published, need)
           \/ PushSuperseded(x)
    PROVE  LatchInv'
<1> DEFINE U == Under(mail, reports, Apart)
           l == Landed(x)
<1>1. Holding(ctl, ctl.ctx, U)
  BY DEF LatchInv
<1> HIDE DEF U
<1>2. Holding(l, ctl.ctx, U)
  BY <1>1, LandedHolds
<1>3. Holding(Retry(l), ctl.ctx, U)
  BY <1>2, RetryHolds
<1>4. CASE DeltaAnswered(x, id, through, observed, evicted, fits)
  <2> DEFINE p == WholePage(x.f.boot, x.f.after, through, x.f.ctx)
             c == [l EXCEPT !.dhead = Later(@, observed)]
             a == Admit(c, id, p, evicted, fits)
             e == [c EXCEPT !.prefetch = FALSE]
  <2>1. \/ NetTurn(Retry(l)) \/ NetTurn(Schedule(a.c)) \/ NetTurn(Schedule(e))
        \/ NetTurn(Retry(a.c))
    BY <1>4 DEF DeltaAnswered
  <2> HIDE DEF l, p
  <2>2. /\ DOMAIN c = Fields /\ c.jobs = l.jobs /\ c.flights = l.flights
        /\ \A k \in LatchFields : c[k] = l[k]
    BY <1>2 DEF Holding, Fields, LatchFields
  <2> HIDE DEF c
  <2>3. Holding(c, ctl.ctx, U)
    BY <1>2, <2>2, AsideHolds
  <2>4. /\ DOMAIN e = Fields /\ e.jobs = c.jobs /\ e.flights = c.flights
        /\ \A k \in LatchFields : e[k] = c[k]
    BY <2>3 DEF Holding, Fields, LatchFields
  <2> HIDE DEF e
  <2>5. Holding(e, ctl.ctx, U) /\ Holding(a.c, ctl.ctx, U)
    BY <2>3, <2>4, AsideHolds, AdmitHolds
  <2> HIDE DEF a
  <2>6. /\ Holding(Schedule(a.c), ctl.ctx, U) /\ Holding(Schedule(e), ctl.ctx, U)
        /\ Holding(Retry(a.c), ctl.ctx, U)
    BY <2>5, ScheduleHolds, RetryHolds
  <2> HIDE DEF Retry, Schedule
  <2> QED BY <1>3, <2>1, <2>6, NetTurnLatches DEF U
<1>5. CASE OwnedAnswered(x, id)
  <2> DEFINE p == [owner |-> x.f.owner, boot |-> FALSE, after |-> None, through |-> None,
                   ctx |-> x.f.ctx, have |-> {0}, next |-> 0, blocked |-> FALSE,
                   held |-> x.f.held]
             a == Admit(l, id, p, {}, TRUE)
  <2>1. NetTurn(Retry(l)) \/ NetTurn(Schedule(a.c))
    BY <1>5 DEF OwnedAnswered
  <2> HIDE DEF l, p
  <2>2. Holding(a.c, ctl.ctx, U)
    BY <1>2, AdmitHolds
  <2> HIDE DEF a
  <2>3. Holding(Schedule(a.c), ctl.ctx, U)
    BY <2>2, ScheduleHolds
  <2> QED BY <1>3, <2>1, <2>3, NetTurnLatches DEF U, l
<1>6. CASE \/ PushAnswered(x, published, need) \/ PushLost(x, published, need)
           \/ PushSuperseded(x)
  <2> DEFINE cmd == [kind |-> "Acknowledge", receipt |-> done'[x.f.store]]
  <2>1. NetTurn(Job(l, cmd)) \/ NetTurn(Retry(l))
    BY <1>6 DEF PushAnswered, PushLost, PushSuperseded
  <2> HIDE DEF l, cmd
  <2>2. Holding(Job(l, cmd), ctl.ctx, U)
    BY <1>2, JobHolds
  <2> QED BY <1>3, <2>1, <2>2, NetTurnLatches DEF U, l
<1> QED BY <1>4, <1>5, <1>6

\* What the socket brings.
LEMMA SocketLatches ==
    ASSUME ControlInv, LatchInv, NEW x, NEW id, NEW mat, NEW after, NEW through, NEW parts,
           NEW observed, NEW evicted, NEW fits,
           \/ LiveOffer(x, id, mat, after, through, parts, observed, evicted, fits)
           \/ SocketAcknowledged(x, observed)
           \/ LiveFragments(x, id)
    PROVE  LatchInv'
<1> DEFINE U == Under(mail, reports, Apart)
<1>1. Holding(ctl, ctl.ctx, U)
  BY DEF LatchInv
<1> HIDE DEF U
<1>2. Holding(Hint(ctl, observed), ctl.ctx, U)
  BY <1>1, HintHolds
<1>3. CASE LiveOffer(x, id, mat, after, through, parts, observed, evicted, fits)
  <2> DEFINE p == Page(FALSE, after, through, [ctl.ctx EXCEPT !.mat = mat], parts)
             a == Admit(ctl, id, p, evicted, fits)
             q == QueueOffer(ctl, id, p, observed, evicted, fits)
  <2>1. NetTurn(Hint(ctl, observed)) \/ NetTurn(q)
    BY <1>3 DEF LiveOffer
  <2>2. q \in {Hint(a.c, observed), Retry(a.c)}
    BY DEF QueueOffer
  <2> HIDE DEF p, q
  <2>3. Holding(a.c, ctl.ctx, U)
    BY <1>1, AdmitHolds
  <2> HIDE DEF a
  <2>4. Holding(Hint(a.c, observed), ctl.ctx, U) /\ Holding(Retry(a.c), ctl.ctx, U)
    BY <2>3, HintHolds, RetryHolds
  <2>5. Holding(q, ctl.ctx, U)
    BY <2>2, <2>4
  <2> QED BY <1>2, <2>1, <2>5, NetTurnLatches DEF U
<1>4. CASE SocketAcknowledged(x, observed)
  <2>1. NetTurn(Hint(ctl, observed))
    BY <1>4 DEF SocketAcknowledged
  <2> QED BY <1>2, <2>1, NetTurnLatches DEF U
<1>5. CASE LiveFragments(x, id)
  <2> DEFINE c == [ctl EXCEPT !.queue[id].have = @ \cup
                            (ctl.queue[id].next)..(Units(ctl.queue[id]) - 1)]
  <2>1. NetTurn(Schedule(c))
    BY <1>5 DEF LiveFragments
  <2>2. /\ DOMAIN c = Fields /\ c.jobs = ctl.jobs /\ c.flights = ctl.flights
        /\ \A k \in LatchFields : c[k] = ctl[k]
    BY <1>1 DEF Holding, Fields, LatchFields
  <2> HIDE DEF c
  <2>3. Holding(Schedule(c), ctl.ctx, U)
    BY <1>1, <2>2, AsideHolds, ScheduleHolds
  <2> QED BY <2>1, <2>3, NetTurnLatches DEF U
<1> QED BY <1>3, <1>4, <1>5

\* Every network and timer turn.
LEMMA NetworkLatches ==
    ASSUME ControlInv, LatchInv, NetworkStep
    PROVE  LatchInv'
<1>1. CASE Upset
  BY <1>1, UpsetLatches
<1>2. CASE Refreshes
  BY <1>2, RefreshedLatches DEF Refreshes, Flights
<1>3. CASE Retries
  BY <1>3, RetryLatches DEF Retries
<1>4. CASE Opens \/ Closes
  BY <1>4, TimerLatches DEF Opens, Closes, Flights
<1>5. CASE AnswerHandshake
  BY <1>5, TimerLatches DEF AnswerHandshake, Flights
<1>6. CASE AnswerDelta
  BY <1>6, AnswerLatches DEF AnswerDelta, Flights
<1>7. CASE AnswerOwned
  BY <1>7, AnswerLatches DEF AnswerOwned, Flights
<1>8. CASE AnswerPush \/ LosePush
  BY <1>8, AnswerLatches DEF AnswerPush, LosePush, Flights
<1>9. CASE \E observed \in 1..head : Offer(observed)
  BY <1>9, SocketLatches DEF Offer
<1>10. CASE Acknowledged
  BY <1>10, SocketLatches DEF Acknowledged
<1>11. CASE Fragments
  BY <1>11, SocketLatches DEF Fragments
<1>12. CASE \E gone \in SUBSET (DOMAIN ctl.queue \cup ActivePlans(store)) : Expiry(gone)
  BY <1>12, TimerLatches DEF Expiry, Flights
<1> QED BY <1>1, <1>2, <1>3, <1>4, <1>5, <1>6, <1>7, <1>8, <1>9, <1>10, <1>11, <1>12
        DEF NetworkStep

\* Two contexts of one incarnation are one.
LEMMA ContextFacts ==
    /\ \A k \in Contexts : k.store \in {0, 1} /\ k.mat = 0
    /\ \A k, l \in Contexts : k.store = l.store => k = l
BY DEF Contexts

\* The reports that remain when the first is heard.
LEMMA TailReports ==
    ASSUME NEW q, q # <<>>, ReportsOk(q), NEW at, ReportsFenced(q, at), NEW m, NEW n,
           InOrder(q, m, n)
    PROVE  /\ ReportsOk(Tail(q)) /\ ReportsFenced(Tail(q), at) /\ InOrder(Tail(q), m, n)
           /\ ~Head(q).guarded => InOrder(Tail(q), Head(q).ctx.store, n)
                                  /\ m <= Head(q).ctx.store /\ Head(q).ctx.store <= n
           /\ ReportOk(Head(q)) /\ ReportFenced(Head(q), at)
           /\ \A k : Replied(q, k) => \/ Replied(Tail(q), k)
                                      \/ /\ Head(q).guarded /\ ~Head(q).old
                                         /\ Answers(Head(q).rep, k)
<1> DEFINE t == Tail(q)
           h == Head(q)
<1>1. /\ IsSequence(t) /\ 1 \in DOMAIN q /\ h = q[1]
      /\ \A i \in DOMAIN t : i \in Nat /\ i + 1 \in DOMAIN q /\ t[i] = q[i + 1]
      /\ \A j \in DOMAIN q : j # 1 => j - 1 \in DOMAIN t /\ t[j - 1] = q[j]
  BY TailPlaces DEF ReportsOk
<1>2. Len(t) \in Nat /\ DOMAIN t = 1..Len(t)
  BY <1>1, IsASeqFacts
<1> HIDE DEF t, h
<1>3. ReportsOk(t) /\ ReportOk(h)
  BY <1>1 DEF ReportsOk
<1>4. ReportsFenced(t, at) /\ ReportFenced(h, at)
  BY <1>1 DEF ReportsFenced
<1>5. \A i, j \in DOMAIN t : i < j => i + 1 < j + 1
  BY <1>1
<1>6. InOrder(t, m, n)
  BY <1>1, <1>5 DEF InOrder
<1>7. ASSUME ~h.guarded
      PROVE  InOrder(t, h.ctx.store, n) /\ m <= h.ctx.store /\ h.ctx.store <= n
  <2>1. \A i \in DOMAIN t : 1 < i + 1
    BY <1>2
  <2>2. m <= h.ctx.store /\ h.ctx.store <= n
    BY <1>1, <1>7 DEF InOrder
  <2>3. \A i \in DOMAIN t : ~t[i].guarded => h.ctx.store <= t[i].ctx.store
    BY <1>1, <1>7, <2>1 DEF InOrder
  <2> QED BY <1>6, <2>2, <2>3 DEF InOrder
<1>8. ASSUME NEW k, Replied(q, k)
      PROVE  Replied(t, k) \/ (h.guarded /\ ~h.old /\ Answers(h.rep, k))
  <2>1. PICK i \in DOMAIN q : q[i].guarded /\ ~q[i].old /\ Answers(q[i].rep, k)
    BY <1>8 DEF Replied
  <2>2. CASE i = 1
    BY <2>1, <2>2, <1>1
  <2>3. CASE i # 1
    <3>1. i - 1 \in DOMAIN t /\ t[i - 1] = q[i]
      BY <2>3, <1>1
    <3> QED BY <2>1, <3>1 DEF Replied
  <2> QED BY <2>2, <2>3
<1> QED BY <1>3, <1>4, <1>6, <1>7, <1>8 DEF t, h

\* A report is heard.
LEMMA HearReportLatches ==
    ASSUME ControlInv, LatchInv, HearReport
    PROVE  LatchInv'
<1> DEFINE r == Head(reports)
           rest == Tail(reports)
           V == Under(mail, reports, Apart)
           U == Under(mail, rest, Apart)
           d == OnReport(ctl, r.rep)
<1>1. /\ reports # <<>> /\ store' = store
      /\ Accepted(r) => Turn(d, rest)
      /\ ~Accepted(r) => Turn(ctl, rest)
  BY DEF HearReport
<1>2. /\ MailOk(mail) /\ ReportsOk(reports) /\ Fenced /\ Holding(ctl, ctl.ctx, V)
  BY DEF ControlInv, LatchInv
<1>3. /\ ctl.ctx \in Contexts /\ ctl.ctx.store <= store.ctx.store
      /\ ReportsFenced(reports, ctl.ctx) /\ InOrder(reports, ctl.ctx.store, store.ctx.store)
  BY <1>2 DEF Fenced
<1>4. /\ ReportsOk(rest) /\ ReportsFenced(rest, ctl.ctx)
      /\ InOrder(rest, ctl.ctx.store, store.ctx.store)
      /\ ~r.guarded => /\ InOrder(rest, r.ctx.store, store.ctx.store)
                       /\ r.ctx.store <= store.ctx.store
      /\ ReportOk(r) /\ ReportFenced(r, ctl.ctx)
      /\ \A k : Replied(reports, k) => \/ Replied(rest, k)
                                       \/ r.guarded /\ ~r.old /\ Answers(r.rep, k)
  BY <1>1, <1>2, <1>3, TailReports
<1> HIDE DEF r, rest
<1>5. CASE ~Accepted(r)
  <2>1. r.guarded /\ r.old
    BY <1>4, <1>5 DEF Accepted, ReportFenced
  <2>2. V \cap Latches \subseteq U
    BY <1>4, <2>1 DEF Under
  <2> HIDE DEF U, V
  <2>3. Holding(ctl, ctl.ctx, U)
    BY <1>2, <2>2, WiderHolds
  <2> QED BY <1>1, <1>2, <1>3, <1>4, <1>5, <2>3, TurnLatches DEF U
<1>6. CASE Accepted(r)
  <2>1. V \subseteq U \cup {k \in Latches : Answers(r.rep, k)}
    BY <1>4 DEF Under
  <2>2. r.rep.kind \in ReportKinds
    BY <1>4 DEF ReportOk
  <2>3. /\ r.ctx \in Contexts
        /\ r.guarded => r.ctx = ctl.ctx
        /\ r.rep.kind \in {"Snapshot", "Committed"} => r.rep.st.ctx = r.ctx
        /\ r.rep.kind = "Committed" => r.rep.st.ctx = ctl.ctx
    BY <1>4, <1>6 DEF Accepted, ReportFenced
  <2>4. r.rep.kind = "Snapshot" /\ r.rep.st.ctx.store = ctl.ctx.store => r.rep.st.ctx = ctl.ctx
    BY <1>3, <2>3, ContextFacts
  <2> HIDE DEF U, V, d
  <2>5. \/ Holding(d, ctl.ctx, U)
        \/ /\ r.rep.kind = "Snapshot" /\ Holding(d, r.rep.st.ctx, U)
           /\ d.newEpoch = TRUE
    BY <1>2, <2>1, <2>2, <2>3, <2>4, OnReportHolds DEF d
  <2>6. CASE Holding(d, ctl.ctx, U)
    BY <1>1, <1>2, <1>3, <1>4, <1>6, <2>6, TurnLatches DEF U
  <2>7. CASE r.rep.kind = "Snapshot" /\ Holding(d, r.rep.st.ctx, U) /\ d.newEpoch = TRUE
    <3> DEFINE at == r.rep.st.ctx
    <3>1. /\ at \in Contexts /\ at.store <= store.ctx.store
          /\ InOrder(rest, at.store, store.ctx.store)
      BY <1>3, <1>4, <2>3, <2>7
    <3> HIDE DEF at
    <3>2. Holding(d, at, U)
      BY <2>7 DEF at
    <3> QED BY <1>1, <1>2, <1>4, <1>6, <2>7, <3>1, <3>2, TurnLatches DEF U
  <2> QED BY <2>5, <2>6, <2>7
<1> QED BY <1>5, <1>6

----------------------------------------------------------------------------
\* A transaction of the worker leaves the whole context alone while no other read
\* contract is wanted.
KeepsContext(t, s) == DOMAIN t = StoreFields /\ t.ctx = s.ctx /\ t.desired = s.desired

LEMMA SettledKeepsContext ==
    ASSUME NEW s, NEW t, KeepsContext(t, s)
    PROVE  KeepsContext(Settled(t), s)
<1> DEFINE u == [t EXCEPT !.stage = "idle"]
<1>1. DOMAIN u = StoreFields /\ u.ctx = t.ctx /\ u.desired = t.desired
  BY DEF KeepsContext, StoreFields
<1>2. Settled(t) \in {t, u}
  BY DEF Settled
<1> HIDE DEF u
<1> QED BY <1>1, <1>2 DEF KeepsContext

\* A report that says what its Store says and answers what was asked.
Faithful(o, s, cmd) ==
    /\ KeepsContext(o.s, s)
    /\ o.rep.kind \in {"Snapshot", "Committed"} => o.rep.st.ctx = s.ctx
    /\ \A k \in Latches : Asks(cmd, k) => Answers(o.rep, k)

\* apply_next_delivery05
LEMMA ApplyIsFaithful ==
    ASSUME NEW s, DOMAIN s = StoreFields, s.ctx.mat = s.desired, NEW cmd, cmd.kind = "Apply"
    PROVE  Faithful(Apply(s, cmd.id, cmd.plan), s, cmd)
<1> DEFINE id == cmd.id
           p == cmd.plan
           Out(t, n) == [s |-> t, rep |-> Committed(t, id, n)]
           none == [s |-> s, rep |-> Failed]
           saved == s.progress[p.boot]
           next == IF saved.id = id THEN saved.next ELSE 0
           m == IF p.next + 1 = Units(p) THEN Done ELSE p.next + 1
<1>1. KeepsContext(s, s)
  BY DEF KeepsContext
<1>2. ASSUME NEW t, NEW n, KeepsContext(t, s) PROVE Faithful(Out(t, n), s, cmd)
  BY <1>2 DEF Faithful, KeepsContext, Committed, Status, Latches, Asks, Answers
<1>3. Faithful(none, s, cmd)
  BY <1>1 DEF Faithful, Failed, Answers
<1>4. KeepsContext(Install(s, id, p), s)
  <2> DEFINE reach == Min({p.after + p.next + 1, p.through})
             final == p.next + 1 = Units(p)
             b == IF p.boot THEN Later(Zero(s.B), reach) ELSE s.B
             c == IF p.boot THEN s.C ELSE Later(s.C, reach)
             g == IF final THEN NoProgress ELSE [id |-> id, next |-> p.next + 1]
             t == [s EXCEPT
                   !.B = b, !.C = c, !.progress[p.boot] = g,
                   !.evidence = @ \/ (s.stage = "owed" /\ s.need = "stream" /\ c >= s.sync)]
  <2>1. Install(s, id, p) = Settled(t)
    BY DEF Install
  <2> HIDE DEF b, c, g
  <2>2. KeepsContext(t, s)
    BY DEF KeepsContext, StoreFields
  <2> HIDE DEF t
  <2> QED BY <2>1, <2>2, SettledKeepsContext
<1>5. p.owner # SchemaOwner => KeepsContext(Transferred(s, p), s)
  <2> DEFINE u == [s EXCEPT !.evidence = @ \/ (s.stage = "owed" /\ s.batch = p.owner.batch)]
  <2>1. p.owner # SchemaOwner => Transferred(s, p) = Settled(u)
    BY DEF Transferred
  <2>2. KeepsContext(u, s)
    BY DEF KeepsContext, StoreFields
  <2> HIDE DEF u
  <2> QED BY <2>1, <2>2, SettledKeepsContext
<1>6. ~SchemaPending(s)
  BY DEF SchemaPending
<1>7. \/ Apply(s, id, p) \in {Out(s, Done), Out(s, p.next), none,
                              Out(s, next), Out(Install(s, id, p), m)}
      \/ Apply(s, id, p) = Out(Transferred(s, p), Done) /\ p.owner # SchemaOwner
  BY <1>6 DEF Apply
<1> HIDE DEF Out, none, next, m, id, p
<1>8. Faithful(Apply(s, id, p), s, cmd)
  BY <1>1, <1>2, <1>3, <1>4, <1>5, <1>7
<1> QED BY <1>8 DEF id, p

\* Every command of the worker.
LEMMA RunIsFaithful ==
    ASSUME NEW s, DOMAIN s = StoreFields, s.ctx.mat = s.desired, NEW cmd, cmd.kind \in JobKinds
    PROVE  Faithful(Run(s, cmd), s, cmd)
<1>0. KeepsContext(s, s)
  BY DEF KeepsContext
<1>1. CASE cmd.kind = "Initialize"
  <2> DEFINE t == Initialize(s, cmd.head)
             u == [s EXCEPT !.S = cmd.head, !.C = cmd.head]
  <2>1. Run(s, cmd) = [s |-> t, rep |-> Snapshot(t)]
    BY <1>1 DEF Run
  <2>2. KeepsContext(u, s)
    BY DEF KeepsContext, StoreFields
  <2>3. t \in {s, u}
    BY DEF Initialize
  <2> HIDE DEF t, u
  <2>4. KeepsContext(t, s)
    BY <1>0, <2>2, <2>3
  <2> QED BY <1>1, <2>1, <2>4 DEF Faithful, KeepsContext, Snapshot, Status, Latches, Asks
<1>2. CASE cmd.kind = "NetworkState"
  <2>1. Run(s, cmd) = [s |-> s, rep |-> Snapshot(s)]
    BY <1>2 DEF Run
  <2> QED BY <1>0, <1>2, <2>1 DEF Faithful, Snapshot, Status, Latches, Asks
<1>3. CASE cmd.kind = "Needs"
  <2>1. Run(s, cmd).s = Settled(s) /\ Run(s, cmd).rep.kind = "Needs"
    BY <1>3 DEF Run
  <2>2. KeepsContext(Settled(s), s)
    BY <1>0, SettledKeepsContext
  <2> QED BY <1>3, <2>1, <2>2 DEF Faithful, Latches, Asks, Answers
<1>4. CASE cmd.kind = "Cleanup"
  <2> DEFINE t == [s EXCEPT !.progress = [lane \in BOOLEAN |->
                        IF @[lane].id \in cmd.gone THEN NoProgress ELSE @[lane]]]
  <2>1. Run(s, cmd).s = t /\ Run(s, cmd).rep.kind = "ActivePlans"
    BY <1>4 DEF Run
  <2>2. KeepsContext(t, s)
    BY DEF KeepsContext, StoreFields
  <2> HIDE DEF t
  <2> QED BY <1>4, <2>1, <2>2 DEF Faithful, Latches, Asks
<1>5. CASE cmd.kind = "Freeze"
  <2> DEFINE u == [s EXCEPT !.stage = "frozen", !.batch = @ + 1, !.unsent = 0]
             t == Freeze(s).s
  <2>1. Run(s, cmd).s = t /\ Run(s, cmd).rep.kind = "Frozen"
    BY <1>5 DEF Run
  <2>2. KeepsContext(u, s)
    BY DEF KeepsContext, StoreFields
  <2>3. t \in {s, u}
    BY DEF Freeze
  <2> HIDE DEF t, u
  <2>4. KeepsContext(t, s)
    BY <1>0, <2>2, <2>3
  <2> QED BY <1>5, <2>1, <2>4 DEF Faithful, Latches, Asks, Answers
<1>6. CASE cmd.kind = "Acknowledge"
  <2> DEFINE r == cmd.receipt
             u == [s EXCEPT !.stage = "owed", !.sync = r.sync, !.need = r.need,
                            !.evidence = \/ r.need = "none"
                                         \/ r.need = "stream" /\ Zero(s.C) >= r.sync]
             t == Acknowledge(s, r)
  <2>1. Run(s, cmd) = [s |-> t, rep |-> Committed(t, 0, 0)]
    BY <1>6 DEF Run
  <2>2. KeepsContext(u, s)
    BY DEF KeepsContext, StoreFields
  <2>3. t \in {s, u}
    BY DEF Acknowledge
  <2> HIDE DEF t, u
  <2>4. KeepsContext(t, s)
    BY <1>0, <2>2, <2>3
  <2> QED BY <1>6, <2>1, <2>4 DEF Faithful, KeepsContext, Committed, Status, Latches, Asks
<1>7. CASE cmd.kind = "Apply"
  <2>1. Run(s, cmd) = Apply(s, cmd.id, cmd.plan)
    BY <1>7 DEF Run
  <2> QED BY <1>7, <2>1, ApplyIsFaithful
<1> QED BY <1>1, <1>2, <1>3, <1>4, <1>5, <1>6, <1>7 DEF JobKinds

\* The letters that remain when the worker takes the first.
LEMMA TailMail ==
    ASSUME NEW q, q # <<>>, MailOk(q), NEW at, MailFenced(q, at)
    PROVE  /\ LetterOk(Head(q)) /\ (~Head(q).old => Head(q).ctx = at)
           /\ MailFenced(Tail(q), at)
           /\ \A k : Posted(q, k) => \/ Posted(Tail(q), k)
                                     \/ ~Head(q).old /\ Asks(Head(q).cmd, k)
<1> DEFINE t == Tail(q)
           h == Head(q)
<1>1. /\ 1 \in DOMAIN q /\ h = q[1]
      /\ \A i \in DOMAIN t : i \in Nat /\ i + 1 \in DOMAIN q /\ t[i] = q[i + 1]
      /\ \A j \in DOMAIN q : j # 1 => j - 1 \in DOMAIN t /\ t[j - 1] = q[j]
  BY TailPlaces DEF MailOk
<1> HIDE DEF t, h
<1>2. LetterOk(h) /\ (~h.old => h.ctx = at)
  BY <1>1 DEF MailOk, MailFenced
<1>3. MailFenced(t, at)
  BY <1>1 DEF MailFenced
<1>4. ASSUME NEW k, Posted(q, k)
      PROVE  Posted(t, k) \/ (~h.old /\ Asks(h.cmd, k))
  <2>1. PICK i \in DOMAIN q : ~q[i].old /\ Asks(q[i].cmd, k)
    BY <1>4 DEF Posted
  <2>2. CASE i = 1
    BY <2>1, <2>2, <1>1
  <2>3. CASE i # 1
    <3>1. i - 1 \in DOMAIN t /\ t[i - 1] = q[i]
      BY <2>3, <1>1
    <3> QED BY <2>1, <3>1 DEF Posted
  <2> QED BY <2>2, <2>3
<1> QED BY <1>2, <1>3, <1>4 DEF t, h

\* One report more: an unguarded one is at the Store's own incarnation, the last.
LEMMA AppendedReport ==
    ASSUME NEW q, IsSequence(q), NEW at, ReportsFenced(q, at), NEW m \in Int, NEW n \in Int,
           InOrder(q, m, n), NEW r, ReportFenced(r, at), NEW last \in Int,
           m <= n, n <= last, ~r.guarded => r.ctx.store = last,
           NEW t, t = Append(q, r), \A i \in DOMAIN q : q[i].ctx.store \in Int
    PROVE  /\ ReportsFenced(t, at) /\ InOrder(t, m, last)
           /\ \A k : Replied(q, k) => Replied(t, k)
           /\ \A k : r.guarded /\ ~r.old /\ Answers(r.rep, k) => Replied(t, k)
<1>1. Len(q) \in Nat /\ DOMAIN q = 1..Len(q)
  BY IsASeqFacts
<1> DEFINE z == Len(q) + 1
<1>2. DOMAIN t = 1..z /\ t[z] = r /\ \A i \in 1..Len(q) : t[i] = q[i]
  BY AppendIsASeq
<1>3. /\ z \in DOMAIN t /\ z \in Nat
      /\ \A i \in DOMAIN q : i \in DOMAIN t /\ t[i] = q[i] /\ i < z /\ i \in Nat
      /\ \A i \in DOMAIN t : i = z \/ (i \in DOMAIN q /\ t[i] = q[i])
  BY <1>1, <1>2
<1>4. t[z] = r
  BY <1>2
<1> HIDE DEF z
<1>5. ReportsFenced(t, at)
  BY <1>3, <1>4 DEF ReportsFenced
<1>6. \A i \in DOMAIN t : ~t[i].guarded => m <= t[i].ctx.store /\ t[i].ctx.store <= last
  <2>1. \A i \in DOMAIN q : ~q[i].guarded => m <= q[i].ctx.store /\ q[i].ctx.store <= last
    BY DEF InOrder
  <2>2. ~r.guarded => m <= r.ctx.store /\ r.ctx.store <= last
    OBVIOUS
  <2> QED BY <2>1, <2>2, <1>3, <1>4
<1>7. ASSUME NEW i \in DOMAIN t, NEW j \in DOMAIN t, i < j, ~t[i].guarded, ~t[j].guarded
      PROVE  t[i].ctx.store <= t[j].ctx.store
  <2>1. i # z
    BY <1>7, <1>3
  <2>2. i \in DOMAIN q /\ t[i] = q[i]
    BY <1>3, <2>1
  <2>3. CASE j = z
    BY <1>4, <1>6, <1>7, <2>3
  <2>4. CASE j # z
    <3>1. j \in DOMAIN q /\ t[j] = q[j]
      BY <1>3, <2>4
    <3> QED BY <1>7, <2>2, <3>1 DEF InOrder
  <2> QED BY <2>3, <2>4
<1>8. InOrder(t, m, last)
  BY <1>6, <1>7 DEF InOrder
<1>9. \A k : Replied(q, k) => Replied(t, k)
  BY <1>3 DEF Replied
<1>10. \A k : r.guarded /\ ~r.old /\ Answers(r.rep, k) => Replied(t, k)
  BY <1>3, <1>4 DEF Replied
<1> QED BY <1>5, <1>8, <1>9, <1>10

\* Control has taken no step, and what it waits for is still under way.
LEMMA StillLatches ==
    ASSUME LatchInv, ctl' = ctl, store'.ctx \in Contexts, store'.desired = 0,
           ctl.ctx.store <= store'.ctx.store, MailFenced(mail', ctl.ctx),
           ReportsFenced(reports', ctl.ctx),
           InOrder(reports', ctl.ctx.store, store'.ctx.store),
           Under(mail, reports, Apart) \cap Latches \subseteq Under(mail', reports', Apart')
    PROVE  LatchInv'
<1> DEFINE V == Under(mail, reports, Apart)
           U == Under(mail', reports', Apart')
<1>1. Fenced'
  BY DEF LatchInv, Fenced
<1>2. Holding(ctl, ctl.ctx, V) /\ V \cap Latches \subseteq U
  BY DEF LatchInv
<1>3. Holding(ctl, ctl.ctx, U)
  <2> HIDE DEF U, V
  <2> QED BY <1>2, WiderHolds
<1>4. Holding(ctl', ctl'.ctx, U)
  <2> HIDE DEF U
  <2> QED BY <1>3
<1>5. ctl'.jobs = <<>> /\ ctl'.newEpoch = FALSE
  BY DEF LatchInv
<1> QED BY <1>1, <1>4, <1>5 DEF LatchInv

\* What the invariant says of the mailboxes, for a step of the worker.
LEMMA WorkerFacts ==
    ASSUME ControlInv, LatchInv
    PROVE  /\ MailOk(mail) /\ ReportsOk(reports) /\ IsSequence(reports)
           /\ DOMAIN store = StoreFields
           /\ store.ctx \in Contexts /\ ctl.ctx \in Contexts /\ store.desired = 0
           /\ store.ctx.store \in Int /\ ctl.ctx.store \in Int
           /\ store.ctx.mat = store.desired
           /\ ctl.ctx.store <= store.ctx.store
           /\ MailFenced(mail, ctl.ctx) /\ ReportsFenced(reports, ctl.ctx)
           /\ InOrder(reports, ctl.ctx.store, store.ctx.store)
           /\ \A i \in DOMAIN reports : reports[i].ctx.store \in Int
<1>1. /\ MailOk(mail) /\ ReportsOk(reports) /\ IsSequence(reports)
      /\ DOMAIN store = StoreFields /\ Fenced
  BY DEF ControlInv, LatchInv, ReportsOk, StoreOk
<1>2. \A k \in Contexts : k.store \in Int /\ k.mat = 0
  BY ContextFacts
<1>3. \A i \in DOMAIN reports : reports[i].ctx \in Contexts
  BY <1>1 DEF Fenced, ReportsFenced, ReportFenced
<1> QED BY <1>1, <1>2, <1>3 DEF Fenced

\* The worker ends a current job with a report that answers what the job asked.
LEMMA WorkedLatches ==
    ASSUME ControlInv, LatchInv, mail # <<>>, NEW s, NEW rep, Current(Head(mail)),
           mail' = Tail(mail), ctl' = ctl, store' = s, Report(Head(mail), rep),
           Faithful([s |-> s, rep |-> rep], store, Head(mail).cmd)
    PROVE  LatchInv'
<1> DEFINE job == Head(mail)
           r == [guarded |-> TRUE, old |-> job.old, ctx |-> job.ctx, rep |-> rep]
<1>1. LetterOk(job) /\ job.ctx = ctl.ctx /\ ~job.old /\ job.ctx = store.ctx
  BY WorkerFacts, TailMail DEF Current
<1>2. /\ MailFenced(mail', ctl.ctx)
      /\ \A k : Posted(mail, k) => Posted(mail', k) \/ Asks(job.cmd, k)
  BY WorkerFacts, TailMail
<1>3. reports' = Append(reports, r)
  BY DEF Report
<1> HIDE DEF job
<1>4. /\ s.ctx = store.ctx /\ s.desired = store.desired
      /\ rep.kind \in {"Snapshot", "Committed"} => rep.st.ctx = store.ctx
      /\ \A k \in Latches : Asks(job.cmd, k) => Answers(rep, k)
  BY DEF Faithful, KeepsContext, job
<1>5. r.guarded /\ ~r.old /\ r.ctx = ctl.ctx /\ r.rep = rep
  BY <1>1
<1> HIDE DEF r
<1>6. ReportFenced(r, ctl.ctx)
  BY <1>1, <1>4, <1>5, WorkerFacts DEF ReportFenced
<1>7. /\ ReportsFenced(reports', ctl.ctx)
      /\ InOrder(reports', ctl.ctx.store, store.ctx.store)
      /\ \A k : Replied(reports, k) => Replied(reports', k)
      /\ \A k : Answers(rep, k) => Replied(reports', k)
  <2> DEFINE at == ctl.ctx
             m == ctl.ctx.store
             n == store.ctx.store
  <2>1. /\ IsSequence(reports) /\ ReportsFenced(reports, at) /\ m \in Int /\ n \in Int
        /\ InOrder(reports, m, n) /\ m <= n /\ n <= n
        /\ \A i \in DOMAIN reports : reports[i].ctx.store \in Int
    BY WorkerFacts
  <2>2. ReportFenced(r, at) /\ (~r.guarded => r.ctx.store = n)
    BY <1>5, <1>6
  <2> HIDE DEF at, m, n
  <2>3. /\ ReportsFenced(reports', at) /\ InOrder(reports', m, n)
        /\ \A k : Replied(reports, k) => Replied(reports', k)
        /\ \A k : r.guarded /\ ~r.old /\ Answers(r.rep, k) => Replied(reports', k)
    BY <1>3, <2>1, <2>2, AppendedReport
  <2> QED BY <1>5, <2>3 DEF at, m, n
<1>8. Under(mail, reports, Apart) \cap Latches \subseteq Under(mail', reports', Apart')
  <2>1. Apart' = Apart
    BY <1>4 DEF Apart
  <2> QED BY <1>2, <1>4, <1>7, <2>1 DEF Under
<1> QED BY <1>2, <1>4, <1>7, <1>8, WorkerFacts, StillLatches

\* The worker tells Control, unguarded, of a Store at its incarnation or the next.
LEMMA ToldLatches ==
    ASSUME ControlInv, LatchInv, mail' = mail, ctl' = ctl, NEW s, store' = s, Tell(s),
           s.desired = 0, s.ctx = store.ctx \/ (s.ctx \in Contexts /\ store.ctx.store < s.ctx.store)
    PROVE  LatchInv'
<1> DEFINE r == [guarded |-> FALSE, old |-> FALSE, ctx |-> s.ctx, rep |-> Snapshot(s)]
<1>1. reports' = Append(reports, r)
  BY DEF Tell
<1>2. ~r.guarded /\ r.ctx = s.ctx /\ r.rep.kind = "Snapshot" /\ r.rep.st.ctx = s.ctx
  BY DEF Snapshot, Status
<1> HIDE DEF r
<1>3. s.ctx \in Contexts /\ s.ctx.store \in Int /\ store.ctx.store <= s.ctx.store
  BY WorkerFacts, ContextFacts
<1>4. ReportFenced(r, ctl.ctx)
  BY <1>2, <1>3 DEF ReportFenced
<1>5. /\ ReportsFenced(reports', ctl.ctx)
      /\ InOrder(reports', ctl.ctx.store, s.ctx.store)
      /\ \A k : Replied(reports, k) => Replied(reports', k)
  <2> DEFINE at == ctl.ctx
             m == ctl.ctx.store
             n == store.ctx.store
             last == s.ctx.store
  <2>1. /\ IsSequence(reports) /\ ReportsFenced(reports, at) /\ m \in Int /\ n \in Int
        /\ InOrder(reports, m, n) /\ m <= n /\ n <= last /\ last \in Int
        /\ \A i \in DOMAIN reports : reports[i].ctx.store \in Int
    BY <1>3, WorkerFacts
  <2>2. ReportFenced(r, at) /\ (~r.guarded => r.ctx.store = last)
    BY <1>2, <1>4
  <2> HIDE DEF at, m, n, last
  <2>3. /\ ReportsFenced(reports', at) /\ InOrder(reports', m, last)
        /\ \A k : Replied(reports, k) => Replied(reports', k)
    BY <1>1, <2>1, <2>2, AppendedReport
  <2> QED BY <2>3 DEF at, m, last
<1>6. Under(mail, reports, Apart) \cap Latches \subseteq Under(mail', reports', Apart')
  <2>1. Apart => Apart'
    BY <1>3, WorkerFacts DEF Apart
  <2> QED BY <1>5, <2>1 DEF Under
<1>7. ctl.ctx.store <= s.ctx.store
  BY <1>3, WorkerFacts
<1> QED BY <1>3, <1>5, <1>6, <1>7, WorkerFacts, StillLatches

\* The Store worker, an application's write and a reset.
LEMMA WorkerLatches ==
    ASSUME ControlInv, LatchInv, WorkerStep
    PROVE  LatchInv'
<1>1. CASE Work
  <2> DEFINE cmd == Head(mail).cmd
             ran == Run(store, cmd)
  <2>1. /\ mail # <<>> /\ mail' = Tail(mail) /\ Current(Head(mail)) /\ ctl' = ctl
        /\ store' = ran.s /\ Report(Head(mail), ran.rep)
    BY <1>1 DEF Work
  <2>2. cmd.kind \in JobKinds
    BY <2>1, WorkerFacts, TailMail DEF LetterOk
  <2> HIDE DEF cmd
  <2>3. Faithful(ran, store, cmd)
    BY <2>2, WorkerFacts, RunIsFaithful
  <2> HIDE DEF ran
  <2>4. Faithful([s |-> ran.s, rep |-> ran.rep], store, cmd)
    BY <2>3 DEF Faithful
  <2> QED BY <2>1, <2>4, WorkedLatches DEF cmd
<1>2. CASE WorkFails
  <2>1. /\ mail # <<>> /\ mail' = Tail(mail) /\ Current(Head(mail)) /\ ctl' = ctl
        /\ store' = store /\ Report(Head(mail), Failed)
    BY <1>2 DEF WorkFails
  <2>2. Faithful([s |-> store, rep |-> Failed], store, Head(mail).cmd)
    BY WorkerFacts DEF Faithful, KeepsContext, Failed, Answers
  <2> QED BY <2>1, <2>2, WorkedLatches
<1>3. CASE WorkObsolete
  <2>1. /\ mail # <<>> /\ mail' = Tail(mail) /\ ~Current(Head(mail)) /\ ctl' = ctl
        /\ store' = store /\ reports' = reports
    BY <1>3 DEF WorkObsolete
  <2>2. /\ MailFenced(mail', ctl.ctx)
        /\ ~Head(mail).old => Head(mail).ctx = ctl.ctx
        /\ \A k : Posted(mail, k) => Posted(mail', k) \/ ~Head(mail).old
    BY <2>1, WorkerFacts, TailMail
  <2>3. ~Head(mail).old => Apart
    BY <2>1, <2>2, WorkerFacts, ContextFacts DEF Current, Apart
  <2>4. Apart' = Apart
    BY <2>1 DEF Apart
  <2>5. Under(mail, reports, Apart) \cap Latches \subseteq Under(mail', reports', Apart')
    BY <2>1, <2>2, <2>3, <2>4 DEF Under
  <2> QED BY <2>1, <2>2, <2>5, WorkerFacts, StillLatches
<1>4. CASE Submit
  <2>1. /\ store' = [store EXCEPT !.unsent = @ + 1] /\ Tell(store')
        /\ ctl' = ctl /\ mail' = mail
    BY <1>4 DEF Submit
  <2>2. store'.ctx = store.ctx /\ store'.desired = 0
    BY <2>1, WorkerFacts DEF StoreFields
  <2> QED BY <2>1, <2>2, ToldLatches
<1>5. CASE Reset
  <2>1. /\ store' = FreshStore(1, store.desired) /\ Tell(store') /\ store.ctx.store = 0
        /\ ctl' = ctl /\ mail' = mail
    BY <1>5 DEF Reset
  <2>2. store'.ctx = [store |-> 1, mat |-> 0] /\ store'.desired = 0
    BY <2>1, WorkerFacts DEF FreshStore
  <2>3. store'.ctx \in Contexts /\ store.ctx.store < store'.ctx.store
    BY <2>1, <2>2 DEF Contexts
  <2> QED BY <2>1, <2>2, <2>3, ToldLatches
<1> QED BY <1>1, <1>2, <1>3, <1>4, <1>5 DEF WorkerStep

\* A new Control over empty mailboxes waits for nothing.
LEMMA NewControlLatches ==
    ASSUME NEW s, s.ctx \in Contexts, s.desired = 0, store = s,
           ctl = NewControl(Status(s)), mail = <<>>, reports = <<>>
    PROVE  LatchInv
<1>1. /\ DOMAIN ctl = Fields /\ ctl.jobs = <<>> /\ Unlatched(ctl) /\ ctl.newEpoch = FALSE
      /\ ctl.ctx = s.ctx
  BY DEF NewControl, Status, Fields, Unlatched
<1>2. IsSequence(<<>>) /\ DOMAIN <<>> = {}
  BY EmptyIsASeq
<1> DEFINE U == Under(mail, reports, Apart)
<1>3. Holding(ctl, ctl.ctx, U)
  <2> HIDE DEF U
  <2> QED BY <1>1, <1>2, UnlatchedHolds
<1>4. /\ MailFenced(mail, ctl.ctx) /\ ReportsFenced(reports, ctl.ctx)
      /\ InOrder(reports, ctl.ctx.store, store.ctx.store)
  BY <1>2 DEF MailFenced, ReportsFenced, InOrder
<1>5. ctl.ctx.store <= store.ctx.store
  BY <1>1, ContextFacts
<1> QED BY <1>1, <1>3, <1>4, <1>5 DEF LatchInv, Fenced

\* A behaviour that begins with the current read contract.
LEMMA InitLatchInv ==
    ASSUME Opened \subseteq {"new", "sent"}, Init
    PROVE  LatchInv
<1>1. PICK opened \in Opened : store = Begun(opened)
  BY DEF Init
<1>2. opened \in {"new", "sent"}
  OBVIOUS
<1> DEFINE f == FreshStore(0, 0)
           ready == [f EXCEPT !.S = 0, !.B = 0, !.C = 0]
           sent == [ready EXCEPT !.batch = 1, !.stage = "frozen"]
<1>3. DOMAIN f = StoreFields /\ f.ctx = [store |-> 0, mat |-> 0] /\ f.desired = 0
  BY DEF FreshStore, StoreFields
<1>4. store \in {f, sent}
  BY <1>1, <1>2 DEF Begun
<1> HIDE DEF f
<1>5. sent.ctx = f.ctx /\ sent.desired = f.desired
  BY <1>3 DEF StoreFields
<1>6. store.ctx \in Contexts /\ store.desired = 0
  BY <1>3, <1>4, <1>5 DEF Contexts
<1>7. ctl = NewControl(Status(store)) /\ mail = <<>> /\ reports = <<>>
  BY DEF Init
<1> QED BY <1>6, <1>7, NewControlLatches

\* Every step keeps the latches held.
LEMMA NextLatchInv == ControlInv /\ LatchInv /\ [Next]_vars => LatchInv'
<1> SUFFICES ASSUME ControlInv, LatchInv, [Next]_vars PROVE LatchInv'
  OBVIOUS
<1>1. CASE HostStep
  BY <1>1, HostLatches
<1>2. CASE NetworkStep
  BY <1>2, NetworkLatches
<1>3. CASE HearReport
  BY <1>3, HearReportLatches
<1>4. CASE WorkerStep
  BY <1>4, WorkerLatches
<1>5. CASE Publish \/ UNCHANGED vars
  <2>1. store' = store /\ ctl' = ctl /\ mail' = mail /\ reports' = reports
    BY <1>5 DEF Publish, vars
  <2> QED BY <2>1 DEF LatchInv, Fenced, Apart
<1>6. CASE Restart
  <2> DEFINE c == NewControl(Status(store))
  <2>1. ctl' = c /\ mail' = <<>> /\ reports' = <<>> /\ store' = store
    BY <1>6 DEF Restart
  <2>2. /\ DOMAIN c = Fields /\ c.jobs = <<>> /\ Unlatched(c) /\ c.newEpoch = FALSE
        /\ c.ctx = store.ctx
    BY DEF NewControl, Status, Fields, Unlatched
  <2> HIDE DEF c
  <2>3. IsSequence(<<>>) /\ DOMAIN <<>> = {}
    BY EmptyIsASeq
  <2> DEFINE U == Under(mail', reports', Apart')
  <2>4. Holding(c, c.ctx, U)
    <3> HIDE DEF U
    <3> QED BY <2>2, <2>3, UnlatchedHolds
  <2>5. Holding(ctl', ctl'.ctx, U)
    <3> HIDE DEF U
    <3> QED BY <2>1, <2>4
  <2>6. /\ MailFenced(mail', c.ctx) /\ ReportsFenced(reports', c.ctx)
        /\ InOrder(reports', c.ctx.store, store.ctx.store)
    BY <2>1, <2>3 DEF MailFenced, ReportsFenced, InOrder
  <2>7. Fenced'
    BY <2>1, <2>2, <2>6, WorkerFacts DEF Fenced
  <2> QED BY <2>1, <2>2, <2>5, <2>7 DEF LatchInv
<1> QED BY <1>1, <1>2, <1>3, <1>4, <1>5, <1>6 DEF Next

\* With no reset to hear of, what is under way carries a fence both sides accept.
LEMMA UnderIsUnderWay ==
    ASSUME LatchInv, ~Apart, NEW k \in Latches, k \in Under(mail, reports, Apart)
    PROVE  UnderWay({k})
<1>1. Posted(mail, k) \/ Replied(reports, k)
  BY DEF Under
<1>2. CASE Posted(mail, k)
  <2>1. PICK i \in DOMAIN mail : ~mail[i].old /\ Asks(mail[i].cmd, k)
    BY <1>2 DEF Posted
  <2>2. mail[i].ctx = ctl.ctx /\ mail[i].cmd.kind \in {k}
    BY <2>1 DEF LatchInv, Fenced, MailFenced, Asks
  <2> QED BY <2>1, <2>2 DEF UnderWay
<1>3. CASE Replied(reports, k)
  <2>1. PICK i \in DOMAIN reports : /\ reports[i].guarded /\ ~reports[i].old
                                    /\ Answers(reports[i].rep, k)
    BY <1>3 DEF Replied
  <2>2. reports[i].ctx = ctl.ctx
    BY <2>1 DEF LatchInv, Fenced, ReportsFenced, ReportFenced
  <2> DEFINE named == CASE k = "Apply"  -> "Committed"
                        [] k = "Freeze" -> "Frozen"
                        [] k = "Needs"  -> "Needs"
  <2>3. reports[i].rep.kind \in {named, "Failed"}
    BY <2>1 DEF Answers, Latches
  <2>4. reports[i].rep.kind \in {CASE j = "Apply"  -> "Committed"
                                   [] j = "Freeze" -> "Frozen"
                                   [] j = "Needs"  -> "Needs" : j \in {k}} \cup {"Failed"}
    BY <2>3
  <2> QED BY <2>1, <2>2, <2>4 DEF UnderWay
<1> QED BY <1>1, <1>2, <1>3

\* The invariant says that every latch is held.
LEMMA LatchInvReleases == LatchInv => LatchesReleased
<1> SUFFICES ASSUME LatchInv, ctl.connected, ~Has(ctl, "Retry"), ~Apart
             PROVE  /\ ctl.applying # 0 => UnderWay({"Apply"})
                    /\ ctl.freezing => UnderWay({"Freeze"})
                    /\ ctl.wakeAfterNeeds \/ ctl.waitingPush # 0 => UnderWay({"Needs"})
  BY DEF LatchesReleased, Apart
<1>1. DOMAIN <<>> = {}
  BY EmptyIsASeq
<1>2. \A k \in Latches : ~Gathered(ctl.jobs, k)
  BY <1>1 DEF LatchInv, Gathered
<1>3. \A k \in Latches : Latch(ctl, k) => k \in Under(mail, reports, Apart)
  BY <1>2 DEF LatchInv, Holding
<1>4. \A k \in Latches : Latch(ctl, k) => UnderWay({k})
  BY <1>3, UnderIsUnderWay
<1>5. "Apply" \in Latches /\ "Freeze" \in Latches /\ "Needs" \in Latches
  BY DEF Latches
<1>6. /\ ctl.applying # 0 => Latch(ctl, "Apply")
      /\ ctl.freezing => Latch(ctl, "Freeze")
      /\ ctl.wakeAfterNeeds \/ ctl.waitingPush # 0 => Latch(ctl, "Needs")
  BY DEF Latch
<1> QED BY <1>4, <1>5, <1>6

\* A connected Control never waits for what does not come (SyncControl.LatchesReleased),
\* for every bound, number and kind of fault, in every behaviour of a Store opened with the
\* read contract it has: the Apply, the Freeze or the Needs each of its latches stands for
\* is at the worker or its report on the way back under a fence both sides accept, unless a
\* retry or the Snapshot of a reset is pending, which clear the latch.  For a Store opened
\* with another read contract it is false: the transfer changes the context at the worker,
\* whose fence then drops a Freeze or a Needs that Control goes on waiting for.
THEOREM LatchesReleasedAlways ==
    ASSUME Opened \subseteq {"new", "sent"}
    PROVE  Spec => []LatchesReleased
<1>1. Init => LatchInv
  BY InitLatchInv
<1> QED BY <1>1, InitControlInv, NextControlInv, NextLatchInv, LatchInvReleases, PTL DEF Spec

=============================================================================
