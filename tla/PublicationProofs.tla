------------------------- MODULE PublicationProofs -------------------------
(***************************************************************************)
(* Proofs about Publication, for any Streams, records, transactions and    *)
(* workloads, any number of retries and any greatest head.                 *)
(***************************************************************************)
EXTENDS Publication, FiniteSetTheorems, WellFoundedInduction, TLAPS

-----------------------------------------------------------------------------
(***************************************************************************)
(* The inductive invariant.                                                *)
(***************************************************************************)
Work == [head : [Stream -> Nat], pos : [Pair -> Nat], cursor : [Stream -> Nat],
         rows : SUBSET Row, touched : SUBSET Stream, changed : SUBSET Record]

Statements == {"read", "streams", "guard", "reread", "reserve", "apply", "finish", "commit"}

Transactions ==
    [phase : Statements \cup {"begin", "committed", "done", "failed"},
     attempt : Nat, member : Nat, work : Work, saved : Work,
     seen : [head : [Stream -> Nat], pos : [Pair -> Nat]],
     stale : SUBSET Row, locked : SUBSET Stream, todo : SUBSET Nat,
     publish : SUBSET Pair]

PublicationTypes ==
    /\ head \in [Stream -> Nat] /\ pos \in [Pair -> Nat]
    /\ owner \in [Row -> Tx \cup {NoTx}]
    /\ program \in Workloads
    /\ tx \in [Tx -> Transactions]
    /\ fresh \in [Record -> SUBSET Stream]

\* A transaction holds the locks of the rows it has written, and no others.
LocksHeld == \A t \in Tx : \A x \in Row : owner[x] = t <=> x \in tx[t].work.rows

\* What an attempt, or its savepoint, has written: heads and positions above
\* the committed head, on rows it locked; a record it invalidated for every
\* Stream got a position wherever it is tracked.
Ahead(w) ==
    /\ \A s \in Stream : w.head[s] # 0 =>
          head[s] < w.head[s] /\ <<"stream", s>> \in w.rows
    /\ \A s \in Stream : w.cursor[s] # 0 =>
          head[s] < w.cursor[s] /\ w.cursor[s] <= w.head[s]
    /\ \A p \in Pair : w.pos[p] # 0 =>
          /\ head[p[1]] < w.pos[p] /\ w.pos[p] <= w.head[p[1]]
          /\ <<"record", p[2]>> \in w.rows
    /\ \A r \in w.changed : <<"record", r>> \in w.rows
    /\ \A p \in Pair : p[2] \in w.changed /\ pos[p] # 0 => w.pos[p] # 0

\* The session's touched Streams are those of the positions written.
Touches(w) ==
    /\ \A p \in Pair : w.pos[p] # 0 => p[1] \in w.touched
    /\ \A s \in w.touched : \E p \in Pair : p[1] = s /\ w.pos[p] # 0

\* Which statements have run: the identities are guarded before the second
\* read, the published Streams reserved before the positions are written, and
\* every holder of a globally invalidated record is among the published.
Progress(k, d) ==
    /\ k.phase \in {"streams", "reserve"} => k.todo \subseteq Stream
    /\ k.phase = "guard" => k.todo \subseteq Record
    /\ k.phase \in {"streams", "guard", "reread"} => Named(d) \subseteq k.locked
    /\ k.phase \in {"guard", "reread", "reserve", "apply"} => \A r \in Records(d) :
          <<"record", r>> \in k.work.rows \/ (k.phase = "guard" /\ r \in k.todo)
    /\ k.phase \in {"reserve", "apply"} =>
          /\ \A p \in k.publish :
                /\ p[2] \in Records(d)
                /\ k.work.cursor[p[1]] # 0 \/ (k.phase = "reserve" /\ p[1] \in k.todo)
          /\ \A p \in Pair : p[2] \in d.global /\ pos[p] # 0 => p \in k.publish

\* A snapshot that does not show a pair has been told of the record's new
\* version, and holds no row that changed after it.
SnapshotKnows(k) ==
    /\ \A p \in Pair : pos[p] # 0 /\ k.seen.pos[p] = 0 => <<"record", p[2]>> \in k.stale
    /\ k.work.rows \cap k.stale = {}

\* The first settlement takes Streams, then identities, each in canonical
\* order, and reserves on Streams it has locked or found without a row.
InOrder(k) ==
    /\ k.phase = "read" => k.work.rows = {}
    /\ k.phase = "streams" =>
          /\ \A r \in Record : <<"record", r>> \notin k.work.rows
          /\ \A s \in Stream : <<"stream", s>> \in k.work.rows => \A z \in k.todo : s < z
    /\ k.phase = "guard" =>
          \A r \in Record : <<"record", r>> \in k.work.rows => \A z \in k.todo : r < z
    /\ k.phase = "reserve" => k.todo \subseteq k.locked

Underway(t, k) ==
    /\ k.phase \in Statements \cup {"begin"} => k.member \in DOMAIN program[t].members
    /\ k.phase \in Statements => Progress(k, program[t].members[k.member])
    /\ k.phase \in Statements /\ Snapshot(t) => SnapshotKnows(k)
    /\ k.phase \in Statements /\ k.member = 1 => InOrder(k)
    /\ k.phase \notin Statements \cup {"committed"} => k.work = Zero
    /\ k.phase # "committed" => Ahead(k.work)
    /\ k.phase = "committed" => k.work.rows = {}
    /\ k.phase # "committed" => Ahead(k.saved) /\ k.saved.rows \subseteq k.work.rows
    /\ Touches(k.work) /\ Touches(k.saved)

PublicationInv ==
    /\ PublicationTypes /\ LocksHeld /\ NoMissedInvalidation
    /\ \A t \in Tx : Underway(t, tx[t])

-----------------------------------------------------------------------------
(***************************************************************************)
(* Lemmas about the operators.                                             *)
(***************************************************************************)

\* The least number of a set that is not empty.
LEMMA LeastFacts ==
    ASSUME NEW S \in SUBSET Nat, S # {}
    PROVE  Least(S) \in S /\ \A y \in S : Least(S) <= y
<1> DEFINE Below == {ss \in Nat \X Nat : ss[1] < ss[2]}
<1>1. IsWellFoundedOn(Below, Nat)
  BY NatLessThanWellFounded DEF OpToRel
<1>2. PICK x \in S : \A y \in S : <<y, x>> \notin Below
  <2> HIDE DEF Below
  <2> QED
    BY <1>1, WFMin
<1>3. ASSUME NEW y \in S PROVE x <= y
  <2>1. x \in Nat /\ y \in Nat /\ <<y, x>> \in Nat \X Nat /\ <<y, x>>[1] = y /\ <<y, x>>[2] = x
    OBVIOUS
  <2>2. ~(y < x)
    BY <1>2, <2>1
  <2> QED
    BY <2>1, <2>2
<1> QED
  BY <1>3 DEF Least

\* A finite set of numbers that is not empty has a greatest member.
LEMMA GreatestExists ==
    ASSUME NEW S \in SUBSET Nat, IsFiniteSet(S), S # {}
    PROVE  \E x \in S : \A y \in S : y <= x
<1> DEFINE Unbounded == {T \in SUBSET S : T # {} /\ ~\E x \in T : \A y \in T : y <= x}
<1>1. SUFFICES ASSUME Unbounded # {} PROVE FALSE
  OBVIOUS
<1>2. IsWellFoundedOn(StrictSubsetOrdering(S), FiniteSubsetsOf(S))
  BY FS_StrictSubsetOrderingWellFounded
<1>3. Unbounded \subseteq FiniteSubsetsOf(S)
  BY FS_Subset DEF FiniteSubsetsOf
<1>4. PICK T \in Unbounded : \A X \in Unbounded : <<X, T>> \notin StrictSubsetOrdering(S)
  <2> HIDE DEF Unbounded
  <2> QED
    BY <1>1, <1>2, <1>3, WFMin
<1>5. PICK z \in T : TRUE
  BY <1>4
<1>6. CASE T \ {z} = {}
  BY <1>4, <1>5, <1>6
<1>7. CASE T \ {z} # {}
  <2>1. T \ {z} \notin Unbounded
    BY <1>4, <1>5 DEF StrictSubsetOrdering
  <2>2. PICK m \in T \ {z} : \A y \in T \ {z} : y <= m
    BY <1>4, <1>7, <2>1
  <2>3. m \in Nat /\ z \in Nat /\ \A y \in T : y \in Nat
    BY <1>4, <1>5, <2>2
  <2>4. CASE z <= m
    BY <1>4, <2>2, <2>3, <2>4
  <2>5. CASE m <= z
    <3>1. \A y \in T : y <= z
      BY <2>2, <2>3, <2>5
    <3> QED
      BY <1>4, <1>5, <3>1
  <2> QED
    BY <2>3, <2>4, <2>5
<1> QED
  BY <1>6, <1>7

\* Nothing is written yet.
LEMMA ZeroFacts == Zero \in Work /\ Ahead(Zero) /\ Touches(Zero) /\ Zero.rows = {}
  BY DEF Zero, Work, Ahead, Touches, Pair

\* What one settlement declares.
LEMMA SettlementFacts ==
    ASSUME NEW d \in Settlement
    PROVE  /\ d.track \subseteq Pair /\ d.selected \subseteq Pair /\ d.global \subseteq Record
           /\ Named(d) \subseteq Stream /\ Records(d) \subseteq Record
           /\ d.global \subseteq Records(d)
           /\ \A p \in d.track \cup d.selected : p[1] \in Named(d) /\ p[2] \in Records(d)
  BY DEF Settlement, Named, Records, Pair

\* The invariant at one transaction.
LEMMA TxFacts ==
    ASSUME PublicationInv, NEW t \in Tx
    PROVE  /\ tx[t] \in Transactions /\ program[t] \in Program /\ Underway(t, tx[t])
           /\ tx[t].work \in Work /\ tx[t].saved \in Work /\ tx[t].member \in Nat
           /\ tx[t].todo \subseteq Nat /\ tx[t].attempt \in Nat
           /\ NoTx \notin Tx
<1>1. tx[t] \in Transactions /\ Underway(t, tx[t])
  BY DEF PublicationInv, PublicationTypes
<1>2. program[t] \in Program /\ NoTx \notin Tx
  BY PublicationAssumption DEF PublicationInv, PublicationTypes
<1> QED
  BY <1>1, <1>2 DEF Transactions

\* The settlement a transaction is at.
LEMMA MemberFacts ==
    ASSUME PublicationInv, NEW t \in Tx, tx[t].phase \in Statements
    PROVE  /\ tx[t].member \in DOMAIN program[t].members
           /\ Member(t) \in Settlement
           /\ Progress(tx[t], Member(t))
           /\ 1 \in DOMAIN program[t].members
<1>1. /\ program[t].members \in Seq(Settlement)
      /\ tx[t].member \in DOMAIN program[t].members
      /\ Progress(tx[t], Member(t))
  BY TxFacts DEF Underway, Member, Program
<1> QED
  BY <1>1 DEF Member

-----------------------------------------------------------------------------
(***************************************************************************)
(* Steps of one transaction.                                               *)
(***************************************************************************)

\* Only a commit disturbs what is known of the other transactions.
LEMMA UnderwayKept ==
    ASSUME UNCHANGED <<head, pos, program>>, NEW t, NEW k, Underway(t, k)
    PROVE  Underway(t, k)'
<1>1. \A w : (Ahead(w)' <=> Ahead(w)) /\ (Touches(w)' <=> Touches(w))
  BY DEF Ahead, Touches
<1>2. \A d : Progress(k, d)' <=> Progress(k, d)
  BY DEF Progress
<1>3. SnapshotKnows(k)' <=> SnapshotKnows(k)
  BY DEF SnapshotKnows
<1>4. InOrder(k)' <=> InOrder(k)
  BY DEF InOrder
<1> QED
  BY <1>1, <1>2, <1>3, <1>4 DEF Underway, Snapshot

\* A step of one transaction that commits nothing, takes only free rows and
\* gives up only its own.
Moves(t, k) ==
    /\ tx' = [tx EXCEPT ![t] = k]
    /\ UNCHANGED <<head, pos, program, fresh>>
    /\ owner' \in [Row -> Tx \cup {NoTx}]
    /\ \A x \in Row : owner'[x] = t <=> x \in k.work.rows
    /\ \A x \in Row : \/ owner'[x] = owner[x]
                      \/ owner[x] \in {t, NoTx} /\ owner'[x] \in {t, NoTx}

\* Such a step keeps the invariant if the transaction goes on as it should.
LEMMA OneMoves ==
    ASSUME PublicationInv, NEW t \in Tx, NEW k \in Transactions, Moves(t, k), Underway(t, k)
    PROVE  PublicationInv'
<1> USE DEF Moves
<1>1. tx'[t] = k /\ \A u \in Tx : u # t => tx'[u] = tx[u]
  BY DEF PublicationInv, PublicationTypes
<1>2. PublicationTypes'
  BY DEF PublicationInv, PublicationTypes
<1>3. LocksHeld'
  <2> SUFFICES ASSUME NEW u \in Tx, NEW x \in Row
               PROVE  owner'[x] = u <=> x \in tx'[u].work.rows
    BY DEF LocksHeld
  <2>1. CASE u = t
    BY <1>1, <2>1
  <2>2. CASE u # t
    <3>1. owner[x] = u <=> x \in tx[u].work.rows
      BY DEF PublicationInv, LocksHeld
    <3>2. u # NoTx
      BY TxFacts
    <3> QED
      BY <1>1, <2>2, <3>1, <3>2
  <2> QED
    BY <2>1, <2>2
<1>4. NoMissedInvalidation'
  BY DEF PublicationInv, NoMissedInvalidation
<1>5. ASSUME NEW u \in Tx PROVE Underway(u, tx[u])'
  <2>1. Underway(u, tx'[u])
    BY <1>1 DEF PublicationInv
  <2> QED
    BY <2>1, UnderwayKept
<1> QED
  BY <1>2, <1>3, <1>4, <1>5 DEF PublicationInv

\* The same when no row is taken or given up.
LEMMA SameLocks ==
    ASSUME PublicationInv, NEW t \in Tx, NEW k \in Transactions,
           tx' = [tx EXCEPT ![t] = k], UNCHANGED <<head, pos, owner, program, fresh>>,
           k.work.rows = tx[t].work.rows, Underway(t, k)
    PROVE  PublicationInv'
<1>1. owner \in [Row -> Tx \cup {NoTx}] /\ \A x \in Row : owner[x] = t <=> x \in k.work.rows
  BY DEF PublicationInv, PublicationTypes, LocksHeld
<1>2. owner' = owner
  OBVIOUS
<1>3. owner' \in [Row -> Tx \cup {NoTx}] /\ \A x \in Row : owner'[x] = t <=> x \in k.work.rows
  BY <1>1, <1>2
<1>4. \A x \in Row : owner'[x] = owner[x]
  BY <1>2
<1>5. Moves(t, k)
  BY <1>3, <1>4 DEF Moves
<1> QED
  BY <1>5, OneMoves

\* A new attempt, and a transaction that has failed or is done.
Rest(n, ph) == [Fresh(n) EXCEPT !.phase = ph]

\* It has written nothing and holds nothing.
LEMMA FreshFacts ==
    ASSUME NEW t, NEW n \in Nat, NEW ph \in {"begin", "failed", "done"},
           ph = "begin" => 1 \in DOMAIN program[t].members
    PROVE  Rest(n, ph) \in Transactions /\ Rest(n, ph).work.rows = {}
           /\ Underway(t, Rest(n, ph))
<1> DEFINE k == Rest(n, ph)
<1> USE DEF Rest
<1>1. /\ k.phase = ph /\ k.work = Zero /\ k.saved = Zero /\ k.member = 1
      /\ ph \notin Statements \cup {"committed"}
  BY DEF Fresh, Statements
<1>2. k \in Transactions
  BY ZeroFacts DEF Fresh, Transactions, Zero, Work
<1> HIDE DEF k, Rest
<1>3. Underway(t, k)
  BY <1>1, ZeroFacts DEF Underway
<1>4. k = Rest(n, ph)
  BY DEF k
<1> QED
  BY <1>1, <1>2, <1>3, <1>4, ZeroFacts

\* The attempt ends and gives up its locks.
LEMMA AbortKeepsInv ==
    ASSUME PublicationInv, NEW t \in Tx, NEW k \in Transactions, Abort(t, k),
           k.work.rows = {}, Underway(t, k)
    PROVE  PublicationInv'
<1>1. /\ owner' \in [Row -> Tx \cup {NoTx}]
      /\ \A x \in Row : owner'[x] = IF owner[x] = t THEN NoTx ELSE owner[x]
  BY DEF Abort, Released, PublicationInv, PublicationTypes
<1>2. NoTx # t
  BY TxFacts
<1>3. tx' = [tx EXCEPT ![t] = k] /\ UNCHANGED <<head, pos, program, fresh>>
  BY DEF Abort
<1>4. \A x \in Row : owner'[x] = t <=> x \in k.work.rows
  BY <1>1, <1>2
<1>5. \A x \in Row : \/ owner'[x] = owner[x]
                     \/ owner[x] \in {t, NoTx} /\ owner'[x] \in {t, NoTx}
  BY <1>1
<1>6. Moves(t, k)
  BY <1>1, <1>3, <1>4, <1>5 DEF Moves
<1> QED
  BY <1>6, OneMoves

\* A failed attempt starts again or fails for good.
LEMMA RetriedKeepsInv ==
    ASSUME PublicationInv, NEW t \in Tx, tx[t].phase \in Statements, Abort(t, Retried(t))
    PROVE  PublicationInv'
<1>1. 1 \in DOMAIN program[t].members /\ tx[t].attempt \in Nat /\ tx[t].attempt + 1 \in Nat
  BY MemberFacts, TxFacts
<1>2. \/ Retried(t) = Rest(tx[t].attempt + 1, "begin")
      \/ Retried(t) = Rest(tx[t].attempt, "failed")
  BY DEF Retried, Rest, Fresh
<1>3. Retried(t) \in Transactions /\ Retried(t).work.rows = {} /\ Underway(t, Retried(t))
  <2>1. CASE Retried(t) = Rest(tx[t].attempt + 1, "begin")
    BY <1>1, <2>1, FreshFacts
  <2>2. CASE Retried(t) = Rest(tx[t].attempt, "failed")
    BY <1>1, <2>2, FreshFacts
  <2> QED
    BY <1>2, <2>1, <2>2
<1> QED
  BY <1>3, AbortKeepsInv

\* A row is taken: it was free, and no version newer than the snapshot exists.
WithRow(k, x) == [k EXCEPT !.work.rows = @ \cup {x}]

\* Only the locks of what was written differ.
LEMMA WithRowFacts ==
    ASSUME NEW k \in Transactions, NEW x \in Row
    PROVE  LET n == WithRow(k, x)
           IN /\ n \in Transactions /\ n.work.rows = k.work.rows \cup {x}
              /\ n.phase = k.phase /\ n.attempt = k.attempt /\ n.member = k.member
              /\ n.saved = k.saved /\ n.seen = k.seen /\ n.stale = k.stale
              /\ n.locked = k.locked /\ n.todo = k.todo /\ n.publish = k.publish
              /\ n.work \in Work /\ n.work.head = k.work.head /\ n.work.pos = k.work.pos
              /\ n.work.cursor = k.work.cursor /\ n.work.touched = k.work.touched
              /\ n.work.changed = k.work.changed
  BY DEF WithRow, Transactions, Work

\* More locks do not change what was written.
LEMMA MoreRows ==
    ASSUME NEW w, NEW v, w.head = v.head, w.pos = v.pos, w.cursor = v.cursor,
           w.touched = v.touched, w.changed = v.changed, w.rows \subseteq v.rows
    PROVE  (Ahead(w) => Ahead(v)) /\ (Touches(w) => Touches(v))
  BY DEF Ahead, Touches

\* Taking it keeps the invariant if the transaction goes on as it should.
LEMMA TakeKeepsInv ==
    ASSUME PublicationInv, NEW t \in Tx, NEW x \in Row, NEW k \in Transactions,
           tx[t].phase \in Statements, Take(t, x, k), k.work.rows = tx[t].work.rows,
           ~Conflict(t, x) => Underway(t, WithRow(k, x))
    PROVE  PublicationInv'
<1>1. CASE Conflict(t, x)
  BY <1>1, RetriedKeepsInv DEF Take
<1>2. CASE ~Conflict(t, x)
  <2>1. /\ owner' = [owner EXCEPT ![x] = t] /\ tx' = [tx EXCEPT ![t] = WithRow(k, x)]
        /\ UNCHANGED <<head, pos, program, fresh>>
    BY <1>2 DEF Take, WithRow
  <2>2. /\ owner' \in [Row -> Tx \cup {NoTx}] /\ owner'[x] = t
        /\ \A y \in Row : y # x => owner'[y] = owner[y]
    BY <2>1 DEF PublicationInv, PublicationTypes
  <2>3. \A y \in Row : owner[y] = t <=> y \in tx[t].work.rows
    BY DEF PublicationInv, LocksHeld
  <2>4. owner[x] \in {t, NoTx}
    BY DEF Take, Free
  <2>5. WithRow(k, x) \in Transactions /\ WithRow(k, x).work.rows = tx[t].work.rows \cup {x}
    BY WithRowFacts
  <2>6. Moves(t, WithRow(k, x))
    <3> DEFINE n == WithRow(k, x)
    <3>1. \A y \in Row : owner'[y] = t <=> y \in n.work.rows
      BY <2>2, <2>3, <2>5
    <3>2. ASSUME NEW y \in Row
          PROVE  \/ owner'[y] = owner[y]
                 \/ owner[y] \in {t, NoTx} /\ owner'[y] \in {t, NoTx}
      <4>1. CASE y = x
        BY <2>2, <2>4, <4>1
      <4>2. CASE y # x
        BY <2>2, <4>2
      <4> QED
        BY <4>1, <4>2
    <3> HIDE DEF n
    <3> QED
      BY <2>1, <2>2, <3>1, <3>2 DEF Moves, n
  <2> QED
    BY <1>2, <2>5, <2>6, OneMoves
<1> QED
  BY <1>1, <1>2

-----------------------------------------------------------------------------
(***************************************************************************)
(* One lemma per statement.                                                *)
(***************************************************************************)

\* BEGIN takes a snapshot of what is committed.
LEMMA BeginKeepsInv ==
    ASSUME PublicationInv, NEW t \in Tx, Begin(t)
    PROVE  PublicationInv'
<1> DEFINE k == [tx[t] EXCEPT !.phase = "read", !.seen = [head |-> head, pos |-> pos]]
<1>1. /\ tx[t] \in Transactions /\ Underway(t, tx[t]) /\ tx[t].phase = "begin"
      /\ head \in [Stream -> Nat] /\ pos \in [Pair -> Nat]
  BY TxFacts DEF Begin, PublicationInv, PublicationTypes
<1>2. /\ k \in Transactions /\ k.phase = "read" /\ k.seen.pos = pos /\ k.work = tx[t].work
      /\ k.saved = tx[t].saved /\ k.member = tx[t].member
  BY <1>1 DEF Transactions, Statements
<1>3. tx' = [tx EXCEPT ![t] = k] /\ UNCHANGED <<head, pos, owner, program, fresh>>
  BY <1>1 DEF Begin, PublicationInv, PublicationTypes, Transactions
<1> HIDE DEF k
<1>4. tx[t].work = Zero
  BY <1>1 DEF Underway, Statements
<1>5. Underway(t, k)
  <2>1. Progress(k, program[t].members[k.member])
    BY <1>2 DEF Progress
  <2>2. SnapshotKnows(k) /\ InOrder(k)
    BY <1>2, <1>4, ZeroFacts DEF SnapshotKnows, InOrder
  <2> QED
    BY <1>1, <1>2, <2>1, <2>2 DEF Underway, Statements
<1> QED
  BY <1>2, <1>3, <1>5, SameLocks

\* The first read chooses the Streams to lock.
LEMMA ReadTrackingKeepsInv ==
    ASSUME PublicationInv, NEW t \in Tx, ReadTracking(t)
    PROVE  PublicationInv'
<1> DEFINE d == Member(t)
           w == IF program[t].grouped THEN [tx[t].work EXCEPT !.cursor = Zero.cursor]
                                      ELSE tx[t].work
           locked == Named(d) \cup {p[1] : p \in Tracking(t)}
           todo == {s \in locked : ViewHead(t, s) # 0}
           ph == IF Records(d) = {} THEN "finish" ELSE "streams"
           k == [tx[t] EXCEPT !.work = w, !.saved = w, !.locked = locked, !.phase = ph,
                              !.todo = todo]
<1>1. /\ tx[t] \in Transactions /\ Underway(t, tx[t]) /\ tx[t].phase = "read"
      /\ tx[t].work \in Work /\ d \in Settlement /\ "read" \in Statements
      /\ Stream \subseteq Nat
  BY TxFacts, MemberFacts, PublicationAssumption DEF ReadTracking, Statements
<1>2. locked \subseteq Stream /\ todo \subseteq Stream /\ Named(d) \subseteq locked
  <2>1. Tracking(t) \subseteq Pair
    BY DEF Tracking
  <2>2. \A p \in Pair : p[1] \in Stream
    BY DEF Pair
  <2> QED
    BY <1>1, <2>1, <2>2, SettlementFacts
<1>3. /\ w \in Work /\ w.rows = tx[t].work.rows /\ w.pos = tx[t].work.pos
      /\ w.head = tx[t].work.head /\ w.touched = tx[t].work.touched
      /\ w.changed = tx[t].work.changed
      /\ \A s \in Stream : w.cursor[s] # 0 => w.cursor[s] = tx[t].work.cursor[s]
  BY <1>1 DEF Work, Zero
<1>4. tx' = [tx EXCEPT ![t] = k] /\ UNCHANGED <<head, pos, owner, program, fresh>>
  BY <1>1 DEF ReadTracking, PublicationInv, PublicationTypes, Transactions
<1> HIDE DEF w, locked, todo, d
<1>5. ph \in {"finish", "streams"} /\ ph \in Statements
  BY DEF Statements
<1> HIDE DEF ph
<1>6. /\ k \in Transactions /\ k.phase = ph /\ k.work = w /\ k.saved = w /\ k.todo = todo
      /\ k.locked = locked /\ k.member = tx[t].member /\ k.seen = tx[t].seen
      /\ k.stale = tx[t].stale
  BY <1>1, <1>2, <1>3, <1>5 DEF Transactions
<1> HIDE DEF k
<1>7. Ahead(w) /\ Touches(w)
  <2>1. Ahead(tx[t].work) /\ Touches(tx[t].work)
    BY <1>1 DEF Underway
  <2> QED
    BY <1>3, <2>1 DEF Ahead, Touches
<1>8. Underway(t, k)
  <2>1. program[t].members[k.member] = d
    BY <1>6 DEF d, Member
  <2>2. Progress(k, d)
    BY <1>2, <1>5, <1>6 DEF Progress
  <2>3. Snapshot(t) => SnapshotKnows(k)
    BY <1>1, <1>3, <1>6 DEF Underway, SnapshotKnows
  <2>4. k.member = 1 => InOrder(k)
    BY <1>1, <1>3, <1>5, <1>6 DEF Underway, InOrder
  <2> QED
    BY <1>1, <1>5, <1>6, <1>7, <2>1, <2>2, <2>3, <2>4 DEF Underway, Statements
<1> QED
  BY <1>3, <1>4, <1>6, <1>8, SameLocks

\* One Stream row is locked: the least of those left.
LEMMA LockStreamKeepsInv ==
    ASSUME PublicationInv, NEW t \in Tx, LockStream(t)
    PROVE  PublicationInv'
<1> DEFINE s == Least(tx[t].todo)
           x == <<"stream", s>>
           k == [tx[t] EXCEPT !.todo = @ \ {s}]
           n == WithRow(k, x)
<1>1. /\ tx[t] \in Transactions /\ Underway(t, tx[t]) /\ tx[t].phase = "streams"
      /\ tx[t].todo # {} /\ tx[t].todo \subseteq Nat /\ "streams" \in Statements
      /\ Progress(tx[t], Member(t)) /\ tx[t].work \in Work
  BY TxFacts, MemberFacts DEF LockStream, Locking, Statements
<1>2. s \in tx[t].todo /\ s \in Stream /\ \A z \in tx[t].todo : s <= z
  BY <1>1, LeastFacts DEF Progress
<1>3. Take(t, x, k)
  BY DEF LockStream
<1> HIDE DEF s
<1>4. x \in Row
  BY <1>2 DEF Row
<1>5. /\ k \in Transactions /\ k.work = tx[t].work /\ k.phase = "streams"
      /\ k.todo = tx[t].todo \ {s} /\ k.saved = tx[t].saved /\ k.member = tx[t].member
      /\ k.seen = tx[t].seen /\ k.stale = tx[t].stale /\ k.locked = tx[t].locked
  BY <1>1 DEF Transactions
<1> HIDE DEF k
<1>6. ASSUME ~Conflict(t, x) PROVE Underway(t, n)
  <2>1. /\ n.phase = "streams" /\ n.member = tx[t].member /\ n.saved = tx[t].saved
        /\ n.seen = tx[t].seen /\ n.stale = tx[t].stale /\ n.locked = tx[t].locked
        /\ n.todo = tx[t].todo \ {s} /\ n.work.rows = tx[t].work.rows \cup {x}
        /\ n.work.head = tx[t].work.head /\ n.work.pos = tx[t].work.pos
        /\ n.work.cursor = tx[t].work.cursor /\ n.work.touched = tx[t].work.touched
        /\ n.work.changed = tx[t].work.changed
    BY <1>4, <1>5, WithRowFacts
  <2> HIDE DEF n
  <2>2. Ahead(n.work) /\ Touches(n.work)
    BY <1>1, <2>1, MoreRows DEF Underway
  <2>3. Progress(n, program[t].members[n.member])
    BY <1>1, <2>1 DEF Progress, Member
  <2>4. Snapshot(t) => SnapshotKnows(n)
    BY <1>1, <1>6, <2>1 DEF Underway, SnapshotKnows, Conflict
  <2>5. n.member = 1 => InOrder(n)
    <3> SUFFICES ASSUME n.member = 1 PROVE InOrder(n)
      OBVIOUS
    <3>1. InOrder(tx[t])
      BY <1>1, <2>1 DEF Underway
    <3>2. \A r \in Record : <<"record", r>> \notin n.work.rows
      BY <1>1, <2>1, <3>1 DEF InOrder, x
    <3>3. ASSUME NEW y \in Stream, <<"stream", y>> \in n.work.rows, NEW z \in n.todo PROVE y < z
      <4>1. CASE y = s
        <5>1. z \in Nat /\ s \in Nat /\ s <= z /\ s # z
          BY <1>1, <1>2, <2>1, <3>3
        <5> QED
          BY <4>1, <5>1
      <4>2. CASE y # s
        BY <1>1, <2>1, <3>1, <3>3, <4>2 DEF InOrder, x
      <4> QED
        BY <4>1, <4>2
    <3> QED
      BY <2>1, <3>2, <3>3 DEF InOrder
  <2> QED
    BY <1>1, <2>1, <2>2, <2>3, <2>4, <2>5 DEF Underway, Statements
<1> HIDE DEF x
<1> QED
  BY <1>1, <1>3, <1>4, <1>5, <1>6, TakeKeepsInv DEF n

\* The Streams are locked: the identities are next.
LEMMA StreamsLockedKeepsInv ==
    ASSUME PublicationInv, NEW t \in Tx, StreamsLocked(t)
    PROVE  PublicationInv'
<1> DEFINE d == Member(t)
           ph == While(Records(d), "guard", "reread")
           k == [tx[t] EXCEPT !.phase = ph, !.todo = Records(d)]
<1>1. /\ tx[t] \in Transactions /\ Underway(t, tx[t]) /\ tx[t].phase = "streams"
      /\ tx[t].work \in Work /\ d \in Settlement /\ "streams" \in Statements
      /\ Progress(tx[t], d) /\ Record \subseteq Nat
  BY TxFacts, MemberFacts, PublicationAssumption DEF StreamsLocked, Statements
<1>2. Records(d) \subseteq Record
  BY <1>1, SettlementFacts
<1>3. tx' = [tx EXCEPT ![t] = k] /\ UNCHANGED <<head, pos, owner, program, fresh>>
  BY <1>1 DEF StreamsLocked, PublicationInv, PublicationTypes, Transactions, Guards
<1> HIDE DEF d
<1>4. ph \in {"guard", "reread"} /\ ph \in Statements /\ (ph = "reread" => Records(d) = {})
  BY DEF While, Statements
<1> HIDE DEF ph
<1>5. /\ k \in Transactions /\ k.phase = ph /\ k.work = tx[t].work /\ k.saved = tx[t].saved
      /\ k.todo = Records(d) /\ k.locked = tx[t].locked /\ k.member = tx[t].member
      /\ k.seen = tx[t].seen /\ k.stale = tx[t].stale
  BY <1>1, <1>2, <1>4 DEF Transactions
<1> HIDE DEF k
<1>6. Underway(t, k)
  <2>1. program[t].members[k.member] = d
    BY <1>5 DEF d, Member
  <2>2. Progress(k, d)
    BY <1>1, <1>2, <1>4, <1>5 DEF Progress
  <2>3. Snapshot(t) => SnapshotKnows(k)
    BY <1>1, <1>5 DEF Underway, SnapshotKnows
  <2>4. k.member = 1 => InOrder(k)
    BY <1>1, <1>4, <1>5 DEF Underway, InOrder
  <2> QED
    BY <1>1, <1>4, <1>5, <2>1, <2>2, <2>3, <2>4 DEF Underway, Statements
<1> QED
  BY <1>3, <1>5, <1>6, SameLocks

\* One identity is guarded: the least of those left.
LEMMA GuardRecordKeepsInv ==
    ASSUME PublicationInv, NEW t \in Tx, GuardRecord(t)
    PROVE  PublicationInv'
<1> DEFINE r == Least(tx[t].todo)
           x == <<"record", r>>
           todo == tx[t].todo \ {r}
           ph == While(todo, "guard", "reread")
           k == [tx[t] EXCEPT !.todo = todo, !.phase = ph]
           n == WithRow(k, x)
<1>1. /\ tx[t] \in Transactions /\ Underway(t, tx[t]) /\ tx[t].phase = "guard"
      /\ tx[t].todo # {} /\ tx[t].todo \subseteq Nat /\ "guard" \in Statements
      /\ Progress(tx[t], Member(t)) /\ tx[t].work \in Work
  BY TxFacts, MemberFacts DEF GuardRecord, Locking, Statements
<1>2. r \in tx[t].todo /\ r \in Record /\ \A z \in tx[t].todo : r <= z
  BY <1>1, LeastFacts DEF Progress
<1>3. Take(t, x, k)
  BY DEF GuardRecord
<1> HIDE DEF r
<1>4. x \in Row
  BY <1>2 DEF Row
<1>5. ph \in {"guard", "reread"} /\ ph \in Statements /\ (ph = "reread" => todo = {})
  BY DEF While, Statements
<1> HIDE DEF ph
<1>6. /\ k \in Transactions /\ k.work = tx[t].work /\ k.phase = ph
      /\ k.todo = todo /\ k.saved = tx[t].saved /\ k.member = tx[t].member
      /\ k.seen = tx[t].seen /\ k.stale = tx[t].stale /\ k.locked = tx[t].locked
  BY <1>1, <1>5 DEF Transactions
<1> HIDE DEF k
<1>7. ASSUME ~Conflict(t, x) PROVE Underway(t, n)
  <2>1. /\ n.phase = ph /\ n.member = tx[t].member /\ n.saved = tx[t].saved
        /\ n.seen = tx[t].seen /\ n.stale = tx[t].stale /\ n.locked = tx[t].locked
        /\ n.todo = tx[t].todo \ {r} /\ n.work.rows = tx[t].work.rows \cup {x}
        /\ n.work.head = tx[t].work.head /\ n.work.pos = tx[t].work.pos
        /\ n.work.cursor = tx[t].work.cursor /\ n.work.touched = tx[t].work.touched
        /\ n.work.changed = tx[t].work.changed
    BY <1>4, <1>6, WithRowFacts
  <2> HIDE DEF n
  <2>2. Ahead(n.work) /\ Touches(n.work)
    BY <1>1, <2>1, MoreRows DEF Underway
  <2>3. Progress(n, program[t].members[n.member])
    <3>1. program[t].members[n.member] = Member(t)
      BY <2>1 DEF Member
    <3>2. \A q \in Records(Member(t)) : <<"record", q>> \in n.work.rows
                                       \/ (n.phase = "guard" /\ q \in n.todo)
      BY <1>1, <1>5, <2>1 DEF Progress
    <3> QED
      BY <1>1, <1>5, <2>1, <3>1, <3>2 DEF Progress
  <2>4. Snapshot(t) => SnapshotKnows(n)
    BY <1>1, <1>7, <2>1 DEF Underway, SnapshotKnows, Conflict
  <2>5. n.member = 1 => InOrder(n)
    <3> SUFFICES ASSUME n.member = 1 PROVE InOrder(n)
      OBVIOUS
    <3>1. InOrder(tx[t])
      BY <1>1, <2>1 DEF Underway
    <3>2. ASSUME NEW y \in Record, <<"record", y>> \in n.work.rows, NEW z \in n.todo PROVE y < z
      <4>1. CASE y = r
        <5>1. z \in Nat /\ r \in Nat /\ r <= z /\ r # z
          BY <1>1, <1>2, <2>1, <3>2
        <5> QED
          BY <4>1, <5>1
      <4>2. CASE y # r
        BY <1>1, <2>1, <3>1, <3>2, <4>2 DEF InOrder, x
      <4> QED
        BY <4>1, <4>2
    <3> QED
      BY <1>5, <2>1, <3>2 DEF InOrder
  <2> QED
    BY <1>1, <1>5, <2>1, <2>2, <2>3, <2>4, <2>5 DEF Underway, Statements
<1> HIDE DEF x
<1> QED
  BY <1>1, <1>3, <1>4, <1>6, <1>7, TakeKeepsInv DEF n

\* The second read, under the locks, sees every committed holder of a record
\* the settlement guards: a snapshot that missed one would have failed at the
\* record's guard.
LEMMA RereadSees ==
    ASSUME PublicationInv, NEW t \in Tx, tx[t].phase = "reread",
           NEW p \in Pair, p[2] \in Member(t).global, pos[p] # 0
    PROVE  p \in Tracking(t)
<1>1. /\ Underway(t, tx[t]) /\ "reread" \in Statements /\ Member(t) \in Settlement
      /\ Progress(tx[t], Member(t))
  BY TxFacts, MemberFacts DEF Statements
<1>2. <<"record", p[2]>> \in tx[t].work.rows
  BY <1>1, SettlementFacts DEF Progress
<1>3. Snapshot(t) => tx[t].seen.pos[p] # 0
  BY <1>1, <1>2 DEF Underway, SnapshotKnows
<1> QED
  BY <1>3 DEF Tracking, ViewTracked

\* A holder outside the locked Streams restarts the transaction; else every
\* Stream to publish to was locked or had no row.
LEMMA RereadKeepsInv ==
    ASSUME PublicationInv, NEW t \in Tx, Reread(t)
    PROVE  PublicationInv'
<1> DEFINE d == Member(t)
           after == Tracking(t)
           publish == Published(d, after)
           todo == {p[1] : p \in publish}
           ph == While(todo, "reserve", "apply")
           k == [tx[t] EXCEPT !.publish = publish, !.todo = todo, !.phase = ph]
<1>1. /\ tx[t] \in Transactions /\ Underway(t, tx[t]) /\ tx[t].phase = "reread"
      /\ tx[t].work \in Work /\ d \in Settlement /\ "reread" \in Statements
      /\ Progress(tx[t], d) /\ Stream \subseteq Nat
  BY TxFacts, MemberFacts, PublicationAssumption DEF Reread, Statements
<1>2. CASE Missed(t, after) # {}
  BY <1>1, <1>2, RetriedKeepsInv DEF Reread
<1>3. CASE Missed(t, after) = {}
  <2>1. tx' = [tx EXCEPT ![t] = k] /\ UNCHANGED <<head, pos, owner, program, fresh>>
    BY <1>1, <1>3 DEF Reread, PublicationInv, PublicationTypes, Transactions
  <2>2. /\ publish \subseteq Pair
        /\ \A p \in publish : p[1] \in tx[t].locked /\ p[2] \in Records(d)
    <3>1. /\ d.track \subseteq Pair /\ after \subseteq Pair
          /\ \A p \in d.track \cup d.selected : p[1] \in Named(d) /\ p[2] \in Records(d)
          /\ d.global \subseteq Records(d)
      BY <1>1, SettlementFacts DEF Tracking
    <3>2. Named(d) \subseteq tx[t].locked
      BY <1>1 DEF Progress
    <3>3. \A p \in after : p[2] \in d.global => p[1] \in tx[t].locked
      BY <1>3 DEF Missed
    <3> HIDE DEF d, after
    <3> QED
      BY <3>1, <3>2, <3>3 DEF Published
  <2>3. \A p \in Pair : p[2] \in d.global /\ pos[p] # 0 => p \in publish
    BY <1>1, RereadSees DEF Published
  <2>4. /\ \A p \in publish : p[1] \in todo
        /\ todo \subseteq Stream /\ todo \subseteq tx[t].locked
    <3>1. \A p \in Pair : p[1] \in Stream
      BY DEF Pair
    <3> HIDE DEF publish
    <3> QED
      BY <2>2, <3>1
  <2> HIDE DEF d, publish, todo
  <2>5. /\ ph \in {"reserve", "apply"} /\ ph \in Statements /\ (ph = "apply" => publish = {})
    BY <2>4 DEF While, Statements
  <2> HIDE DEF ph
  <2>6. /\ k \in Transactions /\ k.phase = ph /\ k.work = tx[t].work /\ k.saved = tx[t].saved
        /\ k.todo = todo /\ k.locked = tx[t].locked /\ k.member = tx[t].member
        /\ k.seen = tx[t].seen /\ k.stale = tx[t].stale /\ k.publish = publish
    BY <1>1, <2>2, <2>4, <2>5 DEF Transactions
  <2> HIDE DEF k
  <2>7. Underway(t, k)
    <3>1. program[t].members[k.member] = d
      BY <2>6 DEF d, Member
    <3>2. Progress(k, d)
      <4>1. \A r \in Records(d) : <<"record", r>> \in k.work.rows
        BY <1>1, <2>6 DEF Progress
      <4> QED
        BY <2>2, <2>3, <2>4, <2>5, <2>6, <4>1 DEF Progress
    <3>3. Snapshot(t) => SnapshotKnows(k)
      BY <1>1, <2>6 DEF Underway, SnapshotKnows
    <3>4. k.member = 1 => InOrder(k)
      BY <2>4, <2>5, <2>6 DEF InOrder
    <3> QED
      BY <1>1, <2>5, <2>6, <3>1, <3>2, <3>3, <3>4 DEF Underway, Statements
  <2> QED
    BY <2>1, <2>6, <2>7, SameLocks
<1> QED
  BY <1>2, <1>3

\* A cursor is the successor of the row's newest version, under its lock.
Reserved(w, s, c) == [w EXCEPT !.head[s] = c, !.cursor[s] = c]

\* The cursor of one Stream lies above everything written there so far.
LEMMA ReservedFacts ==
    ASSUME NEW w \in Work, NEW s \in Stream, NEW x \in Row, x = <<"stream", s>>, Ahead(w),
           head \in [Stream -> Nat], NEW c \in Nat,
           c = (IF w.head[s] # 0 THEN w.head[s] ELSE head[s]) + 1,
           NEW v \in Work, v.head = Reserved(w, s, c).head, v.cursor = Reserved(w, s, c).cursor,
           v.pos = w.pos, v.changed = w.changed, v.rows = w.rows \cup {x}
    PROVE  Ahead(v)
<1>1. /\ v.head = [w.head EXCEPT ![s] = c] /\ v.cursor = [w.cursor EXCEPT ![s] = c]
      /\ w.head \in [Stream -> Nat] /\ w.cursor \in [Stream -> Nat] /\ w.pos \in [Pair -> Nat]
  BY DEF Reserved, Work
<1>2. /\ v.head[s] = c /\ v.cursor[s] = c
      /\ \A z \in Stream : z # s => v.head[z] = w.head[z] /\ v.cursor[z] = w.cursor[z]
  BY <1>1
<1>3. /\ head[s] \in Nat /\ w.head[s] \in Nat /\ w.head[s] <= c
      /\ w.head[s] # 0 => head[s] < w.head[s]
  BY <1>1 DEF Ahead
<1>4. head[s] < c
  BY <1>3
<1>5. \A z \in Stream : v.head[z] # 0 => head[z] < v.head[z] /\ <<"stream", z>> \in v.rows
  BY <1>2, <1>4 DEF Ahead
<1>6. \A z \in Stream : v.cursor[z] # 0 => head[z] < v.cursor[z] /\ v.cursor[z] <= v.head[z]
  BY <1>2, <1>4 DEF Ahead
<1>7. ASSUME NEW p \in Pair, w.pos[p] # 0
      PROVE  /\ head[p[1]] < v.pos[p] /\ v.pos[p] <= v.head[p[1]]
             /\ <<"record", p[2]>> \in v.rows
  <2>1. /\ head[p[1]] < w.pos[p] /\ w.pos[p] <= w.head[p[1]]
        /\ <<"record", p[2]>> \in w.rows
    BY <1>7 DEF Ahead
  <2>2. p[1] \in Stream /\ w.pos[p] \in Nat /\ w.head[p[1]] \in Nat
    BY <1>1 DEF Pair
  <2>3. CASE p[1] = s
    BY <1>2, <1>3, <2>1, <2>2, <2>3
  <2>4. CASE p[1] # s
    BY <1>2, <2>1, <2>2, <2>4
  <2> QED
    BY <2>3, <2>4
<1>8. /\ \A r \in v.changed : <<"record", r>> \in v.rows
      /\ \A p \in Pair : p[2] \in v.changed /\ pos[p] # 0 => v.pos[p] # 0
  BY DEF Ahead
<1> QED
  BY <1>5, <1>6, <1>7, <1>8 DEF Ahead

\* One Stream is reserved, or its scope has a cursor already; a Stream at the
\* greatest head fails the transaction.
LEMMA ReserveKeepsInv ==
    ASSUME PublicationInv, NEW t \in Tx, Reserve(t)
    PROVE  PublicationInv'
<1> DEFINE s == Least(tx[t].todo)
           todo == tx[t].todo \ {s}
           x == <<"stream", s>>
           base == Base(t, s)
           ph == While(todo, "reserve", "apply")
           next == [tx[t] EXCEPT !.todo = todo, !.phase = ph]
           d == Member(t)
<1>1. /\ tx[t] \in Transactions /\ Underway(t, tx[t]) /\ tx[t].phase = "reserve"
      /\ tx[t].todo # {} /\ tx[t].todo \subseteq Nat /\ "reserve" \in Statements
      /\ Progress(tx[t], d) /\ tx[t].work \in Work /\ head \in [Stream -> Nat]
      /\ tx[t].attempt \in Nat /\ tx[t].work.head \in [Stream -> Nat]
  BY TxFacts, MemberFacts DEF Reserve, Locking, Statements, PublicationInv, PublicationTypes, Work
<1>2. s \in tx[t].todo /\ s \in Stream
  BY <1>1, LeastFacts DEF Progress
<1>3. CASE tx[t].work.cursor[s] # 0
  <2>1. tx' = [tx EXCEPT ![t] = next] /\ UNCHANGED <<head, pos, owner, program, fresh>>
    BY <1>3 DEF Reserve
  <2> HIDE DEF s, d
  <2>2. ph \in {"reserve", "apply"} /\ ph \in Statements /\ (ph = "apply" => todo = {})
    BY DEF While, Statements
  <2> HIDE DEF ph
  <2>3. /\ next \in Transactions /\ next.work = tx[t].work /\ next.phase = ph
        /\ next.todo = todo /\ next.saved = tx[t].saved /\ next.member = tx[t].member
        /\ next.seen = tx[t].seen /\ next.stale = tx[t].stale /\ next.locked = tx[t].locked
        /\ next.publish = tx[t].publish
    BY <1>1, <2>2 DEF Transactions
  <2> HIDE DEF next
  <2>4. Underway(t, next)
    <3>1. program[t].members[next.member] = d
      BY <2>3 DEF d, Member
    <3>2. Progress(next, d)
      BY <1>1, <1>3, <2>2, <2>3 DEF Progress
    <3>3. Snapshot(t) => SnapshotKnows(next)
      BY <1>1, <2>3 DEF Underway, SnapshotKnows
    <3>4. next.member = 1 => InOrder(next)
      BY <1>1, <2>2, <2>3 DEF Underway, InOrder
    <3> QED
      BY <1>1, <2>2, <2>3, <3>1, <3>2, <3>3, <3>4 DEF Underway, Statements
  <2> QED
    BY <2>1, <2>3, <2>4, SameLocks
<1>4. CASE tx[t].work.cursor[s] = 0 /\ base = GreatestHead /\ Free(t, x)
  <2>1. Abort(t, Rest(tx[t].attempt, "failed"))
    BY <1>4 DEF Reserve, Rest
  <2>2. LET k == Rest(tx[t].attempt, "failed")
        IN k \in Transactions /\ k.work.rows = {} /\ Underway(t, k)
    BY <1>1, FreshFacts
  <2> QED
    BY <2>1, <2>2, AbortKeepsInv
<1>5. CASE tx[t].work.cursor[s] = 0 /\ ~(base = GreatestHead /\ Free(t, x))
  <2> DEFINE k == [next EXCEPT !.work.head[s] = base + 1, !.work.cursor[s] = base + 1]
             v == Reserved(tx[t].work, s, base + 1)
             n == WithRow(k, x)
  <2>1. Take(t, x, k)
    BY <1>5 DEF Reserve
  <2>2. /\ x \in Row /\ base + 1 \in Nat
        /\ base = IF tx[t].work.head[s] # 0 THEN tx[t].work.head[s] ELSE head[s]
    BY <1>1, <1>2 DEF Base, Row
  <2> HIDE DEF s, d, base
  <2>3. ph \in {"reserve", "apply"} /\ ph \in Statements /\ (ph = "apply" => todo = {})
    BY DEF While, Statements
  <2> HIDE DEF ph
  <2>4. /\ v \in Work /\ v.rows = tx[t].work.rows /\ v.pos = tx[t].work.pos
        /\ v.touched = tx[t].work.touched /\ v.changed = tx[t].work.changed
        /\ v.cursor = [tx[t].work.cursor EXCEPT ![s] = base + 1]
    BY <1>1, <1>2, <2>2 DEF Reserved, Work
  <2>5. /\ next \in Transactions /\ next.work = tx[t].work /\ next.phase = ph
        /\ next.todo = todo /\ next.saved = tx[t].saved /\ next.member = tx[t].member
        /\ next.seen = tx[t].seen /\ next.stale = tx[t].stale /\ next.locked = tx[t].locked
        /\ next.publish = tx[t].publish
    BY <1>1, <2>3 DEF Transactions
  <2> HIDE DEF next
  <2>8. k = [next EXCEPT !.work = v]
    <3>1. k = [next EXCEPT !.work = Reserved(next.work, s, base + 1)]
      BY <2>5 DEF Reserved, Transactions, Work
    <3> QED
      BY <2>5, <3>1
  <2> HIDE DEF v, todo, k
  <2>6. /\ k \in Transactions /\ k.work = v /\ k.phase = ph
        /\ k.todo = todo /\ k.saved = tx[t].saved /\ k.member = tx[t].member
        /\ k.seen = tx[t].seen /\ k.stale = tx[t].stale /\ k.locked = tx[t].locked
        /\ k.publish = tx[t].publish
    BY <2>4, <2>5, <2>8 DEF Transactions
  <2>7. ASSUME ~Conflict(t, x) PROVE Underway(t, n)
    <3>1. /\ n.phase = ph /\ n.member = tx[t].member /\ n.saved = tx[t].saved
          /\ n.seen = tx[t].seen /\ n.stale = tx[t].stale /\ n.locked = tx[t].locked
          /\ n.todo = todo /\ n.publish = tx[t].publish
          /\ n.work \in Work /\ n.work.rows = tx[t].work.rows \cup {x}
          /\ n.work.head = v.head /\ n.work.pos = tx[t].work.pos
          /\ n.work.cursor = v.cursor /\ n.work.touched = tx[t].work.touched
          /\ n.work.changed = tx[t].work.changed
      BY <2>2, <2>4, <2>6, WithRowFacts
    <3> HIDE DEF n
    <3>2. Ahead(n.work)
      BY <1>1, <1>2, <2>2, <3>1, ReservedFacts DEF Underway, v
    <3>3. Touches(n.work)
      BY <1>1, <3>1 DEF Underway, Touches
    <3>4. program[t].members[n.member] = d
      BY <3>1 DEF d, Member
    <3>5. Progress(n, d)
      <4>1. /\ tx[t].publish \subseteq Pair /\ tx[t].work.cursor \in [Stream -> Nat]
            /\ \A p \in Pair : p[1] \in Stream
        BY <1>1 DEF Transactions, Work, Pair
      <4>2. \A z \in Stream : n.work.cursor[z] = IF z = s THEN base + 1 ELSE tx[t].work.cursor[z]
        BY <1>2, <2>4, <3>1, <4>1
      <4>3. base + 1 # 0
        BY <1>1, <1>2, <2>2
      <4>4. \A p \in n.publish :
               /\ p[2] \in Records(d)
               /\ n.work.cursor[p[1]] # 0 \/ (ph = "reserve" /\ p[1] \in todo)
        BY <1>1, <2>3, <3>1, <4>1, <4>2, <4>3 DEF Progress, todo
      <4>5. \A r \in Records(d) : <<"record", r>> \in n.work.rows
        <5>1. \A r \in Records(d) : <<"record", r>> \in tx[t].work.rows
          BY <1>1 DEF Progress
        <5>2. tx[t].work.rows \subseteq n.work.rows
          BY <3>1
        <5> QED
          BY <5>1, <5>2
      <4>6. todo \subseteq Stream /\ \A p \in Pair : p[2] \in d.global /\ pos[p] # 0 => p \in n.publish
        BY <1>1, <3>1 DEF Progress, todo
      <4> QED
        BY <2>3, <3>1, <4>4, <4>5, <4>6 DEF Progress
    <3>6. Snapshot(t) => SnapshotKnows(n)
      BY <1>1, <2>7, <3>1 DEF Underway, SnapshotKnows, Conflict
    <3>7. n.member = 1 => InOrder(n)
      BY <1>1, <2>3, <3>1 DEF Underway, InOrder, todo
    <3> QED
      BY <1>1, <2>3, <3>1, <3>2, <3>3, <3>4, <3>5, <3>6, <3>7 DEF Underway, Statements
  <2> HIDE DEF x
  <2> QED
    BY <1>1, <2>1, <2>2, <2>4, <2>6, <2>7, TakeKeepsInv DEF n
<1> QED
  BY <1>3, <1>4, <1>5

\* The positions are written: every published pair has its Stream's cursor.
LEMMA ApplyKeepsInv ==
    ASSUME PublicationInv, NEW t \in Tx, Apply(t)
    PROVE  PublicationInv'
<1> DEFINE d == Member(t)
           w == tx[t].work
           v == [w EXCEPT !.pos = [p \in Pair |-> IF p \in tx[t].publish
                                                     THEN w.cursor[p[1]] ELSE w.pos[p]],
                          !.touched = @ \cup {p[1] : p \in tx[t].publish},
                          !.changed = @ \cup d.global]
           k == [tx[t] EXCEPT !.phase = "finish", !.publish = {}, !.work = v]
<1>1. /\ tx[t] \in Transactions /\ Underway(t, tx[t]) /\ tx[t].phase = "apply"
      /\ w \in Work /\ d \in Settlement /\ "apply" \in Statements
      /\ Progress(tx[t], d) /\ tx[t].publish \subseteq Pair
      /\ Ahead(w) /\ Touches(w)
  <2>1. tx[t] \in Transactions /\ Underway(t, tx[t]) /\ tx[t].phase = "apply" /\ w \in Work
    BY TxFacts DEF Apply
  <2>2. "apply" \in Statements
    BY DEF Statements
  <2>3. d \in Settlement /\ Progress(tx[t], d)
    BY <2>1, <2>2, MemberFacts
  <2> QED
    BY <2>1, <2>2, <2>3 DEF Underway, Transactions
<1>2. /\ \A p \in tx[t].publish : p[2] \in Records(d) /\ w.cursor[p[1]] # 0 /\ p[1] \in Stream
      /\ \A r \in Records(d) : <<"record", r>> \in w.rows
      /\ \A p \in Pair : p[2] \in d.global /\ pos[p] # 0 => p \in tx[t].publish
      /\ d.global \subseteq Records(d) /\ d.global \subseteq Record
  BY <1>1, SettlementFacts DEF Progress, Pair
<1>3. tx' = [tx EXCEPT ![t] = k] /\ UNCHANGED <<head, pos, owner, program, fresh>>
  BY <1>1 DEF Apply, PublicationInv, PublicationTypes, Transactions
<1>4. /\ v.head = w.head /\ v.cursor = w.cursor /\ v.rows = w.rows
      /\ v.touched = w.touched \cup {p[1] : p \in tx[t].publish}
      /\ v.changed = w.changed \cup d.global
      /\ \A p \in Pair : v.pos[p] = IF p \in tx[t].publish THEN w.cursor[p[1]] ELSE w.pos[p]
  BY <1>1 DEF Work
<1>5. v \in Work
  <2>1. w.cursor \in [Stream -> Nat] /\ w.pos \in [Pair -> Nat] /\ \A p \in Pair : p[1] \in Stream
    BY <1>1 DEF Work, Pair
  <2>2. [p \in Pair |-> IF p \in tx[t].publish THEN w.cursor[p[1]] ELSE w.pos[p]] \in [Pair -> Nat]
    BY <2>1
  <2>3. {p[1] : p \in tx[t].publish} \subseteq Stream
    BY <1>2
  <2> QED
    BY <1>1, <1>2, <2>2, <2>3 DEF Work
<1> HIDE DEF v, d
<1>6. /\ k \in Transactions /\ k.phase = "finish" /\ k.work = v /\ k.saved = tx[t].saved
      /\ k.member = tx[t].member /\ k.seen = tx[t].seen /\ k.stale = tx[t].stale
  BY <1>1, <1>5 DEF Transactions, Statements
<1> HIDE DEF k
<1>7. Ahead(v)
  <2>1. ASSUME NEW p \in Pair, v.pos[p] # 0
        PROVE  /\ head[p[1]] < v.pos[p] /\ v.pos[p] <= v.head[p[1]]
               /\ <<"record", p[2]>> \in v.rows
    <3>1. CASE p \in tx[t].publish
      BY <1>1, <1>2, <1>4, <3>1 DEF Ahead
    <3>2. CASE p \notin tx[t].publish
      BY <1>1, <1>4, <2>1, <3>2 DEF Ahead
    <3> QED
      BY <3>1, <3>2
  <2>2. \A r \in v.changed : <<"record", r>> \in v.rows
    BY <1>1, <1>2, <1>4 DEF Ahead
  <2>3. ASSUME NEW p \in Pair, p[2] \in v.changed, pos[p] # 0 PROVE v.pos[p] # 0
    BY <1>1, <1>2, <1>4, <2>3 DEF Ahead
  <2> QED
    BY <1>1, <1>4, <2>1, <2>2, <2>3 DEF Ahead
<1>8. Touches(v)
  <2>1. ASSUME NEW p \in Pair, v.pos[p] # 0 PROVE p[1] \in v.touched
    BY <1>1, <1>4, <2>1 DEF Touches
  <2>2. ASSUME NEW s \in v.touched PROVE \E p \in Pair : p[1] = s /\ v.pos[p] # 0
    <3>1. CASE s \in w.touched
      BY <1>1, <1>2, <1>4, <3>1 DEF Touches
    <3>2. CASE s \in {p[1] : p \in tx[t].publish}
      BY <1>1, <1>2, <1>4, <3>2
    <3> QED
      BY <1>4, <2>2, <3>1, <3>2
  <2> QED
    BY <2>1, <2>2 DEF Touches
<1>9. Underway(t, k)
  <2>1. Progress(k, program[t].members[k.member]) /\ InOrder(k)
    BY <1>6 DEF Progress, InOrder
  <2>2. Snapshot(t) => SnapshotKnows(k)
    BY <1>1, <1>4, <1>6 DEF Underway, SnapshotKnows
  <2> QED
    BY <1>1, <1>4, <1>6, <1>7, <1>8, <2>1, <2>2 DEF Underway, Statements
<1> QED
  BY <1>3, <1>4, <1>6, <1>9, SameLocks

\* The member ends: a refused one gives back what its savepoint undoes.
LEMMA FinishKeepsInv ==
    ASSUME PublicationInv, NEW t \in Tx, Finish(t)
    PROVE  PublicationInv'
<1> DEFINE w == IF Member(t).refused THEN Undone(t) ELSE tx[t].work
           last == tx[t].member = Len(program[t].members)
           ph == IF last THEN "commit" ELSE "read"
           m == IF last THEN tx[t].member ELSE tx[t].member + 1
           k == [tx[t] EXCEPT !.work = w, !.locked = {}, !.todo = {}, !.saved = Zero,
                              !.phase = ph, !.member = m]
<1>1. /\ tx[t] \in Transactions /\ Underway(t, tx[t]) /\ tx[t].phase = "finish"
      /\ tx[t].work \in Work /\ tx[t].saved \in Work /\ "finish" \in Statements
      /\ tx[t].member \in DOMAIN program[t].members /\ program[t] \in Program
      /\ NoTx \notin Tx
  BY TxFacts, MemberFacts DEF Finish, Statements
<1>2. /\ w \in Work /\ Ahead(w) /\ Touches(w) /\ w.rows \subseteq tx[t].work.rows
  BY <1>1 DEF Underway, Undone
<1>3. m \in DOMAIN program[t].members /\ m \in Nat /\ (m = 1 => ph = "commit")
      /\ ph \in {"commit", "read"} /\ ph \in Statements
  <2>1. program[t].members \in Seq(Settlement)
    BY <1>1 DEF Program
  <2>2. Len(program[t].members) \in Nat /\ tx[t].member \in 1..Len(program[t].members)
    BY <1>1, <2>1
  <2>3. \A l \in Nat : \A q \in 1..l : q # l => q + 1 \in 1..l /\ q + 1 # 1
    OBVIOUS
  <2>4. m \in 1..Len(program[t].members) /\ (m = 1 => last)
    BY <2>2, <2>3
  <2> QED
    BY <2>1, <2>2, <2>4 DEF Statements
<1>4. tx' = [tx EXCEPT ![t] = k] /\ UNCHANGED <<head, pos, program, fresh>>
  BY <1>1 DEF Finish, PublicationInv, PublicationTypes, Transactions
<1>5. owner' = [x \in Row |-> IF owner[x] = t /\ x \notin w.rows THEN NoTx ELSE owner[x]]
  BY DEF Finish
<1> HIDE DEF w, ph, m
<1>6. /\ k \in Transactions /\ k.phase = ph /\ k.work = w /\ k.saved = Zero
      /\ k.member = m /\ k.seen = tx[t].seen /\ k.stale = tx[t].stale
  BY <1>1, <1>2, <1>3, ZeroFacts DEF Transactions
<1> HIDE DEF k
<1>7. Underway(t, k)
  <2>1. Progress(k, program[t].members[k.member]) /\ (k.member = 1 => InOrder(k))
    BY <1>3, <1>6 DEF Progress, InOrder
  <2>2. Snapshot(t) => SnapshotKnows(k)
    BY <1>1, <1>2, <1>6 DEF Underway, SnapshotKnows
  <2> QED
    BY <1>2, <1>3, <1>6, <2>1, <2>2, ZeroFacts DEF Underway, Statements
<1>8. Moves(t, k)
  <2>1. owner \in [Row -> Tx \cup {NoTx}] /\ \A x \in Row : owner[x] = t <=> x \in tx[t].work.rows
    BY DEF PublicationInv, PublicationTypes, LocksHeld
  <2>2. /\ owner' \in [Row -> Tx \cup {NoTx}]
        /\ \A x \in Row : owner'[x] = IF owner[x] = t /\ x \notin w.rows THEN NoTx ELSE owner[x]
    BY <1>5, <2>1
  <2>3. \A x \in Row : owner'[x] = t <=> x \in k.work.rows
    BY <1>1, <1>2, <1>6, <2>1, <2>2
  <2>4. \A x \in Row : \/ owner'[x] = owner[x]
                       \/ owner[x] \in {t, NoTx} /\ owner'[x] \in {t, NoTx}
    BY <2>2
  <2> QED
    BY <1>4, <2>2, <2>3, <2>4 DEF Moves
<1> QED
  BY <1>6, <1>7, <1>8, OneMoves

-----------------------------------------------------------------------------
(***************************************************************************)
(* COMMIT and the ends of a transaction.                                   *)
(***************************************************************************)

\* What becomes visible: nothing moves on a row the transaction has not locked.
LEMMA CommitMoves ==
    ASSUME PublicationInv, NEW t \in Tx, Commit(t)
    PROVE  /\ head' \in [Stream -> Nat] /\ pos' \in [Pair -> Nat]
           /\ tx[t].work \in Work /\ Ahead(tx[t].work) /\ Touches(tx[t].work)
           /\ \A s \in Stream :
                 head'[s] = IF tx[t].work.head[s] # 0 THEN tx[t].work.head[s] ELSE head[s]
           /\ \A p \in Pair :
                 pos'[p] = IF tx[t].work.pos[p] # 0 THEN tx[t].work.pos[p] ELSE pos[p]
           /\ \A s \in Stream : <<"stream", s>> \notin tx[t].work.rows => head'[s] = head[s]
           /\ \A p \in Pair : <<"record", p[2]>> \notin tx[t].work.rows => pos'[p] = pos[p]
<1> DEFINE w == tx[t].work
<1>1. w \in Work /\ Ahead(w) /\ Touches(w) /\ head \in [Stream -> Nat] /\ pos \in [Pair -> Nat]
  BY TxFacts DEF Commit, Underway, PublicationInv, PublicationTypes
<1>2. /\ head' = [s \in Stream |-> IF w.head[s] # 0 THEN w.head[s] ELSE head[s]]
      /\ pos' = [p \in Pair |-> IF w.pos[p] # 0 THEN w.pos[p] ELSE pos[p]]
  BY DEF Commit
<1>3. w.head \in [Stream -> Nat] /\ w.pos \in [Pair -> Nat]
  BY <1>1 DEF Work
<1>4. head' \in [Stream -> Nat] /\ pos' \in [Pair -> Nat]
  BY <1>1, <1>2, <1>3
<1>5. /\ \A s \in Stream : head'[s] = IF w.head[s] # 0 THEN w.head[s] ELSE head[s]
      /\ \A p \in Pair : pos'[p] = IF w.pos[p] # 0 THEN w.pos[p] ELSE pos[p]
  BY <1>2
<1>6. /\ \A s \in Stream : <<"stream", s>> \notin w.rows => head'[s] = head[s]
      /\ \A p \in Pair : <<"record", p[2]>> \notin w.rows => pos'[p] = pos[p]
  BY <1>1, <1>5 DEF Ahead
<1> QED
  BY <1>1, <1>4, <1>5, <1>6

\* The locks keep another transaction's writes ahead of what was committed.
LEMMA CommitKeepsAhead ==
    ASSUME PublicationInv, NEW t \in Tx, Commit(t), NEW v \in Work, Ahead(v),
           v.rows \cap tx[t].work.rows = {}
    PROVE  Ahead(v)'
<1>1. /\ \A s \in Stream : <<"stream", s>> \in v.rows => head'[s] = head[s]
      /\ \A p \in Pair : <<"record", p[2]>> \in v.rows => pos'[p] = pos[p]
  BY CommitMoves
<1>2. v.head \in [Stream -> Nat] /\ v.cursor \in [Stream -> Nat] /\ v.pos \in [Pair -> Nat]
  BY DEF Work
<1>3. \A s \in Stream : v.cursor[s] # 0 => v.head[s] # 0
  <2> SUFFICES ASSUME NEW s \in Stream, v.cursor[s] # 0 PROVE v.head[s] # 0
    OBVIOUS
  <2>1. v.cursor[s] <= v.head[s] /\ v.cursor[s] \in Nat /\ v.head[s] \in Nat
    BY <1>2 DEF Ahead
  <2> QED
    BY <2>1
<1>4. \A p \in Pair : p[1] \in Stream /\ (v.pos[p] # 0 => v.head[p[1]] # 0)
  <2> SUFFICES ASSUME NEW p \in Pair
               PROVE  p[1] \in Stream /\ (v.pos[p] # 0 => v.head[p[1]] # 0)
    OBVIOUS
  <2>1. p[1] \in Stream
    BY DEF Pair
  <2>2. v.pos[p] # 0 => v.pos[p] <= v.head[p[1]] /\ v.pos[p] \in Nat /\ v.head[p[1]] \in Nat
    BY <1>2, <2>1 DEF Ahead
  <2> QED
    BY <2>1, <2>2
<1>5. \A s \in Stream : v.head[s] # 0 => head'[s] = head[s]
  BY <1>1 DEF Ahead
<1>6. \A p \in Pair : v.pos[p] # 0 => head'[p[1]] = head[p[1]]
  BY <1>4, <1>5
<1>7. \A s \in Stream : v.cursor[s] # 0 => head'[s] = head[s]
  BY <1>3, <1>5
<1>8. \A p \in Pair : p[2] \in v.changed => pos'[p] = pos[p]
  BY <1>1 DEF Ahead
<1> QED
  BY <1>5, <1>6, <1>7, <1>8 DEF Ahead

\* Another transaction goes on as it did, told of the rows that changed.
LEMMA CommitKeepsOther ==
    ASSUME PublicationInv, NEW t \in Tx, Commit(t), NEW u \in Tx, NEW k \in Transactions,
           k.phase = tx[u].phase, k.member = tx[u].member, k.work = tx[u].work,
           k.saved = tx[u].saved, k.seen = tx[u].seen, k.locked = tx[u].locked,
           k.todo = tx[u].todo, k.publish = tx[u].publish,
           k.phase \in Statements /\ Snapshot(u) =>
               k.stale = tx[u].stale \cup tx[t].work.rows,
           tx[u].work.rows \cap tx[t].work.rows = {}
    PROVE  Underway(u, k)'
<1> DEFINE d == program[u].members[k.member]
<1>1. Underway(u, tx[u]) /\ k.work \in Work /\ k.saved \in Work /\ program' = program
  BY TxFacts DEF Commit
<1>2. k.phase # "committed" => Ahead(k.work)' /\ Ahead(k.saved)'
  <2> SUFFICES ASSUME k.phase # "committed" PROVE Ahead(k.work)' /\ Ahead(k.saved)'
    OBVIOUS
  <2>1. Ahead(k.work) /\ Ahead(k.saved) /\ k.saved.rows \subseteq k.work.rows
    BY <1>1 DEF Underway
  <2>2. k.saved.rows \cap tx[t].work.rows = {} /\ k.work.rows \cap tx[t].work.rows = {}
    BY <2>1
  <2> QED
    BY <1>1, <2>1, <2>2, CommitKeepsAhead
<1>3. k.phase \in Statements => Progress(k, d)'
  <2> SUFFICES ASSUME k.phase \in Statements PROVE Progress(k, d)'
    OBVIOUS
  <2>1. Progress(tx[u], d) /\ d \in Settlement
    BY MemberFacts DEF Member
  <2>2. d' = d
    BY <1>1
  <2> HIDE DEF d
  <2>3. k.phase \in {"reserve", "apply"} => \A p \in Pair : p[2] \in d.global => pos'[p] = pos[p]
    <3> SUFFICES ASSUME k.phase \in {"reserve", "apply"}, NEW p \in Pair, p[2] \in d.global
                 PROVE  pos'[p] = pos[p]
      OBVIOUS
    <3>1. p[2] \in Records(d)
      BY <2>1, SettlementFacts
    <3>2. <<"record", p[2]>> \in tx[u].work.rows
      BY <2>1, <3>1 DEF Progress
    <3> QED
      BY <3>2, CommitMoves
  <2> QED
    BY <2>1, <2>2, <2>3 DEF Progress
<1>4. k.phase \in Statements /\ Snapshot(u) => SnapshotKnows(k)'
  <2> SUFFICES ASSUME k.phase \in Statements, Snapshot(u) PROVE SnapshotKnows(k)'
    OBVIOUS
  <2>1. SnapshotKnows(tx[u])
    BY <1>1 DEF Underway
  <2>2. k.stale = tx[u].stale \cup tx[t].work.rows
    OBVIOUS
  <2>3. k.work.rows \cap k.stale = {}
    BY <2>1, <2>2 DEF SnapshotKnows
  <2>4. ASSUME NEW p \in Pair, pos'[p] # 0, k.seen.pos[p] = 0
        PROVE  <<"record", p[2]>> \in k.stale
    <3>1. CASE <<"record", p[2]>> \in tx[t].work.rows
      BY <2>2, <3>1
    <3>2. CASE <<"record", p[2]>> \notin tx[t].work.rows
      <4>1. pos[p] # 0
        BY <2>4, <3>2, CommitMoves
      <4> QED
        BY <2>1, <2>2, <2>4, <4>1 DEF SnapshotKnows
    <3> QED
      BY <3>1, <3>2
  <2> QED
    BY <2>3, <2>4 DEF SnapshotKnows
<1>5. k.phase \in Statements /\ k.member = 1 => InOrder(k)'
  BY <1>1 DEF Underway, InOrder
<1>6. /\ k.phase \in Statements \cup {"begin"} => k.member \in DOMAIN program'[u].members
      /\ k.phase \notin Statements \cup {"committed"} => k.work = Zero
      /\ k.phase = "committed" => k.work.rows = {}
      /\ k.phase # "committed" => k.saved.rows \subseteq k.work.rows
      /\ Touches(k.work) /\ Touches(k.saved)
  BY <1>1 DEF Underway
<1> QED
  BY <1>1, <1>2, <1>3, <1>4, <1>5, <1>6 DEF Underway, Snapshot, Touches

\* The transaction itself keeps what its wakes come from.
LEMMA CommitKeepsSelf ==
    ASSUME NEW t, NEW k, k.phase = "committed", k.work.rows = {}, Touches(k.work), Touches(k.saved)
    PROVE  Underway(t, k)'
  BY DEF Underway, Statements, Touches

\* The session after its COMMIT: its locks are gone.
Settled(k) == [k EXCEPT !.phase = "committed", !.work.rows = {}]

\* COMMIT keeps the invariant.
LEMMA CommitKeepsInv ==
    ASSUME PublicationInv, NEW t \in Tx, Commit(t)
    PROVE  PublicationInv'
<1> DEFINE w == tx[t].work
           After(q) == IF q = t THEN Settled(tx[t])
                       ELSE IF Active(q) /\ Snapshot(q)
                         THEN [tx[q] EXCEPT !.stale = @ \cup w.rows] ELSE tx[q]
<1>1. /\ w \in Work /\ Ahead(w) /\ Touches(w)
      /\ head' \in [Stream -> Nat] /\ pos' \in [Pair -> Nat] /\ program' = program
      /\ \A p \in Pair : pos'[p] = IF w.pos[p] # 0 THEN w.pos[p] ELSE pos[p]
      /\ \A p \in Pair : <<"record", p[2]>> \notin w.rows => pos'[p] = pos[p]
  BY CommitMoves DEF Commit
<1>2. tx' = [q \in Tx |-> After(q)]
  BY DEF Commit, Settled
<1>3. \A q \in Tx : tx'[q] = After(q)
  BY <1>2
<1>4. owner' = [x \in Row |-> IF owner[x] = t THEN NoTx ELSE owner[x]]
  BY DEF Commit, Released
<1>5. /\ owner \in [Row -> Tx \cup {NoTx}] /\ NoTx \notin Tx /\ program \in Workloads
      /\ \A u \in Tx : \A x \in Row : owner[x] = u <=> x \in tx[u].work.rows
  BY TxFacts DEF PublicationInv, PublicationTypes, LocksHeld
<1>6. fresh' = [r \in Record |-> (IF r \in w.changed THEN {} ELSE fresh[r])
                                   \cup {s \in Stream : w.pos[<<s, r>>] # 0}]
  BY DEF Commit
<1>7. /\ Settled(tx[t]) \in Transactions /\ Settled(tx[t]).phase = "committed"
      /\ Settled(tx[t]).work.rows = {} /\ Settled(tx[t]).work.pos = w.pos
      /\ Settled(tx[t]).work.touched = w.touched /\ Settled(tx[t]).saved = tx[t].saved
  <2>1. tx[t] \in Transactions /\ [w EXCEPT !.rows = {}] \in Work
    BY <1>1, TxFacts DEF Work
  <2>2. Settled(tx[t]) = [tx[t] EXCEPT !.phase = "committed", !.work = [w EXCEPT !.rows = {}]]
    BY <2>1 DEF Settled, Transactions
  <2>3. /\ [w EXCEPT !.rows = {}].rows = {} /\ [w EXCEPT !.rows = {}].pos = w.pos
        /\ [w EXCEPT !.rows = {}].touched = w.touched
    BY <1>1 DEF Work
  <2> QED
    BY <2>1, <2>2, <2>3 DEF Transactions
<1>8. ASSUME NEW u \in Tx, u # t
      PROVE  /\ tx'[u] \in Transactions /\ tx'[u].phase = tx[u].phase
             /\ tx'[u].member = tx[u].member /\ tx'[u].work = tx[u].work
             /\ tx'[u].saved = tx[u].saved /\ tx'[u].seen = tx[u].seen
             /\ tx'[u].locked = tx[u].locked /\ tx'[u].todo = tx[u].todo
             /\ tx'[u].publish = tx[u].publish
             /\ tx[u].phase \in Statements /\ Snapshot(u) =>
                   tx'[u].stale = tx[u].stale \cup w.rows
             /\ tx[u].work \in Work /\ tx[u].saved \in Work
             /\ tx[u].work.rows \cap w.rows = {}
  <2>1. tx[u] \in Transactions /\ tx[u].work \in Work /\ tx[u].saved \in Work
    BY TxFacts
  <2>2. w.rows \subseteq Row
    BY <1>1 DEF Work
  <2>3. tx[u].work.rows \cap w.rows = {}
    BY <1>5, <1>8, <2>2
  <2>4. tx[u].phase \in Statements => Active(u)
    BY DEF Statements, Active
  <2>5. CASE Active(u) /\ Snapshot(u)
    <3>1. tx'[u] = [tx[u] EXCEPT !.stale = @ \cup w.rows]
      BY <1>3, <1>8, <2>5
    <3> HIDE DEF w
    <3> QED
      BY <2>1, <2>2, <2>3, <3>1 DEF Transactions
  <2>6. CASE ~(Active(u) /\ Snapshot(u))
    <3>1. tx'[u] = tx[u]
      BY <1>3, <1>8, <2>6
    <3> QED
      BY <2>1, <2>3, <2>4, <2>6, <3>1
  <2> QED
    BY <2>5, <2>6
<1> HIDE DEF w, After
<1>9. PublicationTypes'
  <2>1. tx' \in [Tx -> Transactions]
    <3>1. \A q \in Tx : After(q) \in Transactions
      BY <1>3, <1>7, <1>8 DEF After
    <3> QED
      BY <1>2, <3>1
  <2>2. owner' \in [Row -> Tx \cup {NoTx}]
    BY <1>4, <1>5
  <2>3. fresh' \in [Record -> SUBSET Stream]
    BY <1>6 DEF PublicationInv, PublicationTypes
  <2> QED
    BY <1>1, <1>5, <2>1, <2>2, <2>3 DEF PublicationTypes
<1>10. LocksHeld'
  <2> SUFFICES ASSUME NEW u \in Tx, NEW x \in Row
               PROVE  owner'[x] = u <=> x \in tx'[u].work.rows
    BY DEF LocksHeld
  <2>1. owner'[x] = IF owner[x] = t THEN NoTx ELSE owner[x]
    BY <1>4
  <2>2. CASE u = t
    <3>1. tx'[u].work.rows = {}
      BY <1>3, <1>7, <2>2 DEF After
    <3> QED
      BY <1>5, <2>1, <2>2, <3>1
  <2>3. CASE u # t
    BY <1>5, <1>8, <2>1, <2>3
  <2> QED
    BY <2>2, <2>3
<1>11. NoMissedInvalidation'
  <2> SUFFICES ASSUME NEW p \in Pair, pos'[p] # 0 PROVE p[1] \in fresh'[p[2]]
    BY DEF NoMissedInvalidation
  <2>1. p[1] \in Stream /\ p[2] \in Record /\ p = <<p[1], p[2]>>
    BY DEF Pair
  <2>2. fresh'[p[2]] = (IF p[2] \in w.changed THEN {} ELSE fresh[p[2]])
                         \cup {s \in Stream : w.pos[<<s, p[2]>>] # 0}
    BY <1>6, <2>1
  <2>3. CASE w.pos[p] # 0
    BY <2>1, <2>2, <2>3
  <2>4. CASE w.pos[p] = 0
    <3>1. pos[p] # 0 /\ p[1] \in fresh[p[2]]
      BY <1>1, <2>4 DEF PublicationInv, NoMissedInvalidation
    <3>2. p[2] \notin w.changed
      BY <1>1, <2>4, <3>1 DEF Ahead
    <3> QED
      BY <2>2, <3>1, <3>2
  <2> QED
    BY <2>3, <2>4
<1>12. ASSUME NEW u \in Tx PROVE Underway(u, tx[u])'
  <2>1. CASE u = t
    <3>1. tx'[u].phase = "committed" /\ tx'[u].work.pos = w.pos /\ tx'[u].work.rows = {}
          /\ tx'[u].work.touched = w.touched /\ tx'[u].saved = tx[t].saved
      BY <1>3, <1>7, <2>1 DEF After
    <3>2. Touches(tx[t].saved)
      BY TxFacts DEF Underway
    <3>3. Touches(tx'[u].work) /\ Touches(tx'[u].saved)
      BY <1>1, <3>1, <3>2 DEF Touches
    <3> QED
      BY <3>1, <3>3, CommitKeepsSelf
  <2>2. CASE u # t
    BY <1>8, <2>2, CommitKeepsOther DEF w
  <2> QED
    BY <2>1, <2>2
<1> QED
  BY <1>9, <1>10, <1>11, <1>12 DEF PublicationInv

\* The session is over once its wakes are sent.
LEMMA NotifyKeepsInv ==
    ASSUME PublicationInv, NEW t \in Tx, Notify(t)
    PROVE  PublicationInv'
<1>1. /\ tx' = [tx EXCEPT ![t] = Rest(0, "done")]
      /\ UNCHANGED <<head, pos, owner, program, fresh>> /\ tx[t].phase = "committed"
  BY DEF Notify, Rest
<1>2. Rest(0, "done") \in Transactions /\ Rest(0, "done").work.rows = {}
      /\ Underway(t, Rest(0, "done"))
  BY FreshFacts
<1>3. tx[t].work.rows = {}
  BY <1>1, TxFacts DEF Underway
<1> QED
  BY <1>1, <1>2, <1>3, SameLocks

\* A transaction that waits is at one of its statements.
LEMMA WaitingFacts ==
    ASSUME NEW t \in Tx, Blockers(t) # {}
    PROVE  tx[t].phase \in {"streams", "guard", "reserve"} /\ tx[t].phase \in Statements
<1>1. Waits(t) # {}
  BY DEF Blockers
<1> QED
  BY <1>1 DEF Waits, Statements

\* A deadlock, a serialization failure and the caller's rollback end the attempt.
LEMMA FailuresKeepInv ==
    ASSUME PublicationInv, NEW t \in Tx,
           DetectDeadlock(t) \/ SerializationFailure(t) \/ CallerRollback(t)
    PROVE  PublicationInv'
<1>1. CASE DetectDeadlock(t)
  <2>1. Blockers(t) # {}
    BY <1>1 DEF DetectDeadlock, Deadlocked
  <2> QED
    BY <1>1, <2>1, WaitingFacts, RetriedKeepsInv DEF DetectDeadlock
<1>2. CASE SerializationFailure(t)
  BY <1>2, RetriedKeepsInv DEF SerializationFailure, Statements
<1>3. CASE CallerRollback(t)
  <2>1. Abort(t, Rest(0, "failed"))
    BY <1>3 DEF CallerRollback, Rest
  <2>2. Rest(0, "failed") \in Transactions /\ Rest(0, "failed").work.rows = {}
        /\ Underway(t, Rest(0, "failed"))
    BY FreshFacts
  <2> QED
    BY <2>1, <2>2, AbortKeepsInv
<1> QED
  BY <1>1, <1>2, <1>3

-----------------------------------------------------------------------------
(***************************************************************************)
(* The theorems.                                                           *)
(***************************************************************************)

\* Nothing is under way at first, and what is tracked was published.
LEMMA InitPublicationInv == PublicationInit => PublicationInv
<1> SUFFICES ASSUME PublicationInit PROVE PublicationInv
  OBVIOUS
<1>1. ASSUME NEW t \in Tx
      PROVE  /\ tx[t] \in Transactions /\ tx[t].work.rows = {} /\ Underway(t, tx[t])
  <2>1. program \in Workloads /\ program[t].members \in Seq(Settlement)
    BY PublicationAssumption DEF PublicationInit, Program
  <2>2. CASE program[t].members = <<>>
    <3>1. tx[t] = Rest(0, "done")
      BY <2>2 DEF PublicationInit, Rest
    <3> QED
      BY <3>1, FreshFacts
  <2>3. CASE program[t].members # <<>>
    <3>1. tx[t] = Rest(0, "begin")
      <4>1. tx[t] = Fresh(0)
        BY <2>3 DEF PublicationInit
      <4>2. Fresh(0) = Rest(0, "begin")
        BY DEF Fresh, Rest
      <4> QED
        BY <4>1, <4>2
    <3>2. 1 \in DOMAIN program[t].members
      BY <2>1, <2>3
    <3> QED
      BY <3>1, <3>2, FreshFacts
  <2> QED
    BY <2>2, <2>3
<1>2. PublicationTypes
  <2>1. tx \in [Tx -> Transactions]
    <3>1. DOMAIN tx = Tx /\ tx = [t \in DOMAIN tx |-> tx[t]]
      BY DEF PublicationInit
    <3> QED
      BY <1>1, <3>1
  <2>2. head \in [Stream -> Nat] /\ pos \in [Pair -> Nat]
    BY DEF PublicationInit
  <2>3. fresh \in [Record -> SUBSET Stream]
    BY DEF PublicationInit
  <2>4. owner \in [Row -> Tx \cup {NoTx}]
    BY DEF PublicationInit
  <2> QED
    BY <2>1, <2>2, <2>3, <2>4 DEF PublicationTypes, PublicationInit
<1>3. LocksHeld
  <2>1. \A x \in Row : owner[x] = NoTx
    BY DEF PublicationInit
  <2> QED
    BY <1>1, <2>1, PublicationAssumption DEF LocksHeld
<1>4. NoMissedInvalidation
  <2> SUFFICES ASSUME NEW p \in Pair, pos[p] # 0 PROVE p[1] \in fresh[p[2]]
    BY DEF NoMissedInvalidation
  <2>1. p[1] \in Stream /\ p[2] \in Record /\ p = <<p[1], p[2]>>
    BY DEF Pair
  <2>2. fresh[p[2]] = {s \in Stream : pos[<<s, p[2]>>] # 0}
    BY <2>1 DEF PublicationInit
  <2> QED
    BY <2>1, <2>2
<1> QED
  BY <1>1, <1>2, <1>3, <1>4 DEF PublicationInv

\* Every step keeps the invariant.
LEMMA NextPublicationInv == PublicationInv /\ [PublicationNext]_publicationVars => PublicationInv'
<1> SUFFICES ASSUME PublicationInv, [PublicationNext]_publicationVars PROVE PublicationInv'
  OBVIOUS
<1>1. ASSUME NEW t \in Tx, Step(t) PROVE PublicationInv'
  BY <1>1, BeginKeepsInv, ReadTrackingKeepsInv, LockStreamKeepsInv, StreamsLockedKeepsInv,
     GuardRecordKeepsInv, RereadKeepsInv, ReserveKeepsInv, ApplyKeepsInv, FinishKeepsInv,
     CommitKeepsInv, NotifyKeepsInv DEF Step
<1>2. ASSUME NEW t \in Tx, DetectDeadlock(t) \/ SerializationFailure(t) \/ CallerRollback(t)
      PROVE  PublicationInv'
  BY <1>2, FailuresKeepInv
<1>3. CASE UNCHANGED publicationVars
  <2>1. UNCHANGED <<head, pos, owner, program, tx, fresh>>
    BY <1>3 DEF publicationVars
  <2>2. PublicationTypes' /\ LocksHeld' /\ NoMissedInvalidation'
    BY <2>1 DEF PublicationInv, PublicationTypes, LocksHeld, NoMissedInvalidation
  <2>3. ASSUME NEW t \in Tx PROVE Underway(t, tx[t])'
    <3>1. Underway(t, tx'[t])
      BY <2>1 DEF PublicationInv
    <3> QED
      BY <2>1, <3>1, UnderwayKept
  <2> QED
    BY <2>2, <2>3 DEF PublicationInv
<1> QED
  BY <1>1, <1>2, <1>3 DEF PublicationNext

\* Locks, sessions and snapshots stay coherent in every behaviour.
THEOREM PublicationInvariant == PublicationSpec => []PublicationInv
<1>1. PublicationInit => PublicationInv
  BY InitPublicationInv
<1>2. PublicationInv /\ [PublicationNext]_publicationVars => PublicationInv'
  BY NextPublicationInv
<1> QED
  BY <1>1, <1>2, PTL DEF PublicationSpec

\* No viewer misses a change: a Stream that tracks a record has published it in
\* the transaction that last invalidated it for all Streams, or since
\* (settle_changes).
THEOREM NoInvalidationMissed == PublicationSpec => []NoMissedInvalidation
<1>1. PublicationInv => NoMissedInvalidation
  BY DEF PublicationInv
<1> QED
  BY <1>1, PublicationInvariant, PTL

\* A commit wakes exactly the Streams it published to (Session.touched).
THEOREM CommitsWakeTheirStreams == PublicationSpec => []WakesMatchCommits
<1>1. PublicationInv => WakesMatchCommits
  <2> SUFFICES ASSUME PublicationInv, NEW t \in Tx
               PROVE  tx[t].work.touched = {s \in Stream : \E r \in Record :
                                                tx[t].work.pos[<<s, r>>] # 0}
    BY DEF WakesMatchCommits
  <2>1. Touches(tx[t].work) /\ tx[t].work.touched \subseteq Stream
    BY TxFacts DEF Underway, Work
  <2>2. ASSUME NEW s \in tx[t].work.touched
        PROVE  \E r \in Record : tx[t].work.pos[<<s, r>>] # 0
    <3>1. PICK p \in Pair : p[1] = s /\ tx[t].work.pos[p] # 0
      BY <2>1 DEF Touches
    <3>2. p[2] \in Record /\ p = <<s, p[2]>>
      BY <3>1 DEF Pair
    <3> QED
      BY <3>1, <3>2
  <2>3. ASSUME NEW s \in Stream, NEW r \in Record, tx[t].work.pos[<<s, r>>] # 0
        PROVE  s \in tx[t].work.touched
    <3>1. <<s, r>> \in Pair /\ <<s, r>>[1] = s
      BY DEF Pair
    <3> QED
      BY <2>1, <2>3, <3>1 DEF Touches
  <2> QED
    BY <2>1, <2>2, <2>3
<1> QED
  BY <1>1, PublicationInvariant, PTL

\* Positions and heads become visible with COMMIT and not before.
LEMMA OnlyCommitPublishes ==
    ASSUME NEW t \in Tx, Step(t) \/ DetectDeadlock(t) \/ SerializationFailure(t)
                            \/ CallerRollback(t)
    PROVE  Commit(t) \/ UNCHANGED <<head, pos>>
<1>1. ASSUME NEW k, Abort(t, k) PROVE UNCHANGED <<head, pos>>
  BY <1>1 DEF Abort
<1>2. ASSUME NEW x, NEW k, Take(t, x, k) PROVE UNCHANGED <<head, pos>>
  BY <1>1, <1>2 DEF Take
<1>3. CASE LockStream(t) \/ GuardRecord(t)
  BY <1>2, <1>3 DEF LockStream, GuardRecord
<1>4. CASE Reserve(t)
  BY <1>1, <1>2, <1>4 DEF Reserve
<1>5. CASE Reread(t)
  BY <1>1, <1>5 DEF Reread
<1>6. CASE DetectDeadlock(t) \/ SerializationFailure(t) \/ CallerRollback(t)
  BY <1>1, <1>6 DEF DetectDeadlock, SerializationFailure, CallerRollback
<1>7. CASE Begin(t) \/ ReadTracking(t) \/ StreamsLocked(t) \/ Apply(t) \/ Finish(t) \/ Notify(t)
  BY <1>7 DEF Begin, ReadTracking, StreamsLocked, Apply, Finish, Notify
<1> QED
  BY <1>3, <1>4, <1>5, <1>6, <1>7 DEF Step

\* A position that becomes visible lies above every head committed before, and
\* no head ever moves back (V05_RESERVE_CURSOR).
THEOREM PositionsCommitInOrder == PublicationSpec => PositionsAboveHead
<1> DEFINE Above == /\ \A s \in Stream : head'[s] >= head[s]
                    /\ \A p \in Pair : pos'[p] # pos[p] =>
                          head[p[1]] < pos'[p] /\ pos'[p] <= head'[p[1]]
<1>1. ASSUME PublicationInv, [PublicationNext]_publicationVars PROVE [Above]_publicationVars
  <2>1. head \in [Stream -> Nat]
    BY <1>1 DEF PublicationInv, PublicationTypes
  <2>2. CASE UNCHANGED <<head, pos>>
    BY <2>1, <2>2
  <2>3. ASSUME NEW t \in Tx, Commit(t) PROVE Above
    <3> DEFINE w == tx[t].work
    <3>1. /\ w.head \in [Stream -> Nat] /\ Ahead(w)
          /\ \A s \in Stream : head'[s] = IF w.head[s] # 0 THEN w.head[s] ELSE head[s]
          /\ \A p \in Pair : pos'[p] = IF w.pos[p] # 0 THEN w.pos[p] ELSE pos[p]
      BY <1>1, <2>3, CommitMoves DEF Work
    <3>2. ASSUME NEW s \in Stream PROVE head'[s] >= head[s]
      <4>1. head[s] \in Nat /\ w.head[s] \in Nat /\ (w.head[s] # 0 => head[s] < w.head[s])
        BY <2>1, <3>1 DEF Ahead
      <4>2. head'[s] = IF w.head[s] # 0 THEN w.head[s] ELSE head[s]
        BY <3>1
      <4> QED
        BY <4>1, <4>2
    <3>3. ASSUME NEW p \in Pair, pos'[p] # pos[p]
          PROVE  head[p[1]] < pos'[p] /\ pos'[p] <= head'[p[1]]
      <4>1. pos'[p] = w.pos[p] /\ w.pos[p] # 0 /\ p[1] \in Stream
        BY <3>1, <3>3 DEF Pair
      <4>2. head[p[1]] < w.pos[p] /\ w.pos[p] <= w.head[p[1]] /\ w.pos[p] \in Nat
        BY <1>1, <3>1, <4>1, TxFacts DEF Ahead, Work
      <4>3. w.head[p[1]] # 0
        BY <3>1, <4>1, <4>2
      <4> QED
        BY <3>1, <4>1, <4>2, <4>3
    <3> QED
      BY <3>2, <3>3
  <2>4. UNCHANGED publicationVars \/ UNCHANGED <<head, pos>> \/ \E t \in Tx : Commit(t)
    BY <1>1, OnlyCommitPublishes DEF PublicationNext
  <2> QED
    BY <2>2, <2>3, <2>4
<1> QED
  BY <1>1, PublicationInvariant, PTL DEF PublicationSpec, PositionsAboveHead

\* What an orderly transaction waits for lies above everything of its kind it
\* holds; at its reservations it holds the rows it needs, and waits for none.
LEMMA OrderlyWaits ==
    ASSUME PublicationInv, NEW t \in Tx, Orderly(t), Blockers(t) # {}
    PROVE  \/ /\ tx[t].phase = "streams"
              /\ \A r \in Record : owner[<<"record", r>>] # t
              /\ \E s \in Stream :
                    /\ Blockers(t) \subseteq {owner[<<"stream", s>>]}
                    /\ \A z \in Stream : owner[<<"stream", z>>] = t => z < s
           \/ /\ tx[t].phase = "guard"
              /\ \E r \in Record :
                    /\ Blockers(t) \subseteq {owner[<<"record", r>>]}
                    /\ \A z \in Record : owner[<<"record", z>>] = t => z < r
<1>1. /\ tx[t].phase \in {"streams", "guard", "reserve"} /\ tx[t].phase \in Statements
      /\ Underway(t, tx[t]) /\ Progress(tx[t], Member(t)) /\ InOrder(tx[t])
  BY WaitingFacts, TxFacts, MemberFacts DEF Underway, Orderly
<1>2. /\ \A s \in Stream : <<"stream", s>> \in Row
      /\ \A r \in Record : <<"record", r>> \in Row
  BY DEF Row
<1>3. \A x \in Row : owner[x] = t <=> x \in tx[t].work.rows
  BY DEF PublicationInv, LocksHeld
<1>4. CASE tx[t].phase = "streams"
  <2>1. PICK s \in tx[t].todo : Waits(t) \subseteq {<<"stream", s>>}
    <3>1. Waits(t) = {<<"stream", s>> : s \in {s \in tx[t].todo : s = Least(tx[t].todo)}}
      BY <1>4 DEF Waits
    <3>2. Waits(t) # {}
      BY DEF Blockers
    <3> QED
      BY <3>1, <3>2
  <2>2. s \in Stream
    BY <1>1, <1>4 DEF Progress
  <2>3. Blockers(t) \subseteq {owner[<<"stream", s>>]}
    BY <2>1 DEF Blockers
  <2>4. \A z \in Stream : owner[<<"stream", z>>] = t => z < s
    BY <1>1, <1>2, <1>3, <1>4, <2>1 DEF InOrder
  <2>5. \A r \in Record : owner[<<"record", r>>] # t
    BY <1>1, <1>2, <1>3, <1>4 DEF InOrder
  <2> QED
    BY <1>4, <2>2, <2>3, <2>4, <2>5
<1>5. CASE tx[t].phase = "guard"
  <2>1. PICK r \in tx[t].todo : Waits(t) \subseteq {<<"record", r>>}
    <3>1. Waits(t) = {<<"record", r>> : r \in {r \in tx[t].todo : r = Least(tx[t].todo)}}
      BY <1>5 DEF Waits
    <3>2. Waits(t) # {}
      BY DEF Blockers
    <3> QED
      BY <3>1, <3>2
  <2>2. r \in Record
    BY <1>1, <1>5 DEF Progress
  <2>3. Blockers(t) \subseteq {owner[<<"record", r>>]}
    BY <2>1 DEF Blockers
  <2>4. \A z \in Record : owner[<<"record", z>>] = t => z < r
    BY <1>1, <1>2, <1>3, <1>5, <2>1 DEF InOrder
  <2> QED
    BY <1>5, <2>2, <2>3, <2>4
<1>6. CASE tx[t].phase = "reserve"
  <2>1. tx[t].todo \subseteq Stream /\ tx[t].todo \subseteq tx[t].locked
    BY <1>1, <1>6 DEF Progress, InOrder
  <2>2. \A s \in tx[t].todo : owner[<<"stream", s>>] = t
    BY <1>2, <1>3, <1>6, <2>1 DEF Orderly
  <2>3. \A x \in Waits(t) : owner[x] = t
    BY <1>6, <2>2 DEF Waits
  <2> QED
    BY <2>3 DEF Blockers
<1> QED
  BY <1>1, <1>4, <1>5, <1>6

\* Transactions in their first settlement whose Streams all had rows never wait
\* on each other in a circle: of those that wait for identities, the one that
\* waits for the greatest is blocked by nobody, and likewise for Streams
\* (LOCK_STREAMS and ENSURE_IDENTITIES take their rows in canonical order).
THEOREM OrderlyTransactionsNeverDeadlock == PublicationSpec => []OrderlyNeverDeadlock
<1>1. PublicationInv => OrderlyNeverDeadlock
  <2> SUFFICES ASSUME PublicationInv, NEW S \in SUBSET {t \in Tx : Orderly(t)}, Deadlocked(S)
               PROVE  FALSE
    BY DEF OrderlyNeverDeadlock
  <2>1. S # {} /\ \A t \in S : t \in Tx /\ Orderly(t) /\ Blockers(t) \cap S # {}
    BY DEF Deadlocked
  <2> DEFINE WaitsStream(t, s) ==
                /\ owner[<<"stream", s>>] \in S
                /\ \A z \in Stream : owner[<<"stream", z>>] = t => z < s
             WaitsRecord(t, r) ==
                /\ owner[<<"record", r>>] \in S
                /\ \A z \in Record : owner[<<"record", z>>] = t => z < r
             Streams == {s \in Stream : \E t \in S : WaitsStream(t, s)}
             Identities == {r \in Record : \E t \in S : WaitsRecord(t, r)}
  <2>2. ASSUME NEW t \in S
        PROVE  \/ /\ \A r \in Record : owner[<<"record", r>>] # t
                  /\ \E s \in Stream : WaitsStream(t, s)
               \/ \E r \in Record : WaitsRecord(t, r)
    <3>1. t \in Tx /\ Orderly(t) /\ Blockers(t) # {} /\ Blockers(t) \cap S # {}
      BY <2>1
    <3>2. \A x : Blockers(t) \subseteq {x} => x \in S
      BY <3>1
    <3> QED
      BY <3>1, <3>2, OrderlyWaits
  <2>3. Identities = {}
    <3> SUFFICES ASSUME Identities # {} PROVE FALSE
      OBVIOUS
    <3>1. Identities \in SUBSET Nat /\ IsFiniteSet(Identities)
      BY PublicationAssumption, FS_Subset
    <3> HIDE DEF Identities
    <3>2. PICK r \in Identities : \A y \in Identities : y <= r
      BY <3>1, GreatestExists
    <3>3. r \in Record /\ owner[<<"record", r>>] \in S
      BY <3>2 DEF Identities
    <3>4. PICK y \in Record : WaitsRecord(owner[<<"record", r>>], y)
      BY <2>2, <3>3
    <3>5. y \in Identities /\ r < y
      BY <3>3, <3>4 DEF Identities
    <3> QED
      BY <3>1, <3>2, <3>5
  <2>4. \A t \in S : \E s \in Stream : WaitsStream(t, s)
    <3> SUFFICES ASSUME NEW t \in S PROVE \E s \in Stream : WaitsStream(t, s)
      OBVIOUS
    <3>1. ~\E r \in Record : WaitsRecord(t, r)
      BY <2>3
    <3> HIDE DEF WaitsStream, WaitsRecord
    <3> QED
      BY <2>2, <3>1
  <2>5. Streams # {} /\ Streams \in SUBSET Nat /\ IsFiniteSet(Streams)
    <3>1. Streams # {}
      <4> HIDE DEF WaitsStream
      <4> QED
        BY <2>1, <2>4
    <3>2. Streams \subseteq Stream
      OBVIOUS
    <3> QED
      BY <3>1, <3>2, PublicationAssumption, FS_Subset
  <2>6. PICK s \in Streams : \A y \in Streams : y <= s
    <3> HIDE DEF Streams
    <3> QED
      BY <2>5, GreatestExists
  <2>7. s \in Stream /\ owner[<<"stream", s>>] \in S
    BY <2>6
  <2>8. PICK y \in Stream : WaitsStream(owner[<<"stream", s>>], y)
    BY <2>4, <2>7
  <2>9. y \in Streams /\ s < y
    BY <2>7, <2>8
  <2> HIDE DEF Streams
  <2> QED
    BY <2>5, <2>6, <2>9
<1> QED
  BY <1>1, PublicationInvariant, PTL

============================================================================
