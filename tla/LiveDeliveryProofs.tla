------------------------- MODULE LiveDeliveryProofs -------------------------
(***************************************************************************)
(* Proofs about LiveDelivery, for every number of connection slots, every  *)
(* load and every bound on commits, failed negotiations and failed pulls.  *)
(***************************************************************************)
EXTENDS LiveDelivery, TLAPS

-----------------------------------------------------------------------------
(***************************************************************************)
(* The inductive invariant.                                                *)
(***************************************************************************)
Session == [phase : Phases, up : BOOLEAN, handle : BOOLEAN, cursor : Nat,
            pending : BOOLEAN, running : Nat \cup {NoPull}, sent : Nat]

Pull == [after : Nat, state : {"asked", "committed", "done"}, through : Nat,
         observed : Nat, publishes : BOOLEAN]

LiveTypes ==
    /\ head \in Nat /\ announced \in Nat /\ unnotified \in Nat
    /\ announced <= head
    /\ sock \in [Sockets -> Session]
    /\ wakes \in [Sockets -> Nat]
    /\ pulls \in [Sockets -> Seq(Pull)]
    /\ registry \in [Sockets -> Int]
    /\ server \in [state : {"up", "closing", "released"},
                   owned : SUBSET (BOOLEAN \X Sockets)]
    /\ restarts \in Nat /\ failures \in Nat
    /\ http \in {"none", "admitting", "working", "published"}

\* Before a session and after it nothing is connected, only an open session
\* listens, only an open or draining one pulls, and serveLive owns a handle
\* from the resolution of negotiateLive to its finally block.
SessionShape ==
    \A s \in Sockets :
        /\ sock[s].phase \in {"absent", "admitting", "draining"} => ~sock[s].up
        /\ wakes[s] > 0 => sock[s].phase = "open"
        /\ pulls[s] # <<>> => sock[s].phase \in {"open", "draining"}
        /\ sock[s].handle <=> sock[s].phase \in {"negotiated", "open"}

\* The controller has at most one pull, which begins at its cursor; of a
\* connected session that pull is under way.
OnePull ==
    \A s \in Sockets :
        /\ Len(pulls[s]) <= 1
        /\ sock[s].phase \in {"committing", "negotiated"} =>
              sock[s].running = sock[s].cursor /\ ~sock[s].pending
        /\ sock[s].phase = "open" =>
              /\ sock[s].running \in {sock[s].cursor, NoPull}
              /\ sock[s].running = NoPull => pulls[s] = <<>> /\ ~sock[s].pending
              /\ sock[s].running # NoPull /\ sock[s].up => pulls[s] # <<>>
              /\ \A i \in DOMAIN pulls[s] : pulls[s][i].after = sock[s].cursor

\* A page covers from its cursor to at most the head its transaction left.
PagesWithinHead ==
    \A s \in Sockets :
        /\ sock[s].cursor <= head
        /\ \A i \in DOMAIN pulls[s] :
              /\ pulls[s][i].after <= pulls[s][i].through
              /\ pulls[s][i].through <= pulls[s][i].observed
              /\ pulls[s][i].observed <= head

\* What was sent to a connected session is what its controller has covered.
SentIsCursor ==
    \A s \in Sockets :
        sock[s].phase = "open" /\ sock[s].up => sock[s].sent = sock[s].cursor

\* Somebody still owes a connected session the commits it has not been sent:
\* a notification, a wake, a noted commit, a pull that has not read yet, or
\* one that read them.
Owed(s) ==
    \/ NotifyDue
    \/ wakes[s] > 0
    \/ sock[s].pending
    \/ \E i \in DOMAIN pulls[s] :
          pulls[s][i].state = "asked" \/ pulls[s][i].observed >= announced
    \/ sock[s].cursor >= announced /\ sock[s].running = NoPull

CommitsOwed ==
    \A s \in Sockets : sock[s].phase = "open" /\ sock[s].up => Owed(s)

\* The controllers of failed negotiation transactions stay registered.
RegistryBounded ==
    \A s \in Sockets :
        registry[s] <= restarts +
            (IF sock[s].phase \in {"committing", "negotiated", "open"} THEN 1 ELSE 0)

\* Once the listener closes nothing connects again, and what is left of each
\* slot is among what close() awaits.
Drains ==
    /\ server.state # "up" => \A s \in Sockets : ~sock[s].up
    /\ server.state = "closing" => \A s \in Sockets :
          /\ sock[s].phase = "admitting" => <<TRUE, s>> \in server.owned
          /\ sock[s].phase \notin {"absent", "admitting"} => <<FALSE, s>> \in server.owned
    /\ server.state = "released" =>
          http = "none" /\ \A s \in Sockets : sock[s].phase = "absent"

LiveInv ==
    /\ LiveTypes /\ SessionShape /\ OnePull /\ PagesWithinHead /\ SentIsCursor
    /\ CommitsOwed /\ RegistryBounded /\ Drains

-----------------------------------------------------------------------------
(***************************************************************************)
(* One lemma per action.                                                   *)
(***************************************************************************)

\* The empty slot is a session record.
LEMMA AbsentTyped == Absent \in Session
  BY DEF Absent, Session, Phases, NoPull

\* Every slot is empty at first.
LEMMA InitLiveInv == Init => LiveInv
<1> SUFFICES ASSUME Init PROVE LiveInv
  OBVIOUS
<1>1. LiveTypes
  BY AbsentTyped DEF Init, LiveTypes
<1>2. \A s \in Sockets : sock[s] = Absent /\ pulls[s] = <<>> /\ wakes[s] = 0 /\ registry[s] = 0
  BY DEF Init
<1> QED
  BY <1>1, <1>2 DEF Init, LiveInv, SessionShape, OnePull, PagesWithinHead, SentIsCursor,
     CommitsOwed, RegistryBounded, Drains, Absent

\* The invariant at one slot.
LEMMA SlotFacts ==
    ASSUME LiveInv, NEW s \in Sockets
    PROVE  /\ sock[s] \in Session /\ wakes[s] \in Nat /\ registry[s] \in Int
           /\ head \in Nat /\ restarts \in Nat
           /\ sock[s].up => server.state = "up" /\ sock[s].phase \notin {"absent", "admitting", "draining"}
           /\ wakes[s] > 0 => sock[s].phase = "open"
           /\ pulls[s] # <<>> => sock[s].phase \in {"open", "draining"}
           /\ sock[s].handle <=> sock[s].phase \in {"negotiated", "open"}
           /\ sock[s].phase \in {"committing", "negotiated"} =>
                 sock[s].running = sock[s].cursor /\ ~sock[s].pending
           /\ sock[s].cursor <= head
           /\ registry[s] <= restarts +
                 (IF sock[s].phase \in {"committing", "negotiated", "open"} THEN 1 ELSE 0)
           /\ server.state \in {"up", "closing", "released"}
           /\ wakes = [wakes EXCEPT ![s] = wakes[s]]
           /\ registry = [registry EXCEPT ![s] = registry[s]]
<1>1. /\ sock[s] \in Session /\ wakes[s] \in Nat /\ registry[s] \in Int
      /\ head \in Nat /\ restarts \in Nat
      /\ server.state \in {"up", "closing", "released"}
      /\ wakes = [wakes EXCEPT ![s] = wakes[s]]
      /\ registry = [registry EXCEPT ![s] = registry[s]]
  BY DEF LiveInv, LiveTypes
<1> QED
  BY <1>1 DEF LiveInv, SessionShape, OnePull, PagesWithinHead, RegistryBounded, Drains

\* A step of one session that does not open it: what the new session record,
\* its queued wakes and its registered controllers must satisfy.
SlotStep(s, k, w, g) ==
    /\ sock' = [sock EXCEPT ![s] = k]
    /\ wakes' = [wakes EXCEPT ![s] = w]
    /\ registry' = [registry EXCEPT ![s] = g]
    /\ restarts' \in Nat /\ restarts' >= restarts
    /\ UNCHANGED <<head, announced, unnotified, pulls, server, failures, http>>

SlotKept(s, k, w, g) ==
    /\ k.up => server.state = "up" /\ k.phase \notin {"absent", "admitting", "draining"}
    /\ w > 0 => k.phase = "open"
    /\ pulls[s] # <<>> => k.phase \in {"open", "draining"}
    /\ k.handle <=> k.phase \in {"negotiated", "open"}
    /\ k.phase \in {"committing", "negotiated"} => k.running = k.cursor /\ ~k.pending
    /\ k.phase = "open" => /\ ~k.up /\ sock[s].phase = "open"
                           /\ k.running = sock[s].running
                           /\ k.cursor = sock[s].cursor /\ k.pending = sock[s].pending
    /\ k.cursor <= head
    /\ g <= restarts' + (IF k.phase \in {"committing", "negotiated", "open"} THEN 1 ELSE 0)
    /\ server.state # "up" =>
          /\ k.phase = "admitting" => sock[s].phase = "admitting"
          /\ k.phase \notin {"absent", "admitting"} =>
                sock[s].phase \notin {"absent", "admitting"}

\* Such a step keeps the invariant: the other sessions are owed what they were.
LEMMA SlotKeepsInv ==
    ASSUME LiveInv, NEW s \in Sockets, NEW k \in Session, NEW w \in Nat, NEW g \in Int,
           SlotStep(s, k, w, g), SlotKept(s, k, w, g)
    PROVE  LiveInv'
<1> USE DEF SlotStep
<1>1. /\ sock'[s] = k /\ wakes'[s] = w /\ registry'[s] = g
      /\ \A t \in Sockets : t # s => /\ sock'[t] = sock[t] /\ wakes'[t] = wakes[t]
                                     /\ registry'[t] = registry[t]
  BY DEF LiveInv, LiveTypes
<1>2. LiveTypes'
  BY DEF LiveInv, LiveTypes
<1>3. SessionShape'
  BY <1>1 DEF LiveInv, SessionShape, SlotKept
<1>4. OnePull'
  BY <1>1 DEF LiveInv, OnePull, SessionShape, SlotKept
<1>5. PagesWithinHead'
  BY <1>1 DEF LiveInv, PagesWithinHead, SlotKept
<1>6. SentIsCursor'
  BY <1>1 DEF LiveInv, SentIsCursor, SlotKept
<1>7. CommitsOwed'
  <2>1. NotifyDue' <=> NotifyDue
    BY DEF NotifyDue
  <2>2. ASSUME NEW t \in Sockets, t # s, Owed(t) PROVE Owed(t)'
    BY <1>1, <2>1, <2>2 DEF Owed
  <2> QED
    BY <1>1, <2>2 DEF LiveInv, CommitsOwed, SlotKept
<1>8. RegistryBounded'
  <2> SUFFICES ASSUME NEW t \in Sockets
               PROVE  registry'[t] <= restarts' +
                        (IF sock'[t].phase \in {"committing", "negotiated", "open"} THEN 1 ELSE 0)
    BY DEF RegistryBounded
  <2>1. CASE t = s
    BY <1>1, <2>1 DEF SlotKept
  <2>2. CASE t # s
    BY <1>1, <2>2 DEF LiveInv, LiveTypes, RegistryBounded
  <2> QED
    BY <2>1, <2>2
<1>9. Drains'
  BY <1>1 DEF LiveInv, Drains, SlotKept
<1> QED
  BY <1>2, <1>3, <1>4, <1>5, <1>6, <1>7, <1>8, <1>9 DEF LiveInv

\* An upgrade only occupies an empty slot.
LEMMA UpgradeKeepsInv ==
    ASSUME LiveInv, NEW s \in Sockets, Upgrade(s)
    PROVE  LiveInv'
<1> DEFINE k == [Absent EXCEPT !.phase = "admitting"]
<1>1. k \in Session
  BY AbsentTyped, SlotFacts DEF Upgrade, Session, Phases, Open05
<1>2. SlotStep(s, k, wakes[s], registry[s])
  BY SlotFacts DEF Upgrade, SlotStep, LiveInv, LiveTypes
<1>3. SlotKept(s, k, wakes[s], registry[s])
  BY SlotFacts DEF Upgrade, SlotKept, Session, Absent, Open05
<1> QED
  BY <1>1, <1>2, <1>3, SlotFacts, SlotKeepsInv

\* Admission empties the slot or starts a session that is not open yet.
LEMMA AdmitKeepsInv ==
    ASSUME LiveInv, NEW s \in Sockets, Admit(s)
    PROVE  LiveInv'
<1>1. CASE sock' = [sock EXCEPT ![s] = Absent]
  <2> DEFINE k == Absent
  <2>1. k \in Session
    BY AbsentTyped, SlotFacts, <1>1 DEF Admit, Session, Phases, Open05
  <2>2. SlotStep(s, k, wakes[s], registry[s])
    BY SlotFacts, <1>1 DEF Admit, SlotStep, LiveInv, LiveTypes
  <2>3. SlotKept(s, k, wakes[s], registry[s])
    BY SlotFacts, <1>1 DEF Admit, SlotKept, Session, Absent, Open05
  <2> QED
    BY <2>1, <2>2, <2>3, SlotFacts, SlotKeepsInv
<1>2. CASE sock' = [sock EXCEPT ![s] = [sock[s] EXCEPT !.phase = "subscribing", !.up = TRUE]] /\ server.state = "up"
  <2> DEFINE k == [sock[s] EXCEPT !.phase = "subscribing", !.up = TRUE]
  <2>1. k \in Session
    BY AbsentTyped, SlotFacts, <1>2 DEF Admit, Session, Phases, Open05
  <2>2. SlotStep(s, k, wakes[s], registry[s])
    BY SlotFacts, <1>2 DEF Admit, SlotStep, LiveInv, LiveTypes
  <2>3. SlotKept(s, k, wakes[s], registry[s])
    BY SlotFacts, <1>2 DEF Admit, SlotKept, Session, Absent, Open05
  <2> QED
    BY <2>1, <2>2, <2>3, SlotFacts, SlotKeepsInv
<1> QED
  BY <1>1, <1>2 DEF Admit, LiveInv, LiveTypes, Session

\* The subscribe frame moves a session that is not open.
LEMMA SubscribeKeepsInv ==
    ASSUME LiveInv, NEW s \in Sockets, Subscribe(s)
    PROVE  LiveInv'
<1> DEFINE k == [sock[s] EXCEPT !.phase = "negotiating"]
<1>1. k \in Session
  BY AbsentTyped, SlotFacts DEF Subscribe, Session, Phases, Open05
<1>2. SlotStep(s, k, wakes[s], registry[s])
  BY SlotFacts DEF Subscribe, SlotStep, LiveInv, LiveTypes
<1>3. SlotKept(s, k, wakes[s], registry[s])
  BY SlotFacts DEF Subscribe, SlotKept, Session, Absent, Open05
<1> QED
  BY <1>1, <1>2, <1>3, SlotFacts, SlotKeepsInv

\* The negotiated cursor is the head, and its pull is asked for before any
\* commit can be missed.
LEMMA NegotiateKeepsInv ==
    ASSUME LiveInv, NEW s \in Sockets, Negotiate(s)
    PROVE  LiveInv'
<1> DEFINE k == [Open05(sock[s], head) EXCEPT !.phase = "committing"]
<1>1. k \in Session
  BY AbsentTyped, SlotFacts DEF Negotiate, Session, Phases, Open05
<1>2. SlotStep(s, k, wakes[s], registry[s] + 1)
  BY SlotFacts DEF Negotiate, SlotStep, LiveInv, LiveTypes
<1>3. SlotKept(s, k, wakes[s], registry[s] + 1)
  BY SlotFacts DEF Negotiate, SlotKept, Session, Absent, Open05
<1> QED
  BY <1>1, <1>2, <1>3, SlotFacts, SlotKeepsInv

\* The resolved negotiation hands its controller over.
LEMMA NegotiatedKeepsInv ==
    ASSUME LiveInv, NEW s \in Sockets, Negotiated(s)
    PROVE  LiveInv'
<1> DEFINE k == [sock[s] EXCEPT !.phase = "negotiated", !.handle = TRUE]
<1>1. k \in Session
  BY AbsentTyped, SlotFacts DEF Negotiated, Session, Phases, Open05
<1>2. sock' = [sock EXCEPT ![s] = k]
  BY SlotFacts DEF Negotiated, Session, LiveInv, LiveTypes
<1>5. UNCHANGED <<head, announced, unnotified, wakes, pulls, registry, server, restarts,
                  failures, http>>
  BY DEF Negotiated
<1>3. SlotStep(s, k, wakes[s], registry[s])
  <2> HIDE DEF k
  <2> QED
    BY <1>2, <1>5, SlotFacts DEF SlotStep
<1>4. SlotKept(s, k, wakes[s], registry[s])
  BY SlotFacts DEF Negotiated, SlotKept, Session, Absent, Open05
<1> QED
  BY <1>1, <1>3, <1>4, SlotFacts, SlotKeepsInv

\* A failed negotiation leaves its controller registered, and is counted.
LEMMA NegotiationFailsKeepsInv ==
    ASSUME LiveInv, NEW s \in Sockets, NegotiationFails(s)
    PROVE  LiveInv'
<1>1. CASE sock' = [sock EXCEPT ![s] = [sock[s] EXCEPT !.phase = "negotiating"]]
  <2> DEFINE k == [sock[s] EXCEPT !.phase = "negotiating"]
  <2>1. k \in Session
    BY AbsentTyped, SlotFacts, <1>1 DEF NegotiationFails, Session, Phases, Open05
  <2>2. SlotStep(s, k, wakes[s], registry[s])
    BY SlotFacts, <1>1 DEF NegotiationFails, SlotStep, LiveInv, LiveTypes
  <2>3. SlotKept(s, k, wakes[s], registry[s])
    BY SlotFacts, <1>1 DEF NegotiationFails, SlotKept, Session, Absent, Open05
  <2> QED
    BY <2>1, <2>2, <2>3, SlotFacts, SlotKeepsInv
<1>2. CASE sock' = [sock EXCEPT ![s] = [sock[s] EXCEPT !.phase = "draining", !.up = FALSE]]
  <2> DEFINE k == [sock[s] EXCEPT !.phase = "draining", !.up = FALSE]
  <2>1. k \in Session
    BY AbsentTyped, SlotFacts, <1>2 DEF NegotiationFails, Session, Phases, Open05
  <2>2. SlotStep(s, k, wakes[s], registry[s])
    BY SlotFacts, <1>2 DEF NegotiationFails, SlotStep, LiveInv, LiveTypes
  <2>3. SlotKept(s, k, wakes[s], registry[s])
    BY SlotFacts, <1>2 DEF NegotiationFails, SlotKept, Session, Absent, Open05
  <2> QED
    BY <2>1, <2>2, <2>3, SlotFacts, SlotKeepsInv
<1> QED
  BY <1>1, <1>2 DEF NegotiationFails, LiveInv, LiveTypes, Session

\* A session that is not connected is owed nothing.
LEMMA DisconnectKeepsInv ==
    ASSUME LiveInv, NEW s \in Sockets, Disconnect(s)
    PROVE  LiveInv'
<1> DEFINE k == [sock[s] EXCEPT !.up = FALSE]
<1>1. k \in Session
  BY AbsentTyped, SlotFacts DEF Disconnect, Session, Phases, Open05
<1>2. SlotStep(s, k, wakes[s], registry[s])
  BY SlotFacts DEF Disconnect, SlotStep, LiveInv, LiveTypes
<1>3. SlotKept(s, k, wakes[s], registry[s])
  BY SlotFacts DEF Disconnect, SlotKept, Session, Absent, Open05
<1> QED
  BY <1>1, <1>2, <1>3, SlotFacts, SlotKeepsInv

\* The finally block closes the controller it has a handle of.
LEMMA EndKeepsInv ==
    ASSUME LiveInv, NEW s \in Sockets, End(s)
    PROVE  LiveInv'
<1> DEFINE k == [sock[s] EXCEPT !.phase = "draining", !.handle = FALSE]
           g == IF sock[s].handle THEN registry[s] - 1 ELSE registry[s]
<1>1. k \in Session
  BY SlotFacts DEF Session, Phases
<1>5. g \in Int /\ registry' = [registry EXCEPT ![s] = g]
  BY SlotFacts DEF End
<1>2. sock' = [sock EXCEPT ![s] = k]
  BY SlotFacts DEF End, Session, LiveInv, LiveTypes
<1>6. /\ wakes' = [wakes EXCEPT ![s] = 0]
      /\ UNCHANGED <<head, announced, unnotified, pulls, server, restarts, failures, http>>
  BY DEF End
<1>3. SlotStep(s, k, 0, g)
  <2> HIDE DEF k, g
  <2> QED
    BY <1>2, <1>5, <1>6, SlotFacts DEF SlotStep
<1>4. SlotKept(s, k, 0, g)
  BY SlotFacts DEF End, SlotKept, Session
<1> HIDE DEF k, g
<1> QED
  BY <1>1, <1>3, <1>4, <1>5, SlotFacts, SlotKeepsInv

\* A slot is emptied after its pulls.
LEMMA GoneKeepsInv ==
    ASSUME LiveInv, NEW s \in Sockets, Gone(s)
    PROVE  LiveInv'
<1> DEFINE k == Absent
<1>1. k \in Session
  BY AbsentTyped, SlotFacts DEF Gone, Session, Phases, Open05
<1>2. SlotStep(s, k, wakes[s], registry[s])
  BY SlotFacts DEF Gone, SlotStep, LiveInv, LiveTypes
<1>3. SlotKept(s, k, wakes[s], registry[s])
  BY SlotFacts DEF Gone, SlotKept, Session, Absent, Open05
<1> QED
  BY <1>1, <1>2, <1>3, SlotFacts, SlotKeepsInv

-----------------------------------------------------------------------------
(***************************************************************************)
(* Pulls.                                                                  *)
(***************************************************************************)

\* The pulls of one slot.
LEMMA PullFacts ==
    ASSUME LiveInv, NEW s \in Sockets, NEW i \in DOMAIN pulls[s]
    PROVE  /\ pulls[s] \in Seq(Pull) /\ Len(pulls[s]) = 1 /\ i = 1
           /\ pulls[s][i] \in Pull
           /\ Finished(s, i) = <<>>
           /\ sock[s].phase \in {"open", "draining"}
           /\ pulls[s][i].after <= pulls[s][i].through
           /\ pulls[s][i].through <= pulls[s][i].observed
           /\ pulls[s][i].observed <= head
           /\ sock[s].phase = "open" => pulls[s][i].after = sock[s].cursor
<1>1. pulls[s] \in Seq(Pull) /\ Len(pulls[s]) <= 1 /\ i \in 1..Len(pulls[s])
  BY DEF LiveInv, LiveTypes, OnePull
<1>5. Len(pulls[s]) \in Nat
  BY <1>1
<1>6. \A n \in Nat : n <= 1 /\ i \in 1..n => n = 1 /\ i = 1
  OBVIOUS
<1>7. Len(pulls[s]) = 1 /\ i = 1
  BY <1>1, <1>5, <1>6
<1>2. Len(pulls[s]) = 1 /\ i = 1 /\ pulls[s] # <<>>
  BY <1>7
<1>4. pulls[s][i] \in Pull
  BY <1>1
<1>3. Finished(s, i) = <<>>
  BY <1>1, <1>2 DEF Finished
<1> QED
  BY <1>1, <1>2, <1>3, <1>4 DEF LiveInv, SessionShape, OnePull, PagesWithinHead

\* A step of one session and its pulls: what the new session record, pulls and
\* queued wakes must satisfy.
PullSlotStep(s, k, q, w) ==
    /\ sock' = [sock EXCEPT ![s] = k]
    /\ pulls' = [pulls EXCEPT ![s] = q]
    /\ wakes' = [wakes EXCEPT ![s] = w]
    /\ failures' \in Nat
    /\ UNCHANGED <<head, announced, unnotified, registry, server, restarts, http>>

PullSlotKept(s, k, q, w) ==
    /\ k.phase \in {"open", "draining"}
    /\ k.phase = sock[s].phase \/ (k.phase = "open" /\ sock[s].phase = "negotiated")
    /\ k.handle = sock[s].handle /\ (k.up => sock[s].up)
    /\ w > 0 => k.phase = "open"
    /\ Len(q) <= 1 /\ k.cursor <= head
    /\ \A i \in DOMAIN q : /\ q[i].after <= q[i].through
                           /\ q[i].through <= q[i].observed
                           /\ q[i].observed <= head
    /\ k.phase = "open" =>
          /\ k.running \in {k.cursor, NoPull}
          /\ k.running = NoPull => q = <<>> /\ ~k.pending
          /\ k.running # NoPull /\ k.up => q # <<>>
          /\ \A i \in DOMAIN q : q[i].after = k.cursor
    /\ k.phase = "open" /\ k.up =>
          /\ k.sent = k.cursor
          /\ \/ NotifyDue' \/ w > 0 \/ k.pending
             \/ \E i \in DOMAIN q : q[i].state = "asked" \/ q[i].observed >= announced
             \/ k.cursor >= announced /\ k.running = NoPull

\* Such a step keeps the invariant if it takes no notification away.
LEMMA PullSlotKeepsInv ==
    ASSUME LiveInv, NEW s \in Sockets, NEW k \in Session, NEW q \in Seq(Pull), NEW w \in Nat,
           PullSlotStep(s, k, q, w), PullSlotKept(s, k, q, w), NotifyDue => NotifyDue'
    PROVE  LiveInv'
<1> USE DEF PullSlotStep
<1>1. /\ sock'[s] = k /\ pulls'[s] = q /\ wakes'[s] = w
      /\ \A t \in Sockets : t # s => /\ sock'[t] = sock[t] /\ pulls'[t] = pulls[t]
                                     /\ wakes'[t] = wakes[t]
  BY DEF LiveInv, LiveTypes
<1>2. LiveTypes'
  BY DEF LiveInv, LiveTypes
<1>3. SessionShape'
  BY <1>1, SlotFacts DEF LiveInv, SessionShape, PullSlotKept
<1>4. OnePull'
  BY <1>1 DEF LiveInv, OnePull, PullSlotKept
<1>5. PagesWithinHead'
  BY <1>1 DEF LiveInv, PagesWithinHead, PullSlotKept
<1>6. SentIsCursor'
  BY <1>1 DEF LiveInv, SentIsCursor, PullSlotKept
<1>7. CommitsOwed'
  <2>1. ASSUME NEW t \in Sockets, t # s, Owed(t) PROVE Owed(t)'
    BY <1>1, <2>1 DEF Owed
  <2>2. k.phase = "open" /\ k.up => Owed(s)'
    BY <1>1 DEF PullSlotKept, Owed
  <2> QED
    BY <1>1, <2>1, <2>2 DEF LiveInv, CommitsOwed
<1>8. RegistryBounded'
  BY <1>1, SlotFacts DEF LiveInv, LiveTypes, RegistryBounded, PullSlotKept
<1>9. Drains'
  BY <1>1, SlotFacts DEF LiveInv, Drains, PullSlotKept
<1> QED
  BY <1>2, <1>3, <1>4, <1>5, <1>6, <1>7, <1>8, <1>9 DEF LiveInv

\* Removing a pull that has nothing to notify takes no notification away.
LEMMA NotifyDueKept ==
    ASSUME LiveInv, NEW s \in Sockets, UNCHANGED <<unnotified, http>>,
           \A t \in Sockets : t # s => pulls'[t] = pulls[t],
           \A i \in DOMAIN pulls[s] : pulls[s][i].state # "committed"
    PROVE  NotifyDue => NotifyDue'
  BY DEF NotifyDue

\* A pull that is asked for begins and ends at its cursor.
LEMMA AskedFacts ==
    ASSUME NEW c \in Nat
    PROVE  /\ Asked(c) \in Pull /\ <<Asked(c)>> \in Seq(Pull) /\ Len(<<Asked(c)>>) = 1
           /\ <<Asked(c)>> # <<>> /\ Append(<<>>, Asked(c)) = <<Asked(c)>>
           /\ \A i \in DOMAIN <<Asked(c)>> :
                 /\ <<Asked(c)>>[i].after = c /\ <<Asked(c)>>[i].through = c
                 /\ <<Asked(c)>>[i].observed = c /\ <<Asked(c)>>[i].state = "asked"
           /\ \E i \in DOMAIN <<Asked(c)>> : <<Asked(c)>>[i].state = "asked"
<1>1. Asked(c) \in Pull
  BY DEF Asked, Pull
<1> DEFINE q == <<Asked(c)>>
<1>2. DOMAIN q = {1} /\ q[1] = Asked(c) /\ Len(q) = 1 /\ q # <<>>
  OBVIOUS
<1>3. Append(<<>>, Asked(c)) = q /\ q \in Seq(Pull)
  BY <1>1
<1> QED
  BY <1>1, <1>2, <1>3 DEF Asked

\* The first pull is asked for in the step that starts to listen.
LEMMA ExecuteKeepsInv ==
    ASSUME LiveInv, NEW s \in Sockets, Execute(s)
    PROVE  LiveInv'
<1> DEFINE k == [sock[s] EXCEPT !.phase = "open", !.sent = sock[s].cursor]
           q == <<Asked(sock[s].cursor)>>
<1>1. /\ sock[s] \in Session /\ sock[s].phase = "negotiated" /\ pulls[s] = <<>>
      /\ sock[s].running = sock[s].cursor /\ sock[s].cursor \in Nat
      /\ sock[s].cursor <= head /\ wakes[s] \in Nat
  BY SlotFacts DEF Execute, Session
<1>2. k \in Session /\ q \in Seq(Pull)
  BY <1>1, AskedFacts DEF Session, Phases
<1>3. PullSlotStep(s, k, q, wakes[s])
  <2>1. sock' = [sock EXCEPT ![s] = k]
    BY <1>1 DEF Execute, LiveInv, LiveTypes, Session
  <2>2. pulls' = [pulls EXCEPT ![s] = q]
    BY <1>1, AskedFacts DEF Execute, LiveInv, LiveTypes
  <2>3. /\ failures \in Nat
        /\ UNCHANGED <<head, announced, unnotified, wakes, registry, server, restarts,
                       failures, http>>
    BY DEF Execute, LiveInv, LiveTypes
  <2> HIDE DEF k, q
  <2> QED
    BY <2>1, <2>2, <2>3, SlotFacts DEF PullSlotStep
<1>4. PullSlotKept(s, k, q, wakes[s])
  <2>1. /\ k.phase = "open" /\ k.handle = sock[s].handle /\ k.up = sock[s].up
        /\ k.cursor = sock[s].cursor /\ k.running = sock[s].cursor /\ k.sent = sock[s].cursor
    BY <1>1 DEF Session
  <2>2. k.running # NoPull
    BY <1>1, <2>1 DEF NoPull
  <2> HIDE DEF k
  <2> QED
    BY <1>1, <2>1, <2>2, AskedFacts DEF PullSlotKept
<1>5. NotifyDue => NotifyDue'
  BY <1>1, <1>3, NotifyDueKept DEF PullSlotStep, LiveInv, LiveTypes
<1> HIDE DEF k, q
<1> QED
  BY <1>1, <1>2, <1>3, <1>4, <1>5, PullSlotKeepsInv

\* A wake notes a commit while a pull is outstanding and else asks for one.
LEMMA WakeKeepsInv ==
    ASSUME LiveInv, NEW s \in Sockets, Wake(s)
    PROVE  LiveInv'
<1>1. /\ sock[s] \in Session /\ sock[s].phase = "open" /\ sock[s].cursor \in Nat
      /\ sock[s].cursor <= head /\ wakes[s] \in Nat /\ wakes[s] > 0
      /\ wakes[s] - 1 \in Nat /\ pulls[s] \in Seq(Pull) /\ Len(pulls[s]) <= 1
      /\ sock[s].running \in {sock[s].cursor, NoPull}
      /\ sock[s].up => sock[s].sent = sock[s].cursor
      /\ sock[s].running = NoPull => pulls[s] = <<>>
      /\ sock[s].running # NoPull /\ sock[s].up => pulls[s] # <<>>
      /\ \A i \in DOMAIN pulls[s] : /\ pulls[s][i].after = sock[s].cursor
                                    /\ pulls[s][i].after <= pulls[s][i].through
                                    /\ pulls[s][i].through <= pulls[s][i].observed
                                    /\ pulls[s][i].observed <= head
  <2>1. /\ sock[s] \in Session /\ wakes[s] \in Nat /\ wakes[s] > 0 /\ sock[s].phase = "open"
        /\ sock[s].cursor <= head
    BY SlotFacts DEF Wake
  <2>2. sock[s].cursor \in Nat /\ wakes[s] - 1 \in Nat /\ pulls[s] \in Seq(Pull)
    BY <2>1 DEF Session, LiveInv, LiveTypes
  <2> QED
    BY <2>1, <2>2 DEF LiveInv, OnePull, SentIsCursor, PagesWithinHead
<1>2. /\ failures \in Nat /\ wakes' = [wakes EXCEPT ![s] = wakes[s] - 1]
      /\ UNCHANGED <<head, announced, unnotified, registry, server, restarts, failures, http>>
  BY DEF Wake, LiveInv, LiveTypes
<1>3. CASE sock[s].running # NoPull
  <2> DEFINE k == [sock[s] EXCEPT !.pending = TRUE]
  <2>1. k \in Session /\ sock' = [sock EXCEPT ![s] = k] /\ pulls' = [pulls EXCEPT ![s] = pulls[s]]
    BY <1>1, <1>3 DEF Wake, Committed, Asks, Session, LiveInv, LiveTypes
  <2>2. /\ k.phase = sock[s].phase /\ k.handle = sock[s].handle /\ k.up = sock[s].up
        /\ k.cursor = sock[s].cursor /\ k.running = sock[s].running /\ k.sent = sock[s].sent
        /\ k.pending
    BY <1>1 DEF Session
  <2> HIDE DEF k
  <2>3. PullSlotStep(s, k, pulls[s], wakes[s] - 1)
    BY <1>2, <2>1 DEF PullSlotStep
  <2>4. PullSlotKept(s, k, pulls[s], wakes[s] - 1)
    BY <1>1, <1>3, <2>2 DEF PullSlotKept
  <2>5. NotifyDue => NotifyDue'
    BY <1>2, <2>1 DEF NotifyDue, LiveInv, LiveTypes
  <2> QED
    BY <1>1, <2>1, <2>3, <2>4, <2>5, PullSlotKeepsInv
<1>4. CASE sock[s].running = NoPull
  <2> DEFINE k == [sock[s] EXCEPT !.pending = FALSE, !.running = sock[s].cursor]
             q == <<Asked(sock[s].cursor)>>
  <2>1. k \in Session /\ sock' = [sock EXCEPT ![s] = k]
    BY <1>1, <1>4 DEF Wake, Committed, StartPull, Session, LiveInv, LiveTypes
  <2>2. q \in Seq(Pull) /\ pulls' = [pulls EXCEPT ![s] = q]
    BY <1>1, <1>4, AskedFacts DEF Wake, Asks, LiveInv, LiveTypes
  <2>3. /\ k.phase = sock[s].phase /\ k.handle = sock[s].handle /\ k.up = sock[s].up
        /\ k.cursor = sock[s].cursor /\ k.running = sock[s].cursor /\ k.sent = sock[s].sent
        /\ k.running # NoPull
    BY <1>1 DEF Session, NoPull
  <2>4. PullSlotKept(s, k, q, wakes[s] - 1)
    <3> HIDE DEF k
    <3> QED
      BY <1>1, <2>3, AskedFacts DEF PullSlotKept
  <2> HIDE DEF k, q
  <2>5. PullSlotStep(s, k, q, wakes[s] - 1)
    BY <1>2, <2>1, <2>2 DEF PullSlotStep
  <2>6. NotifyDue => NotifyDue'
    BY <1>1, <1>2, <1>4, <2>2, NotifyDueKept DEF LiveInv, LiveTypes
  <2> QED
    BY <1>1, <2>1, <2>2, <2>4, <2>5, <2>6, PullSlotKeepsInv
<1> QED
  BY <1>3, <1>4

\* A failed pull disconnects its session.
LEMMA PullFailsKeepsInv ==
    ASSUME LiveInv, NEW s \in Sockets, NEW i \in DOMAIN pulls[s], PullFails(s, i)
    PROVE  LiveInv'
<1> DEFINE k == [sock[s] EXCEPT !.up = FALSE]
<1>1. /\ sock[s] \in Session /\ wakes[s] \in Nat /\ sock[s].cursor <= head
      /\ wakes[s] > 0 => sock[s].phase = "open"
      /\ sock[s].phase \in {"open", "draining"}
      /\ sock[s].phase = "open" => /\ sock[s].running \in {sock[s].cursor, NoPull}
                                   /\ sock[s].running # NoPull
  BY SlotFacts, PullFacts DEF LiveInv, OnePull
<1>2. /\ k \in Session /\ k.phase = sock[s].phase /\ k.handle = sock[s].handle /\ ~k.up
      /\ k.cursor = sock[s].cursor /\ k.running = sock[s].running
  BY <1>1 DEF Session
<1>3. sock' = [sock EXCEPT ![s] = k] /\ pulls' = [pulls EXCEPT ![s] = <<>>]
  BY <1>1, PullFacts DEF PullFails, LiveInv, LiveTypes, Session
<1>4. /\ failures' \in Nat
      /\ UNCHANGED <<head, announced, unnotified, wakes, registry, server, restarts, http>>
  BY DEF PullFails, LiveInv, LiveTypes
<1>5. NotifyDue => NotifyDue'
  <2>1. \A j \in DOMAIN pulls[s] : pulls[s][j].state # "committed"
    BY PullFacts DEF PullFails
  <2>2. \A t \in Sockets : t # s => pulls'[t] = pulls[t]
    BY <1>3 DEF LiveInv, LiveTypes
  <2> QED
    BY <1>4, <2>1, <2>2, NotifyDueKept
<1> HIDE DEF k
<1>6. PullSlotStep(s, k, <<>>, wakes[s])
  BY <1>3, <1>4, SlotFacts DEF PullSlotStep
<1>7. PullSlotKept(s, k, <<>>, wakes[s])
  BY <1>1, <1>2 DEF PullSlotKept
<1>8. <<>> \in Seq(Pull)
  OBVIOUS
<1> QED
  BY <1>1, <1>2, <1>5, <1>6, <1>7, <1>8, PullSlotKeepsInv

\* The end of a pull: the controller moves to the page's end and asks for the
\* next pull if a commit was noted or the page ends below the head it observed,
\* so that a session without a pull has been sent what that transaction left.
LEMMA PullDispatchesKeepsInv ==
    ASSUME LiveInv, NEW s \in Sockets, NEW i \in DOMAIN pulls[s], PullDispatches(s, i)
    PROVE  LiveInv'
<1> DEFINE page == pulls[s][i]
           next == Pulled(sock[s], page)
<1>1. /\ sock[s] \in Session /\ wakes[s] \in Nat /\ sock[s].cursor <= head
      /\ wakes[s] > 0 => sock[s].phase = "open"
      /\ sock[s].phase \in {"open", "draining"}
      /\ page \in Pull /\ Finished(s, i) = <<>> /\ page.state = "done"
      /\ page.after <= page.through /\ page.through <= page.observed /\ page.observed <= head
  BY SlotFacts, PullFacts DEF PullDispatches
<1>2. /\ failures \in Nat /\ <<>> \in Seq(Pull)
      /\ UNCHANGED <<head, announced, unnotified, wakes, registry, server, restarts,
                     failures, http>>
  BY DEF PullDispatches, LiveInv, LiveTypes
<1>3. ASSUME NEW q, pulls' = [pulls EXCEPT ![s] = q]
      PROVE  NotifyDue => NotifyDue'
  <2>1. \A j \in DOMAIN pulls[s] : pulls[s][j].state # "committed"
    BY <1>1, PullFacts
  <2>2. \A t \in Sockets : t # s => pulls'[t] = pulls[t]
    BY <1>3 DEF LiveInv, LiveTypes
  <2> QED
    BY <1>2, <2>1, <2>2, NotifyDueKept
<1>4. CASE sock[s].phase # "open"
  <2>1. sock' = [sock EXCEPT ![s] = sock[s]] /\ pulls' = [pulls EXCEPT ![s] = <<>>]
    BY <1>1, <1>4 DEF PullDispatches, LiveInv, LiveTypes
  <2>2. PullSlotStep(s, sock[s], <<>>, wakes[s])
    BY <1>2, <2>1, SlotFacts DEF PullSlotStep
  <2>3. PullSlotKept(s, sock[s], <<>>, wakes[s])
    BY <1>1, <1>4 DEF PullSlotKept
  <2> QED
    BY <1>1, <1>2, <1>3, <2>1, <2>2, <2>3, PullSlotKeepsInv
<1>5. CASE sock[s].phase = "open" /\ ~Expected(sock[s], page)
  <2> DEFINE k == [sock[s] EXCEPT !.up = FALSE]
  <2>1. /\ k \in Session /\ k.phase = sock[s].phase /\ k.handle = sock[s].handle /\ ~k.up
        /\ k.cursor = sock[s].cursor /\ k.running = sock[s].running
        /\ k.pending = sock[s].pending
    BY <1>1 DEF Session
  <2>2. sock' = [sock EXCEPT ![s] = k] /\ pulls' = [pulls EXCEPT ![s] = <<>>]
    BY <1>1, <1>5 DEF PullDispatches, LiveInv, LiveTypes, Session
  <2> HIDE DEF k
  <2>3. PullSlotStep(s, k, <<>>, wakes[s])
    BY <1>2, <2>2, SlotFacts DEF PullSlotStep
  <2>4. PullSlotKept(s, k, <<>>, wakes[s])
    BY <1>1, <2>1 DEF PullSlotKept, LiveInv, OnePull
  <2> QED
    BY <1>1, <1>2, <1>3, <2>1, <2>2, <2>3, <2>4, PullSlotKeepsInv
<1>6. CASE sock[s].phase = "open" /\ Expected(sock[s], page)
  <2>1. /\ page.after = sock[s].cursor /\ page.through \in Nat /\ page.observed \in Nat
        /\ announced \in Nat
        /\ sock[s].up => sock[s].sent = sock[s].cursor /\ Owed(s)
    BY <1>1, <1>6, PullFacts DEF LiveInv, LiveTypes, SentIsCursor, CommitsOwed, Pull
  <2>2. CASE sock[s].pending \/ page.through < page.observed
    <3> DEFINE q == <<Asked(page.through)>>
    <3>1. PICK k \in Session :
            /\ sock' = [sock EXCEPT ![s] = k]
            /\ k.phase = sock[s].phase /\ k.handle = sock[s].handle /\ k.up = sock[s].up
            /\ k.cursor = page.through /\ k.running = page.through
            /\ k.sent = IF sock[s].up THEN page.through ELSE sock[s].sent
      <4> DEFINE k == [sock[s] EXCEPT !.cursor = page.through, !.pending = FALSE,
                           !.running = page.through,
                           !.sent = IF sock[s].up THEN page.through ELSE sock[s].sent]
      <4>1. k \in Session
        BY <1>1, <2>1 DEF Session
      <4>2. [next EXCEPT !.sent = IF sock[s].up THEN page.through ELSE @] = k
        BY <1>1, <2>2 DEF Pulled, Committed, StartPull, Session, NoPull
      <4>3. sock' = [sock EXCEPT ![s] = k]
        BY <1>6, <4>2 DEF PullDispatches
      <4> QED
        BY <1>1, <4>1, <4>3 DEF Session
    <3>2. q \in Seq(Pull) /\ pulls' = [pulls EXCEPT ![s] = q]
      <4>1. next.running = page.through /\ next.running # NoPull
        BY <1>1, <2>1, <2>2 DEF Pulled, Committed, StartPull, Session, NoPull
      <4>2. pulls' = [pulls EXCEPT ![s] = Append(<<>>, Asked(next.running))]
        BY <1>1, <1>6, <4>1 DEF PullDispatches
      <4> HIDE DEF next
      <4> QED
        BY <2>1, <4>1, <4>2, AskedFacts
    <3>3. PullSlotStep(s, k, q, wakes[s])
      BY <1>2, <3>1, <3>2, SlotFacts DEF PullSlotStep
    <3>4. PullSlotKept(s, k, q, wakes[s])
      <4>1. k.running # NoPull
        BY <2>1, <3>1 DEF NoPull
      <4>2. page.through <= head
        BY <1>1, <2>1, SlotFacts DEF LiveInv, LiveTypes
      <4> QED
        BY <1>1, <1>6, <2>1, <3>1, <4>1, <4>2, AskedFacts DEF PullSlotKept
    <3> QED
      BY <1>1, <1>2, <1>3, <3>1, <3>2, <3>3, <3>4, PullSlotKeepsInv
  <2>3. CASE ~sock[s].pending /\ ~(page.through < page.observed)
    <3>1. PICK k \in Session :
            /\ sock' = [sock EXCEPT ![s] = k]
            /\ k.phase = sock[s].phase /\ k.handle = sock[s].handle /\ k.up = sock[s].up
            /\ k.cursor = page.through /\ k.running = NoPull /\ ~k.pending
            /\ k.sent = IF sock[s].up THEN page.through ELSE sock[s].sent
      <4> DEFINE k == [sock[s] EXCEPT !.cursor = page.through, !.running = NoPull,
                           !.sent = IF sock[s].up THEN page.through ELSE sock[s].sent]
      <4>1. k \in Session
        BY <1>1, <2>1 DEF Session
      <4>2. [next EXCEPT !.sent = IF sock[s].up THEN page.through ELSE @] = k
        BY <1>1, <2>3 DEF Pulled, Session
      <4>3. sock' = [sock EXCEPT ![s] = k]
        BY <1>6, <4>2 DEF PullDispatches
      <4> QED
        BY <1>1, <2>3, <4>1, <4>3 DEF Session
    <3>2. pulls' = [pulls EXCEPT ![s] = <<>>]
      <4>1. next.running = NoPull
        BY <1>1, <2>3 DEF Pulled, Session
      <4> QED
        BY <1>1, <1>6, <4>1 DEF PullDispatches
    <3>3. PullSlotStep(s, k, <<>>, wakes[s])
      BY <1>2, <3>1, <3>2, SlotFacts DEF PullSlotStep
    <3>4. page.through <= head /\ page.through = page.observed
      BY <1>1, <2>1, <2>3 DEF LiveInv, LiveTypes
    <3>5. sock[s].up => NotifyDue \/ wakes[s] > 0 \/ page.through >= announced
      <4>1. \A j \in DOMAIN pulls[s] : pulls[s][j] = page
        BY PullFacts
      <4>2. sock[s].running # NoPull
        BY <1>1, <1>6 DEF Expected, Pull, NoPull
      <4> QED
        BY <1>1, <2>1, <2>3, <3>4, <4>1, <4>2 DEF Owed
    <3>6. PullSlotKept(s, k, <<>>, wakes[s])
      <4>1. NotifyDue => NotifyDue'
        BY <1>3, <3>2
      <4> QED
        BY <1>1, <1>6, <2>1, <3>1, <3>4, <3>5, <4>1 DEF PullSlotKept
    <3> QED
      BY <1>1, <1>2, <1>3, <3>1, <3>2, <3>3, <3>6, PullSlotKeepsInv
  <2> QED
    BY <2>2, <2>3
<1> QED
  BY <1>4, <1>5, <1>6

-----------------------------------------------------------------------------
(***************************************************************************)
(* Commits, notifications and the listener.                                *)
(***************************************************************************)

\* A commit owes its notification to every session until it is made.
LEMMA HeadMovesKeepsInv ==
    ASSUME LiveInv, UNCHANGED <<sock, wakes, pulls, registry, server, restarts, failures>>,
           head' \in Nat, head' >= head, announced' \in Nat, announced' <= head',
           unnotified' \in Nat, http' \in {"none", "admitting", "working", "published"},
           server.state = "released" => http' = "none",
           NotifyDue' \/ (~NotifyDue /\ announced' = announced)
    PROVE  LiveInv'
<1>1. LiveTypes'
  BY DEF LiveInv, LiveTypes
<1>2. SessionShape' /\ OnePull' /\ SentIsCursor'
  BY DEF LiveInv, SessionShape, OnePull, SentIsCursor
<1>3. PagesWithinHead'
  <2> SUFFICES ASSUME NEW t \in Sockets
               PROVE  /\ sock[t].cursor <= head'
                      /\ \A i \in DOMAIN pulls[t] :
                            /\ pulls[t][i].after <= pulls[t][i].through
                            /\ pulls[t][i].through <= pulls[t][i].observed
                            /\ pulls[t][i].observed <= head'
    BY DEF PagesWithinHead
  <2>1. sock[t].cursor <= head'
    BY SlotFacts DEF Session
  <2>2. ASSUME NEW i \in DOMAIN pulls[t] PROVE pulls[t][i].observed <= head'
    BY <2>2, PullFacts, SlotFacts DEF Pull
  <2> QED
    BY <2>1, <2>2, PullFacts
<1>4. CommitsOwed'
  BY DEF LiveInv, CommitsOwed, Owed
<1>5. RegistryBounded' /\ Drains'
  BY DEF LiveInv, RegistryBounded, Drains
<1> QED
  BY <1>1, <1>2, <1>3, <1>4, <1>5 DEF LiveInv

\* A commit of this process has its notification still to come.
LEMMA CommitKeepsInv == LiveInv /\ Commit => LiveInv'
<1> SUFFICES ASSUME LiveInv, Commit PROVE LiveInv'
  OBVIOUS
<1>1. /\ head' \in Nat /\ head' >= head /\ announced' \in Nat /\ announced' <= head'
      /\ unnotified' \in Nat /\ http' = http
      /\ http \in {"none", "admitting", "working", "published"}
      /\ server.state = "released" => http' = "none"
      /\ UNCHANGED <<sock, wakes, pulls, registry, server, restarts, failures>>
  BY DEF Commit, LiveInv, LiveTypes, Drains
<1>2. NotifyDue'
  BY DEF Commit, NotifyDue, LiveInv, LiveTypes
<1> QED
  BY <1>1, <1>2, HeadMovesKeepsInv

\* A foreign commit announces nothing.
LEMMA ForeignCommitKeepsInv == LiveInv /\ ForeignCommit => LiveInv'
<1> SUFFICES ASSUME LiveInv, ForeignCommit PROVE LiveInv'
  OBVIOUS
<1>1. /\ head' \in Nat /\ head' >= head /\ announced' \in Nat /\ announced' <= head'
      /\ unnotified' \in Nat /\ http' = http /\ announced' = announced
      /\ http \in {"none", "admitting", "working", "published"}
      /\ server.state = "released" => http' = "none"
      /\ UNCHANGED <<sock, wakes, pulls, registry, server, restarts, failures, unnotified>>
  BY DEF ForeignCommit, LiveInv, LiveTypes, Drains
<1>2. NotifyDue' <=> NotifyDue
  BY <1>1 DEF NotifyDue
<1> QED
  BY <1>1, <1>2, HeadMovesKeepsInv

\* Requests: only one that publishes moves the head, and it owes its notification.
LEMMA RequestsKeepInv ==
    LiveInv /\ (Request \/ RequestAdmitted \/ RequestWorks) => LiveInv'
<1> SUFFICES ASSUME LiveInv, Request \/ RequestAdmitted \/ RequestWorks PROVE LiveInv'
  OBVIOUS
<1>1. /\ head' \in Nat /\ head' >= head /\ announced' \in Nat /\ announced' <= head'
      /\ unnotified' \in Nat /\ unnotified' = unnotified
      /\ http' \in {"none", "admitting", "working", "published"}
      /\ server.state # "released" \/ http' = "none"
      /\ UNCHANGED <<sock, wakes, pulls, registry, server, restarts, failures>>
  BY DEF Request, RequestAdmitted, RequestWorks, LiveInv, LiveTypes, Drains
<1>2. http # "published" /\ (http' = "published" \/ announced' = announced)
  BY DEF Request, RequestAdmitted, RequestWorks
<1>3. NotifyDue' \/ (~NotifyDue /\ announced' = announced)
  BY <1>1, <1>2 DEF NotifyDue
<1> QED
  BY <1>1, <1>3, HeadMovesKeepsInv

\* A notification wakes every session that listens.
LEMMA NotifyingKeepsInv ==
    ASSUME LiveInv, UNCHANGED <<head, announced, sock, registry, server, restarts, failures>>,
           unnotified' \in Nat, http' \in {"none", "admitting", "working", "published"},
           server.state = "released" => http' = "none",
           wakes' = [t \in Sockets |-> IF t \in Listeners THEN wakes[t] + 1 ELSE wakes[t]],
           pulls' = pulls
    PROVE  LiveInv'
<1>1. /\ wakes' \in [Sockets -> Nat]
      /\ \A t \in Sockets : /\ wakes'[t] \in Nat
                            /\ sock[t].phase = "open" => wakes'[t] > 0
                            /\ sock[t].phase # "open" => wakes'[t] = wakes[t]
  BY DEF LiveInv, LiveTypes, Listeners
<1>2. LiveTypes'
  BY <1>1 DEF LiveInv, LiveTypes
<1>3. SessionShape'
  BY <1>1 DEF LiveInv, SessionShape
<1>4. OnePull' /\ PagesWithinHead' /\ SentIsCursor'
  BY DEF LiveInv, OnePull, PagesWithinHead, SentIsCursor
<1>5. CommitsOwed'
  BY <1>1 DEF LiveInv, CommitsOwed, Owed
<1>6. RegistryBounded' /\ Drains'
  BY DEF LiveInv, RegistryBounded, Drains
<1> QED
  BY <1>2, <1>3, <1>4, <1>5, <1>6 DEF LiveInv

\* `run` notifies after its transaction.
LEMMA NotifyKeepsInv == LiveInv /\ Notify => LiveInv'
<1> SUFFICES ASSUME LiveInv, Notify PROVE LiveInv'
  OBVIOUS
<1>1. /\ unnotified \in Nat /\ unnotified > 0 /\ unnotified' = unnotified - 1
      /\ http \in {"none", "admitting", "working", "published"}
      /\ server.state = "released" => http = "none"
  BY DEF Notify, LiveInv, LiveTypes, Drains
<1>2. unnotified' \in Nat
  BY <1>1
<1>3. /\ UNCHANGED <<head, announced, sock, pulls, registry, server, restarts, failures, http>>
      /\ wakes' = [t \in Sockets |-> IF t \in Listeners THEN wakes[t] + 1 ELSE wakes[t]]
  BY DEF Notify
<1> QED
  BY <1>1, <1>2, <1>3, NotifyingKeepsInv

\* So does the transaction of an HTTP request.
LEMMA RequestNotifiesKeepsInv == LiveInv /\ RequestNotifies => LiveInv'
  BY NotifyingKeepsInv DEF RequestNotifies, LiveInv, LiveTypes, Drains

\* close() disconnects every session and awaits what is left of it.
LEMMA CloseKeepsInv == LiveInv /\ Close => LiveInv'
<1> SUFFICES ASSUME LiveInv, Close PROVE LiveInv'
  OBVIOUS
<1>1. /\ sock' \in [Sockets -> Session]
      /\ \A t \in Sockets :
            /\ ~sock'[t].up /\ sock'[t].phase = sock[t].phase /\ sock'[t].handle = sock[t].handle
            /\ sock'[t].running = sock[t].running /\ sock'[t].cursor = sock[t].cursor
            /\ sock'[t].pending = sock[t].pending
  BY DEF Close, LiveInv, LiveTypes, Session
<1>2. /\ server' \in [state : {"up", "closing", "released"}, owned : SUBSET (BOOLEAN \X Sockets)]
      /\ server'.state = "closing"
      /\ \A t \in Sockets : sock[t].phase # "absent" =>
            <<sock[t].phase = "admitting", t>> \in server'.owned
  <2> DEFINE w == {<<sock[s].phase = "admitting", s>> :
                      s \in {t \in Sockets : sock[t].phase # "absent"}}
  <2>1. server' = [state |-> "closing", owned |-> w]
    BY DEF Close
  <2>2. w \in SUBSET (BOOLEAN \X Sockets)
    <3> SUFFICES ASSUME NEW s \in Sockets
                 PROVE  <<sock[s].phase = "admitting", s>> \in BOOLEAN \X Sockets
      OBVIOUS
    <3> DEFINE b == sock[s].phase = "admitting"
    <3>1. b \in BOOLEAN
      OBVIOUS
    <3> HIDE DEF b
    <3>2. <<b, s>> \in BOOLEAN \X Sockets
      BY <3>1
    <3> QED
      BY <3>2 DEF b
  <2>3. \A t \in Sockets : sock[t].phase # "absent" => <<sock[t].phase = "admitting", t>> \in w
    OBVIOUS
  <2> HIDE DEF w
  <2> QED
    BY <2>1, <2>2, <2>3
<1>3. UNCHANGED <<head, announced, unnotified, wakes, pulls, registry, restarts, failures, http>>
  BY DEF Close
<1>4. LiveTypes'
  BY <1>1, <1>2, <1>3 DEF LiveInv, LiveTypes
<1>5. SessionShape'
  BY <1>1, <1>3 DEF LiveInv, SessionShape
<1>6. OnePull'
  BY <1>1, <1>3 DEF LiveInv, OnePull
<1>7. PagesWithinHead' /\ SentIsCursor' /\ CommitsOwed' /\ RegistryBounded'
  BY <1>1, <1>3 DEF LiveInv, PagesWithinHead, SentIsCursor, CommitsOwed, RegistryBounded
<1>8. Drains'
  <2>1. ASSUME NEW t \in Sockets
        PROVE  /\ sock'[t].phase = "admitting" => <<TRUE, t>> \in server'.owned
               /\ sock'[t].phase \notin {"absent", "admitting"} => <<FALSE, t>> \in server'.owned
    <3>1. CASE sock[t].phase = "admitting"
      <4>1. (sock[t].phase = "admitting") = TRUE
        BY <3>1
      <4> QED
        BY <1>1, <1>2, <3>1, <4>1
    <3>2. CASE sock[t].phase \notin {"absent", "admitting"}
      <4>1. (sock[t].phase = "admitting") = FALSE
        BY <3>2
      <4> QED
        BY <1>1, <1>2, <3>2, <4>1
    <3> QED
      BY <1>1, <3>1, <3>2
  <2> QED
    BY <1>1, <1>2, <2>1 DEF Drains
<1> QED
  BY <1>4, <1>5, <1>6, <1>7, <1>8 DEF LiveInv

\* close() resolves when every awaited upgrade and session has settled.
LEMMA ClosedKeepsInv == LiveInv /\ Closed => LiveInv'
<1> SUFFICES ASSUME LiveInv, Closed PROVE LiveInv'
  OBVIOUS
<1>1. \A t \in Sockets : sock[t].phase = "absent"
  <2> SUFFICES ASSUME NEW t \in Sockets, sock[t].phase # "absent" PROVE FALSE
    OBVIOUS
  <2>1. CASE sock[t].phase = "admitting"
    <3>1. <<TRUE, t>> \in server.owned
      BY <2>1 DEF Closed, LiveInv, Drains
    <3> QED
      BY <2>1, <3>1 DEF Closed, Settled
  <2>2. CASE sock[t].phase # "admitting"
    <3>1. <<FALSE, t>> \in server.owned
      BY <2>2 DEF Closed, LiveInv, Drains
    <3> QED
      BY <2>2, <3>1 DEF Closed, Settled
  <2> QED
    BY <2>1, <2>2
<1>2. /\ UNCHANGED <<head, announced, unnotified, sock, wakes, pulls, registry, restarts,
                     failures, http>>
      /\ server' = [state |-> "released", owned |-> {}] /\ http = "none"
  BY DEF Closed
<1>3. LiveTypes'
  BY <1>2 DEF LiveInv, LiveTypes
<1>4. SessionShape' /\ OnePull' /\ PagesWithinHead' /\ SentIsCursor' /\ RegistryBounded'
  BY <1>2 DEF LiveInv, SessionShape, OnePull, PagesWithinHead, SentIsCursor, RegistryBounded
<1>5. CommitsOwed'
  BY <1>1, <1>2 DEF CommitsOwed
<1>6. Drains'
  BY <1>1, <1>2 DEF LiveInv, Drains, SessionShape
<1> QED
  BY <1>3, <1>4, <1>5, <1>6 DEF LiveInv

-----------------------------------------------------------------------------
(***************************************************************************)
(* A pull's transaction and its notification.                              *)
(***************************************************************************)

\* One pull of a slot is replaced by another.
ReplacesPull(s, i, p) == pulls' = [pulls EXCEPT ![s] = [pulls[s] EXCEPT ![i] = p]]

\* The slot still has one pull.
LEMMA PullReplaced ==
    ASSUME LiveInv, NEW s \in Sockets, NEW i \in DOMAIN pulls[s], NEW p \in Pull,
           ReplacesPull(s, i, p)
    PROVE  /\ pulls' \in [Sockets -> Seq(Pull)]
           /\ \A t \in Sockets : t # s => pulls'[t] = pulls[t]
           /\ Len(pulls'[s]) <= 1 /\ pulls'[s] # <<>> /\ i \in DOMAIN pulls'[s]
           /\ \A j \in DOMAIN pulls'[s] : pulls'[s][j] = p
<1> DEFINE q == [pulls[s] EXCEPT ![i] = p]
<1>1. pulls[s] \in Seq(Pull) /\ Len(pulls[s]) = 1 /\ i = 1
  BY PullFacts
<1>2. q \in Seq(Pull) /\ Len(q) = 1 /\ q[1] = p /\ DOMAIN q = {1} /\ q # <<>>
  BY <1>1
<1>3. pulls'[s] = q /\ \A t \in Sockets : t # s => pulls'[t] = pulls[t]
  BY DEF ReplacesPull, LiveInv, LiveTypes
<1>4. pulls' \in [Sockets -> Seq(Pull)]
  BY <1>2 DEF ReplacesPull, LiveInv, LiveTypes
<1> HIDE DEF q
<1>5. Len(q) <= 1 /\ i \in DOMAIN q /\ \A j \in DOMAIN q : q[j] = p
  BY <1>1, <1>2
<1> QED
  BY <1>2, <1>3, <1>4, <1>5

\* A pull's transaction reads the head it leaves, so its page owes nothing; what
\* it publishes is owed to every session until it is notified.
LEMMA PullReadsKeepsInv ==
    ASSUME LiveInv, NEW s \in Sockets, NEW i \in DOMAIN pulls[s], PullReads(s, i)
    PROVE  LiveInv'
<1>1. PICK through \in PageEnds(pulls[s][i].after), publishes \in BOOLEAN :
         /\ publishes => head < load.head
         /\ head' = IF publishes THEN head + 1 ELSE head
         /\ announced' = IF publishes THEN head + 1 ELSE announced
         /\ pulls' = [pulls EXCEPT ![s][i] =
                [@ EXCEPT !.state = "committed", !.through = through,
                          !.observed = head', !.publishes = publishes]]
  BY DEF PullReads
<1> DEFINE p == [pulls[s][i] EXCEPT !.state = "committed", !.through = through,
                                    !.observed = head', !.publishes = publishes]
<1>2. /\ pulls[s][i] \in Pull /\ pulls[s][i].state = "asked" /\ pulls[s][i].after \in Nat
      /\ pulls[s][i].after <= head
      /\ head \in Nat /\ announced \in Nat /\ announced <= head
      /\ UNCHANGED <<unnotified, sock, wakes, registry, server, restarts, failures, http>>
  <2>1. pulls[s][i] \in Pull /\ head \in Nat
    BY PullFacts, SlotFacts
  <2>2. pulls[s][i].after <= head
    BY <2>1, PullFacts DEF Pull
  <2> QED
    BY <2>1, <2>2 DEF PullReads, Pull, LiveInv, LiveTypes
<1>3. /\ through \in Nat /\ pulls[s][i].after <= through /\ through <= head
      /\ head' \in Nat /\ head <= head' /\ announced' \in Nat /\ announced' <= head'
  BY <1>1, <1>2 DEF PageEnds
<1>4. /\ p \in Pull /\ p.after = pulls[s][i].after /\ p.state = "committed"
      /\ p.through = through /\ p.observed = head' /\ p.publishes = publishes
  BY <1>1, <1>2, <1>3 DEF Pull
<1>5. ReplacesPull(s, i, p)
  BY <1>1 DEF ReplacesPull
<1> HIDE DEF p
<1>6. /\ pulls' \in [Sockets -> Seq(Pull)]
      /\ \A t \in Sockets : t # s => pulls'[t] = pulls[t]
      /\ Len(pulls'[s]) <= 1 /\ pulls'[s] # <<>> /\ i \in DOMAIN pulls'[s]
      /\ \A j \in DOMAIN pulls'[s] : pulls'[s][j] = p
  BY <1>4, <1>5, PullReplaced
<1>7. LiveTypes'
  BY <1>2, <1>3, <1>6 DEF LiveInv, LiveTypes
<1>8. SessionShape'
  BY <1>2, <1>6, PullFacts DEF LiveInv, SessionShape
<1>9. OnePull'
  <2>1. sock[s].phase = "open" => p.after = sock[s].cursor /\ sock[s].running # NoPull
    BY <1>4, PullFacts DEF LiveInv, OnePull
  <2> QED
    BY <1>2, <1>6, <2>1 DEF LiveInv, OnePull
<1>10. PagesWithinHead'
  <2> SUFFICES ASSUME NEW t \in Sockets
               PROVE  /\ sock[t].cursor <= head'
                      /\ \A j \in DOMAIN pulls'[t] :
                            /\ pulls'[t][j].after <= pulls'[t][j].through
                            /\ pulls'[t][j].through <= pulls'[t][j].observed
                            /\ pulls'[t][j].observed <= head'
    BY <1>2 DEF PagesWithinHead
  <2>1. sock[t].cursor <= head'
    BY <1>3, SlotFacts DEF Session
  <2>2. CASE t = s
    BY <1>2, <1>3, <1>4, <1>6, <2>1, <2>2
  <2>3. CASE t # s
    <3>1. ASSUME NEW j \in DOMAIN pulls[t] PROVE pulls[t][j].observed <= head'
      BY <1>2, <1>3, <3>1, PullFacts DEF Pull
    <3> QED
      BY <1>6, <2>1, <2>3, <3>1, PullFacts
  <2> QED
    BY <2>2, <2>3
<1>11. SentIsCursor' /\ RegistryBounded' /\ Drains'
  BY <1>2 DEF LiveInv, SentIsCursor, RegistryBounded, Drains
<1>12. CommitsOwed'
  <2>1. CASE publishes
    <3>1. NotifyDue'
      BY <1>4, <1>6, <2>1 DEF NotifyDue
    <3> QED
      BY <3>1 DEF CommitsOwed, Owed
  <2>2. CASE ~publishes
    <3>1. announced' = announced /\ p.observed >= announced
      BY <1>1, <1>2, <1>3, <1>4, <2>2
    <3>2. NotifyDue => NotifyDue'
      <4>1. \A j \in DOMAIN pulls[s] : pulls[s][j].state # "committed"
        BY <1>2, PullFacts
      <4> QED
        BY <1>2, <1>6, <4>1, NotifyDueKept
    <3>3. Owed(s)'
      BY <1>6, <3>1 DEF Owed
    <3>4. ASSUME NEW t \in Sockets, t # s, Owed(t) PROVE Owed(t)'
      BY <1>2, <1>6, <3>1, <3>2, <3>4 DEF Owed
    <3> QED
      BY <1>2, <3>3, <3>4 DEF LiveInv, CommitsOwed
  <2> QED
    BY <2>1, <2>2
<1> QED
  BY <1>7, <1>8, <1>9, <1>10, <1>11, <1>12 DEF LiveInv

\* A pull's notification comes before its page: it wakes every session that
\* listens if the transaction published, and else owes nothing.
LEMMA PullNotifiesKeepsInv ==
    ASSUME LiveInv, NEW s \in Sockets, NEW i \in DOMAIN pulls[s], PullNotifies(s, i)
    PROVE  LiveInv'
<1> DEFINE p == [pulls[s][i] EXCEPT !.state = "done"]
           woken == pulls[s][i].publishes
<1>1. /\ pulls[s][i] \in Pull /\ pulls[s][i].state = "committed"
      /\ UNCHANGED <<head, announced, unnotified, sock, registry, server, restarts,
                     failures, http>>
  BY PullFacts DEF PullNotifies
<1>2. /\ p \in Pull /\ p.after = pulls[s][i].after /\ p.state = "done"
      /\ p.through = pulls[s][i].through /\ p.observed = pulls[s][i].observed
  BY <1>1 DEF Pull
<1>3. ReplacesPull(s, i, p)
  BY DEF PullNotifies, ReplacesPull
<1> HIDE DEF p
<1>4. /\ pulls' \in [Sockets -> Seq(Pull)]
      /\ \A t \in Sockets : t # s => pulls'[t] = pulls[t]
      /\ Len(pulls'[s]) <= 1 /\ pulls'[s] # <<>> /\ i \in DOMAIN pulls'[s]
      /\ \A j \in DOMAIN pulls'[s] : pulls'[s][j] = p
  BY <1>2, <1>3, PullReplaced
<1>5. /\ wakes' \in [Sockets -> Nat]
      /\ \A t \in Sockets : /\ sock[t].phase = "open" /\ woken => wakes'[t] > 0
                            /\ sock[t].phase # "open" => wakes'[t] = wakes[t]
                            /\ ~woken => wakes'[t] = wakes[t]
  <2>1. woken \in BOOLEAN /\ wakes \in [Sockets -> Nat]
    BY <1>1 DEF LiveInv, LiveTypes, Pull
  <2>2. wakes' = [t \in Sockets |-> IF t \in Listeners /\ woken
                                    THEN wakes[t] + 1 ELSE wakes[t]]
    BY DEF PullNotifies
  <2> HIDE DEF woken
  <2> QED
    BY <2>1, <2>2 DEF Listeners
<1> HIDE DEF woken
<1>6. LiveTypes'
  BY <1>1, <1>4, <1>5 DEF LiveInv, LiveTypes
<1>7. SessionShape'
  BY <1>1, <1>4, <1>5, PullFacts DEF LiveInv, SessionShape
<1>8. OnePull'
  <2>1. sock[s].phase = "open" => p.after = sock[s].cursor /\ sock[s].running # NoPull
    BY <1>2, PullFacts DEF LiveInv, OnePull
  <2> QED
    BY <1>1, <1>4, <2>1 DEF LiveInv, OnePull
<1>9. PagesWithinHead'
  BY <1>1, <1>2, <1>4, PullFacts DEF LiveInv, PagesWithinHead
<1>10. SentIsCursor' /\ RegistryBounded' /\ Drains'
  BY <1>1 DEF LiveInv, SentIsCursor, RegistryBounded, Drains
<1>11. CommitsOwed'
  <2>1. CASE woken
    BY <1>1, <1>5, <2>1 DEF CommitsOwed, Owed
  <2>2. CASE ~woken
    <3>1. \A j \in DOMAIN pulls[s] : pulls[s][j] = pulls[s][i] /\ ~pulls[s][j].publishes
      BY <2>2, PullFacts DEF woken
    <3>2. NotifyDue => NotifyDue'
      BY <1>1, <1>4, <3>1 DEF NotifyDue
    <3>3. ASSUME NEW t \in Sockets, t # s, Owed(t) PROVE Owed(t)'
      BY <1>1, <1>4, <1>5, <2>2, <3>2, <3>3 DEF Owed
    <3>4. ASSUME Owed(s) PROVE Owed(s)'
      <4>1. (\E j \in DOMAIN pulls[s] :
                pulls[s][j].state = "asked" \/ pulls[s][j].observed >= announced)
            => p.observed >= announced
        BY <1>1, <1>2, <3>1
      <4> QED
        BY <1>1, <1>4, <1>5, <2>2, <3>2, <3>4, <4>1 DEF Owed
    <3> QED
      BY <1>1, <3>3, <3>4 DEF LiveInv, CommitsOwed
  <2> QED
    BY <2>1, <2>2
<1> QED
  BY <1>6, <1>7, <1>8, <1>9, <1>10, <1>11 DEF LiveInv

-----------------------------------------------------------------------------
(***************************************************************************)
(* The theorems.                                                           *)
(***************************************************************************)

\* Every step keeps the invariant.
LEMMA NextLiveInv == LiveInv /\ [Next]_vars => LiveInv'
<1> SUFFICES ASSUME LiveInv, [Next]_vars PROVE LiveInv'
  OBVIOUS
<1>1. ASSUME NEW s \in Sockets, Upgrade(s) \/ Subscribe(s) \/ SessionStep(s) PROVE LiveInv'
  BY <1>1, UpgradeKeepsInv, SubscribeKeepsInv, AdmitKeepsInv, NegotiateKeepsInv,
     NegotiatedKeepsInv, ExecuteKeepsInv, EndKeepsInv, GoneKeepsInv DEF SessionStep
<1>2. ASSUME NEW s \in Sockets, NegotiationFails(s) \/ Disconnect(s) PROVE LiveInv'
  BY <1>2, NegotiationFailsKeepsInv, DisconnectKeepsInv
<1>3. CASE Commit \/ ForeignCommit \/ Notify
  BY <1>3, CommitKeepsInv, ForeignCommitKeepsInv, NotifyKeepsInv
<1>4. ASSUME NEW s \in Sockets, Wake(s) \/ PullStep(s) PROVE LiveInv'
  BY <1>4, WakeKeepsInv, PullReadsKeepsInv, PullNotifiesKeepsInv, PullDispatchesKeepsInv
     DEF PullStep
<1>5. ASSUME NEW s \in Sockets, NEW i \in DOMAIN pulls[s], PullFails(s, i) PROVE LiveInv'
  BY <1>5, PullFailsKeepsInv
<1>6. CASE Request \/ RequestStep
  BY <1>6, RequestsKeepInv, RequestNotifiesKeepsInv DEF RequestStep
<1>7. CASE Close \/ Closed
  BY <1>7, CloseKeepsInv, ClosedKeepsInv
<1>8. CASE UNCHANGED vars
  BY <1>8 DEF vars, LiveInv, LiveTypes, SessionShape, OnePull, PagesWithinHead, SentIsCursor,
     CommitsOwed, Owed, NotifyDue, RegistryBounded, Drains
<1> QED
  BY <1>1, <1>2, <1>3, <1>4, <1>5, <1>6, <1>7, <1>8 DEF Next

\* The session, pull, wake and registry records of the server stay typed and
\* coherent in every behaviour.
THEOREM LiveInvariant == Spec => []LiveInv
<1>1. Init => LiveInv
  BY InitLiveInv
<1>2. LiveInv /\ [Next]_vars => LiveInv'
  BY NextLiveInv
<1> QED
  BY <1>1, <1>2, PTL DEF Spec

\* No wakeup is lost: a connected session with no pull, no queued wake and no
\* notification to come has been sent every commit of this process, whenever
\* the commit fell (WakeHub.notify, serveLive, handle05).
THEOREM WakeupsKept == Spec => []NoLostWakeup
<1>1. LiveInv => NoLostWakeup
  <2> SUFFICES ASSUME LiveInv, NEW s \in Sockets, sock[s].phase = "open", sock[s].up,
                      pulls[s] = <<>>, wakes[s] = 0, ~NotifyDue
               PROVE  sock[s].sent >= announced
    BY DEF NoLostWakeup
  <2>1. sock[s].running = NoPull /\ ~sock[s].pending /\ sock[s].sent = sock[s].cursor
    BY DEF LiveInv, OnePull, SentIsCursor
  <2>2. Owed(s)
    BY DEF LiveInv, CommitsOwed
  <2> QED
    BY <2>1, <2>2 DEF Owed
<1> QED
  BY <1>1, LiveInvariant, PTL

\* The frames of a connection leave no gap: each page begins where the last
\* frame ended, and no frame passes the committed head (handle05 Pulled).
THEOREM FramesAreContiguous == Spec => []FramesContiguous
<1>1. LiveInv => FramesContiguous
  BY DEF LiveInv, SentIsCursor, PagesWithinHead, FramesContiguous
<1> QED
  BY <1>1, LiveInvariant, PTL

\* Once the listener's close() has resolved no session, pull or request is
\* left, and only failed negotiations leave controllers registered.
THEOREM ReleaseIsDrained == Spec => []ReleasedIsDrained
<1>1. LiveInv => ReleasedIsDrained
  <2> SUFFICES ASSUME LiveInv, server.state = "released", NEW s \in Sockets
               PROVE  http = "none" /\ sock[s].phase = "absent" /\ pulls[s] = <<>>
                      /\ registry[s] <= restarts
    BY DEF ReleasedIsDrained, LiveInv, Drains
  <2>1. http = "none" /\ sock[s].phase = "absent"
    BY DEF LiveInv, Drains
  <2> QED
    BY <2>1, SlotFacts
<1> QED
  BY <1>1, LiveInvariant, PTL

=============================================================================
