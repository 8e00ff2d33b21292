---------------------------- MODULE SyncControl ----------------------------
(***************************************************************************)
(* The client's sync controller (crates/client/src/sync05/downlink.rs), its *)
(* delivery queue, and the two threads it runs between: the control thread *)
(* that owns it and the Store worker that owns SQLite                      *)
(* (bindings/common/src/actor.rs, crates/client/src/runtime/mod.rs).       *)
(*                                                                         *)
(* Control never touches the Store.  Each of its turns answers one input   *)
(* (the outcome of an effect, a worker's report, a lifecycle event) and    *)
(* ends by sending the jobs it gathered to the worker, every job fenced    *)
(* with the epoch and the context of that turn.  The worker drops a job    *)
(* whose fence is old and reports on the others; Control drops a report    *)
(* whose fence is old.  Jobs and reports travel in two FIFO mailboxes, so  *)
(* Control acts on a status the Store may have left behind.                *)
(*                                                                         *)
(* A unit of a page is one cursor.  The record a page carries, byte sizes, *)
(* digests and back-off durations are left out; what a page may claim is   *)
(* the subject of StreamStore and DeliveryUnits, what a Batch does at the  *)
(* server of MutationBatch.                                                *)
(***************************************************************************)
EXTENDS Integers, SequencesExt

CONSTANTS
    MaxHead,    \* bound on the Stream head
    MaxCalls,   \* bound on the Mutations submitted
    MaxFaults,  \* bound on the faults of a behaviour
    Faults,     \* the kinds of faults that may happen
    Opened,     \* the files a behaviour may begin with, see Begun
    MaxIds,     \* bound on the plan identities in use
    Slots,      \* DeliveryQueue.slots
    MaxMail     \* bound on the jobs and reports waiting when the network answers

FaultKinds == {"error", "unauthorized", "refused", "closed", "fragment", "expired",
               "capacity", "store", "lifecycle", "slow", "restart", "reset"}

ASSUME ControlAssumption ==
    /\ MaxHead \in Nat /\ MaxCalls \in Nat /\ MaxFaults \in Nat
    /\ MaxIds \in Nat \ {0} /\ Slots \in Nat \ {0, 1} /\ MaxMail \in Nat \ {0}
    /\ Faults \subseteq FaultKinds
    /\ Opened \subseteq {"new", "changed", "settled", "sent"}
    /\ "sent" \in Opened => MaxHead > 0 /\ MaxCalls > 0

None == -1                              \* a cursor that is still NULL
Zero(n) == IF n = None THEN 0 ELSE n    \* unwrap_or(0)
Later(m, n) == IF m < n THEN n ELSE m
Done == MaxHead + 2                     \* u64::MAX, the next unit of a finished plan
Ids == 1..MaxIds

\* The owner of a transfer: a cursor range has none.
NoOwner == [kind |-> "none", batch |-> 0]
SchemaOwner == [kind |-> "schema", batch |-> 0]
SettlementOwner(b) == [kind |-> "settlement", batch |-> b]

VARIABLES
    head,       \* the Stream head at the server
    done,       \* per Store incarnation, the last Batch the server executed
    store,      \* the durable Store
    ctl,        \* Control, as one record
    mail,       \* the jobs sent to the Store worker
    reports,    \* the reports sent back
    faults      \* how many faults have happened

vars == <<head, done, store, ctl, mail, reports, faults>>

----------------------------------------------------------------------------
(***************************************************************************)
(* The Store, as its worker shows it.                                      *)
(*   S, B, C      start_cursor, bootstrap_cursor, cursor                   *)
(*   ctx, desired the enabled context and the wanted materialization       *)
(*   progress     axton_delivery_progress: the partial plan of each lane   *)
(*   unsent       ready Mutations of no Batch                              *)
(*   batch, stage the last Batch: idle (settled), frozen, owed (accepted   *)
(*                and not settled); sync its fence, evidence whether its   *)
(*                target's authority is held                               *)
(***************************************************************************)
NoProgress == [id |-> 0, next |-> 0]

FreshStore(incarnation, mat) ==
    [ctx |-> [store |-> incarnation, mat |-> mat], desired |-> mat,
     S |-> None, B |-> None, C |-> None,
     progress |-> [lane \in BOOLEAN |-> NoProgress],
     unsent |-> 0, batch |-> 0, stage |-> "idle", sync |-> 0,
     need |-> "none", evidence |-> FALSE]

\* store_status05
Status(s) == [ctx |-> s.ctx, S |-> s.S, B |-> s.B, C |-> s.C]

\* pending_schema05
SchemaPending(s) == s.ctx.mat # s.desired

\* active_delivery_plans05
ActivePlans(s) == {s.progress[lane].id : lane \in BOOLEAN} \ {0}

\* reconcile_ready05: an accepted Batch settles with its evidence and fence.
Settled(s) ==
    IF s.stage = "owed" /\ s.evidence /\ Zero(s.C) >= s.sync
    THEN [s EXCEPT !.stage = "idle"] ELSE s

----------------------------------------------------------------------------
(***************************************************************************)
(* Control.                                                                *)
(***************************************************************************)
NoNet == <<>>
EmptyQueue == [id \in {} |-> NoOwner]

\* Control::new.  `applying` is the plan of the Apply at the worker, 0 if
\* there is none; `paused` is left out, since a paused Control is stopped.
NewControl(st) ==
    [ctx |-> st.ctx, st |-> st, queue |-> EmptyQueue, flights |-> {},
     connected |-> FALSE, live |-> FALSE, net |-> NoNet, dhead |-> Zero(st.C),
     prefetch |-> TRUE, applying |-> 0, freezing |-> FALSE, wakeAfterNeeds |-> FALSE,
     waitingPush |-> 0, newEpoch |-> FALSE, refreshing |-> FALSE, waiters |-> <<>>,
     jobs |-> <<>>]

Has(c, kind) == \E x \in c.flights : x.f.kind = kind

\* A timer, handshake or refresh; the socket, which opens before it delivers.
\* Two flights of one content are told apart by n, as effect ids tell them apart.
Plain(kind) == [kind |-> kind]
Socket(open) == [kind |-> "Socket", open |-> open]
Effect(c, f) ==
    LET n == CHOOSE i \in 1..9 : /\ [f |-> f, n |-> i] \notin c.flights
                                 /\ \A j \in 1..(i - 1) : [f |-> f, n |-> j] \in c.flights
    IN [c EXCEPT !.flights = @ \cup {[f |-> f, n |-> n]}]

Job(c, cmd) == [c EXCEPT !.jobs = Append(@, cmd)]
Cmd(kind) == [kind |-> kind]

Drop(c, Stale(_)) == [c EXCEPT !.flights = {x \in @ : ~Stale(x.f)}]
Keep(c, Kept(_, _)) ==
    [c EXCEPT !.queue = Restrict(@, {id \in DOMAIN @ : Kept(id, @[id])})]

Ordinary(p) == p.owner = NoOwner
Units(p) == IF Ordinary(p) /\ p.through > p.after THEN p.through - p.after ELSE 1
Complete(p) == p.next..(Units(p) - 1) \subseteq p.have

\* The waiters at these places, in their order.
Remaining(waiting, keep) ==
    LET kept[n \in 0..Len(waiting)] ==
            IF n = 0 THEN <<>>
            ELSE IF n \in keep THEN Append(kept[n - 1], waiting[n]) ELSE kept[n - 1]
    IN kept[Len(waiting)]

\* retire_bootstrap_prefetch: what runs ahead of the committed B is dropped,
\* requests that wait for new credentials included.
RetirePrefetch(c) ==
    LET b == Zero(c.st.B)
        Ahead(f) == f.kind = "Delta" /\ f.boot /\ f.after > b
        Kept(id, p) == ~Ordinary(p) \/ ~p.boot \/ p.after <= b
        d == Keep(Drop(c, Ahead), Kept)
    IN [d EXCEPT !.waiters = Remaining(@, {i \in DOMAIN @ : ~Ahead(@[i])})]

HandshakeKeepsLatches(c) ==
    LET Cancelled(f) == f.kind \in {"Socket", "Delta", "Handshake", "Owned", "Push"}
    IN Effect([Drop(RetirePrefetch(c), Cancelled) EXCEPT !.newEpoch = TRUE], Plain("Handshake"))
\* handshake: a new epoch, the network effects of the old one cancelled.
Handshake(c) ==
    LET Cancelled(f) == f.kind \in {"Socket", "Delta", "Handshake", "Owned", "Push"}
        d == Drop(RetirePrefetch(c), Cancelled)
    IN Effect([d EXCEPT !.newEpoch = TRUE, !.applying = 0, !.freezing = FALSE,
                        !.wakeAfterNeeds = FALSE, !.waitingPush = 0],
              Plain("Handshake"))

Connect(c) == Handshake([c EXCEPT !.connected = TRUE])

Stop(c) ==
    [c EXCEPT !.newEpoch = TRUE, !.applying = 0, !.connected = FALSE, !.live = FALSE,
              !.net = NoNet, !.flights = {}, !.jobs = <<>>, !.freezing = FALSE,
              !.wakeAfterNeeds = FALSE, !.waitingPush = 0, !.refreshing = FALSE,
              !.waiters = <<>>]

\* wake: one Freeze at a time, none beside a Push or ahead of a Needs.
Wake(c) ==
    IF c.connected /\ ~c.wakeAfterNeeds /\ ~c.freezing /\ ~Has(c, "Push")
    THEN Job([c EXCEPT !.freezing = TRUE], Cmd("Freeze")) ELSE c

\* retry_status
Retry(c) ==
    IF c.connected /\ ~Has(c, "Retry") THEN Effect(c, Plain("Retry")) ELSE c

----------------------------------------------------------------------------
(***************************************************************************)
(* schedule                                                                *)
(***************************************************************************)
Reached(st, lane) == Zero(IF lane THEN st.B ELSE st.C)

ArmExpiry(c) ==
    IF DOMAIN c.queue # {} /\ ~Has(c, "Expire") THEN Effect(c, Plain("Expire")) ELSE c

TellNetwork(c) ==
    LET net == <<c.live, c.st.C = None \/ c.st.C < c.dhead>>
    IN IF c.net = net THEN c
       ELSE Job([c EXCEPT !.net = net], Cmd("NetworkState"))

\* A plan whose next unit may go to the worker: not blocked, no blocked
\* ordinary plan in its lane, beginning at or below the committed position.
MayApply(c, id) ==
    LET p == c.queue[id]
    IN /\ ~p.blocked
       /\ Ordinary(p) => ~\E o \in DOMAIN c.queue :
             c.queue[o].blocked /\ Ordinary(c.queue[o]) /\ c.queue[o].boot = p.boot
       /\ p.after <= Reached(c.st, p.boot)
       /\ p.next \in p.have

\* One Apply at the worker, the first eligible plan by identity.
ScheduleApply(c) ==
    LET ready == {id \in DOMAIN c.queue : MayApply(c, id)}
        id == Min(ready)
    IN IF c.applying # 0 \/ ready = {} THEN c
       ELSE Job([c EXCEPT !.applying = id],
                [kind |-> "Apply", id |-> id, plan |-> c.queue[id]])

RequestedInFlight(c) == Has(c, "Delta")
\* Requests that wait for new credentials still occupy the one cursor slot.
Requested(c) == Has(c, "Delta") \/ \E i \in DOMAIN c.waiters : c.waiters[i].kind = "Delta"

Pull(c, lane, after, through) ==
    Effect(c, [kind |-> "Delta", ctx |-> c.ctx, boot |-> lane,
               after |-> after, through |-> through])

\* bootstrap_prefetch_after: the successor of the one complete page.
PullSuccessor(c, after, through) ==
    LET pages == {id \in DOMAIN c.queue :
                    LET p == c.queue[id]
                    IN Ordinary(p) /\ p.boot /\ p.ctx = c.ctx /\ p.through > after}
        p == c.queue[Min(pages)]
    IN IF /\ c.prefetch
          /\ Cardinality(pages) = 1
          /\ ~p.blocked /\ p.after <= after /\ Complete(p)
          /\ p.through < through
       THEN Pull(c, TRUE, p.through, through) ELSE c

\* One cursor request: Bootstrap until B = S, then the gap to the known head,
\* unless a queued plan holds the committed position.
SchedulePull(c) ==
    LET boot == c.st.B # c.st.S
        after == Reached(c.st, boot)
        through == IF boot THEN c.st.S ELSE c.dhead
        held == \E p \in Range(c.queue) : p.boot = boot /\ p.after # None
                                           /\ p.after <= after /\ p.through >= after
    IN IF Requested(c) \/ c.st.S = None THEN c
       ELSE IF held THEN (IF boot THEN PullSuccessor(c, after, through) ELSE c)
       ELSE IF boot \/ after < through THEN Pull(c, boot, after, through) ELSE c

Schedule(c) ==
    IF c.connected THEN SchedulePull(ScheduleApply(TellNetwork(ArmExpiry(c)))) ELSE c

----------------------------------------------------------------------------
(***************************************************************************)
(* Store reports.                                                          *)
(***************************************************************************)
\* owned: one transfer per owner, in flight or staged.
Own(c, owner, ctx, held) ==
    IF \/ ~c.connected
       \/ \E x \in c.flights : x.f.kind = "Owned" /\ x.f.owner = owner
       \/ \E p \in Range(c.queue) : p.owner = owner
    THEN c
    ELSE Effect(c, [kind |-> "Owned", ctx |-> ctx, owner |-> owner, held |-> held])

Push(c, b) == Effect(c, [kind |-> "Push", store |-> c.ctx.store, batch |-> b])

OnSnapshotKeeps(c, st) ==
    Job([c EXCEPT !.ctx = st.ctx, !.st = st, !.wakeAfterNeeds = TRUE], Cmd("Needs"))
\* Snapshot: another Store incarnation retires everything of the old one.
OnSnapshot(c, st) ==
    LET fresh == [Stop(c) EXCEPT !.queue = EmptyQueue, !.dhead = Zero(st.C), !.ctx = st.ctx]
        d == IF st.ctx.store = c.ctx.store THEN c
             ELSE IF c.connected THEN Connect(fresh) ELSE fresh
    IN Job([d EXCEPT !.ctx = st.ctx, !.st = st, !.wakeAfterNeeds = TRUE], Cmd("Needs"))

\* Needs: the Store's complete list of owners.  Requests, waiters and staged
\* transfers of no listed owner go; missing authority is asked for; then a
\* held-back Push leaves and the next Batch may freeze.  (Undispatched Apply
\* jobs of retired plans are removed too: a turn begins with none.)
OnNeeds(c, r) ==
    LET Pending(ctx, owner) ==
            \/ owner = SchemaOwner /\ r.schema /\ ctx.store = c.ctx.store /\ ctx.mat = r.desired
            \/ owner = SettlementOwner(r.owed) /\ r.owed # 0 /\ ctx = c.ctx
        Unowned(f) == f.kind = "Owned" /\ ~Pending(f.ctx, f.owner)
        Kept(id, p) == Ordinary(p) \/ Pending(p.ctx, p.owner)
        c1 == [Keep(Drop(c, Unowned), Kept) EXCEPT
                 !.waiters = Remaining(@, {i \in DOMAIN @ : ~Unowned(@[i])})]
        c2 == IF r.schema
              THEN Own(c1, SchemaOwner, [c.ctx EXCEPT !.mat = r.desired], r.held) ELSE c1
        c3 == IF r.progressed THEN [c2 EXCEPT !.st = r.st, !.wakeAfterNeeds = TRUE] ELSE c2
        c4 == IF r.missing THEN Own(c3, SettlementOwner(r.owed), c.ctx, r.held) ELSE c3
        c5 == [c4 EXCEPT !.wakeAfterNeeds = FALSE, !.waitingPush = 0]
        c6 == IF c4.waitingPush # 0 THEN Push(c5, c4.waitingPush) ELSE c5
    IN IF c4.wakeAfterNeeds THEN Wake(c6) ELSE c6

\* Frozen: the Push waits for a Needs that is on its way.
OnFrozen(c, b) ==
    LET d == [c EXCEPT !.freezing = FALSE]
    IN IF b = 0 THEN d
       ELSE IF c.wakeAfterNeeds THEN [d EXCEPT !.waitingPush = b] ELSE Push(d, b)

OnActive(c, active) ==
    LET Kept(id, p) == p.next = 0 \/ id \in active IN Keep(c, Kept)

\* Committed: the new status, a changed context retiring what belongs to the
\* old one, and the applied plan's next unit.
OnCommitted(c, r) ==
    LET Foreign(f) == f.kind \in {"Delta", "Owned"} /\ f.ctx # r.st.ctx
        Kept(id, p) == p.ctx = r.st.ctx
        c1 == IF r.st.ctx = c.ctx THEN c ELSE Keep(Drop(c, Foreign), Kept)
        c2 == IF r.id = 0 THEN c1 ELSE OnActive(c1, r.active)
        c3 == Job([c2 EXCEPT !.ctx = r.st.ctx, !.st = r.st, !.wakeAfterNeeds = TRUE],
                  Cmd("Needs"))
        c4 == IF r.id = 0 THEN c3 ELSE [c3 EXCEPT !.applying = 0]
        Left(id, p) == id # r.id \/ r.next < Units(p)
    IN IF r.id \in DOMAIN c4.queue
       THEN Keep([c4 EXCEPT !.queue[r.id].next = r.next,
                            !.queue[r.id].have = {u \in @ : u >= r.next}], Left)
       ELSE c4

OnFailedKeepsOwned(c) ==
    LET d == RetirePrefetch(c)
        e == IF d.applying \in DOMAIN d.queue
             THEN [d EXCEPT !.queue[d.applying].blocked = TRUE] ELSE d
    IN Retry([e EXCEPT !.applying = 0, !.freezing = FALSE])
\* failed: the plan at the worker is blocked, an owned one given up.
OnFailed(c) ==
    LET d == RetirePrefetch(c)
        id == d.applying
        e == IF id \notin DOMAIN d.queue THEN d
             ELSE IF Ordinary(d.queue[id]) THEN [d EXCEPT !.queue[id].blocked = TRUE]
             ELSE Job([d EXCEPT !.queue = Restrict(@, DOMAIN @ \ {id})], Cmd("Needs"))
    IN Retry([e EXCEPT !.applying = 0, !.freezing = FALSE])

OnReport(c, r) ==
    CASE r.kind = "Snapshot"    -> Schedule(OnSnapshot(c, r.st))
      [] r.kind = "Needs"       -> Schedule(OnNeeds(c, r))
      [] r.kind = "Frozen"      -> Schedule(OnFrozen(c, r.batch))
      [] r.kind = "ActivePlans" -> Schedule(OnActive(c, r.active))
      [] r.kind = "Committed"   -> Schedule(OnCommitted(c, r))
      [] r.kind = "Failed"      -> OnFailed(c)

----------------------------------------------------------------------------
(***************************************************************************)
(* Turns of the control thread.                                            *)
(***************************************************************************)
\* A turn ends with its jobs sent, fenced by its epoch and context.  A fence's
\* epoch is only ever compared with the current one: `old` says they differ,
\* of every job and report that is about when an epoch begins.
Turn(c, rest) ==
    LET Aged(q) == [i \in DOMAIN q |-> [q[i] EXCEPT !.old = @ \/ c.newEpoch]]
    IN /\ ctl' = [c EXCEPT !.jobs = <<>>, !.newEpoch = FALSE]
       /\ mail' = Aged(mail) \o [i \in DOMAIN c.jobs |->
                                   [old |-> FALSE, ctx |-> c.ctx, cmd |-> c.jobs[i]]]
       /\ reports' = Aged(rest)

Fault(kind) == kind \in Faults /\ faults < MaxFaults /\ faults' = faults + 1
Quiet == faults' = faults
Room == Len(mail) + Len(reports) < MaxMail

Landed(x) == [ctl EXCEPT !.flights = @ \ {x}]
Carriers == {"Handshake", "Delta", "Owned", "Push", "Socket"}

\* A report is heard when it is unguarded or its fence is current.
Accepted(r) == ~r.guarded \/ (~r.old /\ r.ctx = ctl.ctx)

HearReport ==
    /\ reports # <<>>
    /\ LET r == Head(reports)
       IN Turn(IF Accepted(r) THEN OnReport(ctl, r.rep) ELSE ctl, Tail(reports))
    /\ Quiet
    /\ UNCHANGED <<head, done, store>>

\* What every network and timer turn leaves alone.
NetTurn(c) == Turn(c, reports) /\ UNCHANGED store
AtControl == Room /\ UNCHANGED <<head, done>>

\* A Connect that the runtime admitted, or Resume.
HostConnect ==
    /\ ~ctl.connected
    /\ AtControl /\ Quiet
    /\ NetTurn(Connect(ctl))

\* Connect while connected; Pause or Stop; Wake.
HostReconnect == AtControl /\ ctl.connected /\ Fault("lifecycle") /\ NetTurn(Connect(ctl))
HostStop == AtControl /\ ctl.connected /\ Fault("lifecycle") /\ NetTurn(Stop(ctl))
HostWake == AtControl /\ Wake(ctl) # ctl /\ Fault("lifecycle") /\ NetTurn(Wake(ctl))

\* An effect fails: a refresh gives its waiters up, everything else backs off.
EffectFails(x) ==
    /\ AtControl /\ Fault("error")
    /\ x.f.kind \in Carriers \cup {"Refresh"}
    /\ NetTurn(Retry(IF x.f.kind = "Refresh"
                     THEN [Landed(x) EXCEPT !.refreshing = FALSE, !.waiters = <<>>]
                     ELSE Landed(x)))

\* 401: the request waits for one refresh of the credentials.
Unauthorized(x) ==
    /\ AtControl /\ Fault("unauthorized")
    /\ x.f.kind \in Carriers
    /\ LET c == [Landed(x) EXCEPT !.waiters = Append(@, x.f), !.refreshing = TRUE]
       IN NetTurn(IF ctl.refreshing THEN c ELSE Effect(c, Plain("Refresh")))

\* An admission refusal stops Control.
Refused(x) ==
    /\ AtControl /\ Fault("refused")
    /\ x.f.kind \in Carriers
    /\ NetTurn(Stop(ctl))

Resend(c, f) == IF f.kind = "Socket" THEN Handshake(c) ELSE Effect(c, f)
\* The waiters are sent again, in order.
Resent(c, waiting) ==
    LET after[n \in 0..Len(waiting)] ==
            IF n = 0 THEN c ELSE Resend(after[n - 1], waiting[n])
    IN after[Len(waiting)]

\* The refresh succeeds.
Refreshed(x) ==
    /\ AtControl /\ Quiet
    /\ NetTurn(Resent([Landed(x) EXCEPT !.refreshing = FALSE, !.waiters = <<>>], ctl.waiters))

RetryKeepsBlocked(x) ==
    /\ AtControl
    /\ IF mail \o reports = <<>> THEN Quiet ELSE Fault("slow")
    /\ NetTurn(Handshake(Landed(x)))
\* The back-off, half a second or more, is over before the worker has caught up
\* only if the worker is slow.
RetryFires(x) ==
    /\ AtControl
    /\ IF mail \o reports = <<>> THEN Quiet ELSE Fault("slow")
    /\ LET c == Landed(x)
       IN NetTurn(Handshake([c EXCEPT !.queue =
                    [id \in DOMAIN @ |-> [@[id] EXCEPT !.blocked = FALSE]]]))

\* The expiry timer: the plans whose lifetime is over go, here and at the
\* Store.  Only an incomplete plan must still be there when it expires.
ExpireFires(x, gone) ==
    /\ AtControl
    /\ IF \E id \in gone \cap DOMAIN ctl.queue : ~Complete(ctl.queue[id])
       THEN Quiet ELSE Fault("expired")
    /\ LET cleanup == [kind |-> "Cleanup", gone |-> gone]
           Left(id, p) == id \notin gone
           c == Job(Landed(x), cleanup)
           d == Keep(c, Left)
       IN NetTurn(Schedule(IF d.queue = c.queue THEN d ELSE Job(d, cleanup)))

HandshakeAnswered(x, h) ==
    /\ AtControl /\ Quiet
    /\ LET c == [Landed(x) EXCEPT !.dhead = Later(@, h)]
       IN NetTurn(Effect(Job(c, [kind |-> "Initialize", head |-> h]), Socket(FALSE)))

SocketOpened(x) ==
    /\ AtControl /\ Quiet
    /\ ~x.f.open
    /\ NetTurn(Schedule(Effect([Landed(x) EXCEPT !.live = TRUE], Socket(TRUE))))

\* Closed or Overflow: incomplete ordinary plans go, their missing fragments
\* cannot be fetched.
SocketClosed(x) ==
    /\ AtControl /\ Fault("closed")
    /\ LET Left(id, p) == ~Ordinary(p) \/ Complete(p)
       IN NetTurn(Retry(Schedule(Keep([Landed(x) EXCEPT !.live = FALSE], Left))))

----------------------------------------------------------------------------
(***************************************************************************)
(* Admission to the delivery queue.                                        *)
(***************************************************************************)
\* One slot is kept for a plan that begins before every other of its lane.
Full(c, p) ==
    LET n == Cardinality(DOMAIN c.queue)
        repair == p.after # None /\ \A q \in Range(c.queue) :
                     Ordinary(q) /\ q.boot = p.boot => p.after < q.after
    IN n >= Slots \/ (~repair /\ n >= Slots - 1)

\* Plans that may be replaced by an earlier one of their lane.
Candidates(c, p) ==
    {id \in DOMAIN c.queue : /\ Ordinary(p) /\ Ordinary(c.queue[id])
                             /\ c.queue[id].boot = p.boot /\ c.queue[id].after > p.after}

\* Byte limits: nothing needs to go, or the latest candidates go one by one,
\* or they all go and it still does not fit.  A speculative page evicts nothing.
Space(c, p, speculative, evicted, fits) ==
    LET cand == IF speculative THEN {} ELSE Candidates(c, p)
        Before(i, j) == \/ c.queue[i].after < c.queue[j].after
                        \/ c.queue[i].after = c.queue[j].after /\ i < j
    IN /\ evicted \subseteq cand
       /\ \A i \in evicted, j \in cand \ evicted : Before(j, i)
       /\ ~fits => evicted = cand
       /\ IF fits /\ evicted = {} THEN Quiet ELSE Fault("capacity")

\* receive_bounded for a plan that is not queued yet; a refusal is the
\* caller's network error.
Admit(c, id, p, evicted, fits) ==
    LET room == [c EXCEPT !.queue = Restrict(@, DOMAIN @ \ evicted)]
    IN IF Full(c, p) THEN [ok |-> FALSE, c |-> c]
       ELSE IF ~fits THEN [ok |-> FALSE, c |-> room]
       ELSE [ok |-> TRUE,
             c |-> [room EXCEPT !.queue = [i \in DOMAIN @ \cup {id} |->
                                             IF i = id THEN p ELSE @[i]]]]

InUse ==
    DOMAIN ctl.queue \cup ActivePlans(store)
    \cup {mail[i].cmd.id : i \in {j \in DOMAIN mail : mail[j].cmd.kind = "Apply"}}
    \cup {reports[i].rep.id :
             i \in {j \in DOMAIN reports : reports[j].rep.kind = "Committed"}}

\* A new plan's identity: any order among those in use, any one if there is none.
NewIds == IF InUse \ {0} = {} THEN {(MaxIds + 1) \div 2} ELSE Ids \ InUse

Page(lane, after, through, ctx, have) ==
    [owner |-> NoOwner, boot |-> lane, after |-> after, through |-> through,
     ctx |-> ctx, have |-> have, next |-> 0, blocked |-> FALSE, held |-> <<>>]
WholePage(lane, after, through, ctx) ==
    LET p == Page(lane, after, through, ctx, {})
    IN [p EXCEPT !.have = 0..(Units(p) - 1)]

\* A cursor page: an advancing prefix of the requested range, complete.  A
\* successor that does not fit is declined and ends the lookahead.
DeltaAnswered(x, id, through, observed, evicted, fits) ==
    /\ AtControl
    /\ LET p == WholePage(x.f.boot, x.f.after, through, x.f.ctx)
           c == [Landed(x) EXCEPT !.dhead = Later(@, observed)]
           speculative == x.f.boot /\ x.f.after > Zero(ctl.st.B)
           a == Admit(c, id, p, evicted, fits)
       IN /\ Space(c, p, speculative, evicted, fits)
          /\ NetTurn(IF x.f.ctx # ctl.ctx THEN Retry(Landed(x))
                     ELSE IF a.ok THEN Schedule(a.c)
                     ELSE IF speculative THEN Schedule([c EXCEPT !.prefetch = FALSE])
                     ELSE Retry(a.c))

\* An owned transfer, complete.
OwnedAnswered(x, id) ==
    /\ AtControl /\ Quiet
    /\ LET p == [owner |-> x.f.owner, boot |-> FALSE, after |-> None, through |-> None,
                 ctx |-> x.f.ctx, have |-> {0}, next |-> 0, blocked |-> FALSE,
                 held |-> x.f.held]
           a == Admit(Landed(x), id, p, {}, TRUE)
           admitted == /\ x.f.ctx.store = ctl.ctx.store
                       /\ x.f.owner = SchemaOwner \/ x.f.ctx = ctl.ctx
       IN NetTurn(IF admitted /\ a.ok THEN Schedule(a.c) ELSE Retry(Landed(x)))

\* A live offer: parts of a Sync range, of a new or an already queued plan.
\* Another materialization's, and one that would only wait behind queued or
\* requested work, is a hint of the head.
Hint(c, observed) == Schedule([c EXCEPT !.dhead = Later(@, observed)])

\* The subscription's acknowledgement shows the head.
SocketAcknowledged(x, observed) ==
    /\ AtControl /\ Quiet
    /\ x.f.open
    /\ NetTurn(Hint(ctl, observed))

QueueOffer(c, id, p, observed, evicted, fits) ==
    LET a == Admit(c, id, p, evicted, fits)
    IN IF a.ok THEN Hint(a.c, observed) ELSE Retry(a.c)

Coalesces(c, p) ==
    \/ \E q \in Range(c.queue) : Ordinary(q)
    \/ ~(p.after <= Zero(c.st.C) /\ p.through > Zero(c.st.C)) /\ Has(c, "Delta")

LiveOffer(x, id, mat, after, through, parts, observed, evicted, fits) ==
    LET p == Page(FALSE, after, through, [ctl.ctx EXCEPT !.mat = mat], parts)
    IN /\ AtControl
       /\ x.f.open
       /\ IF Complete(p) THEN Space(ctl, p, FALSE, evicted, fits)
          ELSE evicted = {} /\ fits /\ Fault("fragment")
       /\ NetTurn(IF mat # ctl.ctx.mat \/ Coalesces(ctl, p) THEN Hint(ctl, observed)
                  ELSE QueueOffer(ctl, id, p, observed, evicted, fits))

\* The missing parts of a queued offer.
LiveFragments(x, id) ==
    /\ AtControl /\ Quiet
    /\ x.f.open
    /\ Ordinary(ctl.queue[id]) /\ ~Complete(ctl.queue[id])
    /\ NetTurn(Schedule([ctl EXCEPT !.queue[id].have = @ \cup
                            (ctl.queue[id].next)..(Units(ctl.queue[id]) - 1)]))

----------------------------------------------------------------------------
(***************************************************************************)
(* The server's side of a Push, and publication by others.                 *)
(***************************************************************************)
\* Executes the next Batch, replays the last one, refuses any other.
Execute(f, published, need) ==
    LET last == done[f.store]
    IN \/ /\ f.batch = last.batch
          /\ ~published /\ need = last.need
          /\ UNCHANGED <<head, done>>
       \/ /\ f.batch = last.batch + 1
          /\ need = "stream" => published
          /\ head' = IF published THEN head + 1 ELSE head
          /\ head' <= MaxHead
          /\ done' = [done EXCEPT ![f.store] =
                        [batch |-> f.batch, sync |-> head', need |-> need]]

PushAnswered(x, published, need) ==
    /\ Room /\ Quiet
    /\ Execute(x.f, published, need)
    /\ NetTurn(Job(Landed(x), [kind |-> "Acknowledge", receipt |-> done'[x.f.store]]))

\* The Batch runs and its answer is lost.
PushLost(x, published, need) ==
    /\ Room /\ Fault("error")
    /\ Execute(x.f, published, need)
    /\ NetTurn(Retry(Landed(x)))

\* A Batch the server no longer admits (batch.sequence).
PushSuperseded(x) ==
    /\ AtControl /\ Quiet
    /\ x.f.batch \notin {done[x.f.store].batch, done[x.f.store].batch + 1}
    /\ NetTurn(Retry(Landed(x)))

Publish ==
    /\ head < MaxHead
    /\ head' = head + 1
    /\ UNCHANGED <<done, store, ctl, mail, reports, faults>>

----------------------------------------------------------------------------
(***************************************************************************)
(* The Store worker.                                                       *)
(***************************************************************************)
Snapshot(s) == [kind |-> "Snapshot", st |-> Status(s)]
Failed == [kind |-> "Failed"]
Committed(s, id, next) ==
    [kind |-> "Committed", st |-> Status(s), id |-> id, next |-> next,
     active |-> ActivePlans(s)]

\* initialize_stream05: the first handshake fixes S.
Initialize(s, h) == IF s.S = None THEN [s EXCEPT !.S = h, !.C = h] ELSE s

FreezeOnlyNew(s) ==
    IF s.stage = "idle" /\ s.unsent > 0
    THEN [s |-> [s EXCEPT !.stage = "frozen", !.batch = @ + 1, !.unsent = 0], batch |-> s.batch + 1]
    ELSE [s |-> s, batch |-> 0]
\* freeze05: the unacknowledged Batch, else a new one once the last settled.
Freeze(s) ==
    LET t == IF s.stage = "idle" /\ s.unsent > 0
             THEN [s EXCEPT !.stage = "frozen", !.batch = @ + 1, !.unsent = 0] ELSE s
    IN [s |-> t, batch |-> IF t.stage = "frozen" THEN t.batch ELSE 0]

\* acknowledge05: a replayed receipt changes nothing.
Acknowledge(s, r) ==
    IF s.stage = "frozen" /\ r.batch = s.batch
    THEN [s EXCEPT !.stage = "owed", !.sync = r.sync, !.need = r.need,
                   !.evidence = \/ r.need = "none"
                                \/ r.need = "stream" /\ Zero(s.C) >= r.sync]
    ELSE s

\* Contiguous coverage is the receipt of a completed range.
Spent(s, p) == Ordinary(p) /\ p.ctx = s.ctx /\ (IF p.boot THEN s.B ELSE s.C) >= p.through

\* A plan of another context, or ahead of the coverage, is passed over; a range
\* the Store has not been initialized for is refused.
PassedOver(s, p) ==
    Ordinary(p) /\ (p.ctx # s.ctx \/ (p.after > Reached(s, p.boot) /\ (p.boot \/ s.C # None)))
Uninitialized(s, p) ==
    Ordinary(p) /\ (IF p.boot THEN p.through > s.S ELSE s.C = None)

\* The unit of an ordinary plan, with its coverage and progress.
Install(s, id, p) ==
    LET reach == Min({p.after + p.next + 1, p.through})
        final == p.next + 1 = Units(p)
        b == IF p.boot THEN Later(Zero(s.B), reach) ELSE s.B
        c == IF p.boot THEN s.C ELSE Later(s.C, reach)
    IN Settled([s EXCEPT
         !.B = b, !.C = c,
         !.progress[p.boot] = IF final THEN NoProgress ELSE [id |-> id, next |-> p.next + 1],
         !.evidence = @ \/ (s.stage = "owed" /\ s.need = "stream" /\ c >= s.sync)])

\* The transfer of an owner: authority for a Batch, or the new read contract.
Transferred(s, p) ==
    IF p.owner = SchemaOwner THEN Settled([s EXCEPT !.ctx.mat = s.desired])
    ELSE Settled([s EXCEPT !.evidence = @ \/ (s.stage = "owed" /\ s.batch = p.owner.batch)])

\* apply_next_delivery05 on the one plan of the job.
Apply(s, id, p) ==
    LET saved == s.progress[p.boot]
        next == IF saved.id = id THEN saved.next ELSE 0
        Out(t, n) == [s |-> t, rep |-> Committed(t, id, n)]
    IN IF Spent(s, p) THEN Out(s, Done)
       ELSE IF PassedOver(s, p) THEN Out(s, p.next)
       ELSE IF Uninitialized(s, p) THEN [s |-> s, rep |-> Failed]
       ELSE IF ~Ordinary(p)
       THEN IF p.owner = SchemaOwner /\ ~SchemaPending(s) THEN [s |-> s, rep |-> Failed]
            ELSE Out(Transferred(s, p), Done)
       ELSE IF next > p.next THEN Out(s, next)
       ELSE IF next < p.next THEN [s |-> s, rep |-> Failed]
       ELSE Out(Install(s, id, p), IF p.next + 1 = Units(p) THEN Done ELSE p.next + 1)

\* store_worker05
Run(s, cmd) ==
    CASE cmd.kind = "Initialize" ->
           LET t == Initialize(s, cmd.head) IN [s |-> t, rep |-> Snapshot(t)]
      [] cmd.kind = "NetworkState" -> [s |-> s, rep |-> Snapshot(s)]
      [] cmd.kind = "Needs" ->
           LET t == Settled(s)
           IN [s |-> t,
               rep |-> [kind |-> "Needs", st |-> Status(t), progressed |-> t # s,
                        schema |-> SchemaPending(t), desired |-> t.desired,
                        held |-> <<t.B, t.C>>,
                        owed |-> IF t.stage = "owed" THEN t.batch ELSE 0,
                        missing |-> t.stage = "owed" /\ ~t.evidence]]
      [] cmd.kind = "Cleanup" ->
           LET t == [s EXCEPT !.progress = [lane \in BOOLEAN |->
                        IF @[lane].id \in cmd.gone THEN NoProgress ELSE @[lane]]]
           IN [s |-> t, rep |-> [kind |-> "ActivePlans", active |-> ActivePlans(t)]]
      [] cmd.kind = "Freeze" ->
           LET t == Freeze(s)
           IN [s |-> t.s, rep |-> [kind |-> "Frozen", batch |-> t.batch]]
      [] cmd.kind = "Acknowledge" ->
           LET t == Acknowledge(s, cmd.receipt)
           IN [s |-> t, rep |-> Committed(t, 0, 0)]
      [] cmd.kind = "Apply" -> Apply(s, cmd.id, cmd.plan)

\* The worker's fence: the epoch it was sent in and the Store's own context.
Current(job) == ~job.old /\ job.ctx = store.ctx

Report(job, rep) ==
    reports' = Append(reports, [guarded |-> TRUE, old |-> job.old,
                                ctx |-> job.ctx, rep |-> rep])

\* An obsolete job leaves no trace: Control ignores its report.
WorkObsolete ==
    /\ mail # <<>> /\ ~Current(Head(mail))
    /\ mail' = Tail(mail)
    /\ Quiet
    /\ UNCHANGED <<head, done, store, ctl, reports>>

Work ==
    /\ mail # <<>> /\ Current(Head(mail))
    /\ mail' = Tail(mail)
    /\ LET ran == Run(store, Head(mail).cmd)
       IN store' = ran.s /\ Report(Head(mail), ran.rep)
    /\ Quiet
    /\ UNCHANGED <<head, done, ctl>>

\* A transaction rolls back: SQLite, a constraint, or a transfer that misses
\* a record the Store has come to hold since it was asked for.
WorkFails ==
    /\ mail # <<>> /\ Current(Head(mail))
    /\ mail' = Tail(mail)
    /\ LET cmd == Head(mail).cmd
       IN \/ Fault("store")
          \/ /\ cmd.kind = "Apply" /\ cmd.plan.owner = SchemaOwner
             /\ cmd.plan.held # <<store.B, store.C>>
             /\ Quiet
    /\ Report(Head(mail), Failed)
    /\ UNCHANGED <<head, done, store, ctl>>

\* The application's own write: the worker reports it unguarded.
Tell(s) ==
    reports' = Append(reports, [guarded |-> FALSE, old |-> FALSE,
                                ctx |-> s.ctx, rep |-> Snapshot(s)])

Submit ==
    /\ store.batch + store.unsent < MaxCalls
    /\ store' = [store EXCEPT !.unsent = @ + 1]
    /\ Tell(store')
    /\ UNCHANGED <<head, done, ctl, mail, faults>>

\* reset_store05, with the pending work discarded.
Reset ==
    /\ Fault("reset") /\ store.ctx.store = 0
    /\ store' = FreshStore(1, store.desired)
    /\ Tell(store')
    /\ UNCHANGED <<head, done, ctl, mail>>

\* The process ends and the file is opened again: both mailboxes are lost.
Restart ==
    /\ Fault("restart")
    /\ ctl' = NewControl(Status(store))
    /\ mail' = <<>> /\ reports' = <<>>
    /\ UNCHANGED <<head, done, store>>

----------------------------------------------------------------------------
Needed == {"none", "stream", "history"}
NoReceipt == [batch |-> 0, sync |-> 0, need |-> "none"]

\* A new file; one reopened with a changed read contract, before its first Batch
\* or after its last one settled; or one reopened after the server executed its
\* first Batch, which published the first cursor, and before the answer was
\* recorded.
Begun(opened) ==
    LET ready == [FreshStore(0, 0) EXCEPT !.S = 0, !.B = 0, !.C = 0]
    IN CASE opened = "new"     -> FreshStore(0, 0)
         [] opened = "changed" -> [ready EXCEPT !.desired = 1]
         [] opened = "settled" -> [ready EXCEPT !.desired = 1, !.batch = MaxCalls]
         [] opened = "sent"    -> [ready EXCEPT !.batch = 1, !.stage = "frozen"]

Init ==
    /\ \E opened \in Opened, need \in Needed :
         LET receipt == CASE opened = "sent" -> [batch |-> 1, sync |-> 1, need |-> need]
                          [] opened = "settled" -> [NoReceipt EXCEPT !.batch = MaxCalls]
                          [] OTHER -> NoReceipt
         IN /\ head = receipt.sync
            /\ done = [incarnation \in 0..1 |-> IF incarnation = 0 THEN receipt ELSE NoReceipt]
            /\ store = Begun(opened)
    /\ ctl = NewControl(Status(store))
    /\ mail = <<>> /\ reports = <<>>
    /\ faults = 0

Cursors == 0..MaxHead
Evictions == IF "capacity" \in Faults THEN SUBSET DOMAIN ctl.queue ELSE {{}}
Fitting == IF "capacity" \in Faults THEN BOOLEAN ELSE {TRUE}
Parts(units) ==
    {parts \in SUBSET (0..(units - 1)) :
        parts # {} /\ (parts = 0..(units - 1) \/ "fragment" \in Faults)}

Flights(kind) == {x \in ctl.flights : x.f.kind = kind}

HostStep == HostConnect \/ HostReconnect \/ HostStop \/ HostWake

Upset == \E x \in ctl.flights : EffectFails(x) \/ Unauthorized(x) \/ Refused(x)
Refreshes == \E x \in Flights("Refresh") : Refreshed(x)
Retries == \E x \in Flights("Retry") : RetryFires(x)
Opens == \E x \in Flights("Socket") : SocketOpened(x)
Closes == \E x \in Flights("Socket") : SocketClosed(x)
Expiry(gone) == \E x \in Flights("Expire") : ExpireFires(x, gone)

AnswerHandshake == \E x \in Flights("Handshake"), h \in 0..head : HandshakeAnswered(x, h)

\* A page advances through the requested range, if there is one.
AnswerDelta ==
    \E x \in Flights("Delta"), id \in NewIds :
      \E through \in Later(x.f.after, Min({x.f.after + 1, x.f.through}))..x.f.through,
        observed \in x.f.through..head, evicted \in Evictions, fits \in Fitting :
        DeltaAnswered(x, id, through, observed, evicted, fits)

AnswerOwned == \E x \in Flights("Owned"), id \in NewIds : OwnedAnswered(x, id)

AnswerPush ==
    \E x \in Flights("Push") :
        \/ PushSuperseded(x)
        \/ \E published \in BOOLEAN, need \in Needed : PushAnswered(x, published, need)

LosePush ==
    \E x \in Flights("Push"), published \in BOOLEAN, need \in Needed :
        PushLost(x, published, need)

Offer(observed) ==
    \E x \in Flights("Socket"), id \in NewIds, mat \in {ctl.ctx.mat, store.desired} :
      \E through \in 1..observed : \E after \in 0..(through - 1) :
        \E parts \in Parts(through - after), evicted \in Evictions, fits \in Fitting :
          LiveOffer(x, id, mat, after, through, parts, observed, evicted, fits)

Acknowledged == \E x \in Flights("Socket") : SocketAcknowledged(x, head)
Fragments == \E x \in Flights("Socket"), id \in DOMAIN ctl.queue : LiveFragments(x, id)

NetworkStep ==
    \/ Upset \/ Refreshes \/ Retries \/ Opens \/ Closes
    \/ AnswerHandshake \/ AnswerDelta \/ AnswerOwned \/ AnswerPush \/ LosePush
    \/ \E observed \in 1..head : Offer(observed)
    \/ Acknowledged \/ Fragments
    \/ \E gone \in SUBSET (DOMAIN ctl.queue \cup ActivePlans(store)) : Expiry(gone)

WorkerStep == Work \/ WorkObsolete \/ WorkFails \/ Submit \/ Reset

Next == HostStep \/ NetworkStep \/ HearReport \/ WorkerStep \/ Publish \/ Restart

Spec == Init /\ [][Next]_vars

\* Both threads run.  The host connects a stopped client, and a network that
\* does not fail answers: requests, timers, the socket, and on the socket an
\* offer that shows a new head.  Publication, submission and faults owe nothing.
Announce == ctl.dhead < head /\ Offer(head)
ExpireIncomplete ==
    LET gone == {id \in DOMAIN ctl.queue : ~Complete(ctl.queue[id])}
    IN gone # {} /\ Expiry(gone)

Answer ==
    \/ HostConnect \/ AnswerHandshake \/ AnswerDelta \/ AnswerOwned \/ AnswerPush
    \/ Refreshes \/ Retries \/ Opens \/ Announce \/ ExpireIncomplete

AnswerOwed ==
    /\ Room
    /\ \/ ~ctl.connected
       \/ \E x \in ctl.flights :
            \/ x.f.kind \notin {"Socket", "Expire", "Retry"}
            \/ x.f.kind = "Retry" /\ mail \o reports = <<>>
            \/ x.f.kind = "Socket" /\ (~x.f.open \/ ctl.dhead < head)
            \/ x.f.kind = "Expire" /\ \E p \in Range(ctl.queue) : ~Complete(p)

\* What Work, WorkObsolete and WorkFails do to the worker's mailbox, and HearReport
\* to Control's: each takes its first letter, and is enabled while there is one.
Serves == mail # <<>> /\ mail' = Tail(mail)
Hears == reports # <<>> /\ reports' = Tail(reports)

\* Weak fairness of the two threads, each a loop over its mailbox, and strong
\* fairness of what time and the network bring, with AnswerOwed in the place of
\* the ENABLED of Answer, which TLC finds only by enumerating whole turns.
Fairness ==
    /\ WF_mail(Serves)
    /\ WF_reports(Hears)
    /\ <>[](~AnswerOwed) \/ []<><<Answer>>_vars

FairSpec == Spec /\ Fairness

----------------------------------------------------------------------------

\* How many outstanding requests, in flight or waiting for credentials, are P.
Outstanding(P(_)) ==
    Cardinality({x \in ctl.flights : P(x.f)})
    + Cardinality({i \in DOMAIN ctl.waiters : P(ctl.waiters[i])})

\* There is one cursor HTTP request slot, and a request that waits for
\* refreshed credentials occupies it.
OneCursorRequest == Outstanding(LAMBDA f : f.kind = "Delta") <= 1

\* No Batch is sent while authority for an earlier Batch is still being asked
\* for: beginning the next Batch would prune the owner at the server, as
\* sqlite/tests/protocol05_downlink.rs says ("old owner must be canceled before
\* new Batch can prune its result").  A host that calls wake() between a
\* handshake and its Needs can break it.
PushBehindOwners ==
    \A x, y \in ctl.flights :
        x.f.kind = "Push" /\ y.f.kind = "Owned" /\ y.f.owner.kind = "settlement"
            => y.f.owner.batch >= x.f.batch

\* After a reset nothing of the old Store is asked for, resent or staged: the
\* first thing Control does with the new incarnation is to retire it.
NoForeignWork ==
    LET Foreign(f) == \/ f.kind \in {"Delta", "Owned"} /\ f.ctx.store # ctl.ctx.store
                      \/ f.kind = "Push" /\ f.store # ctl.ctx.store
    IN /\ Outstanding(Foreign) = 0
       /\ \A p \in Range(ctl.queue) : p.ctx.store = ctl.ctx.store

\* A job of a kind is on its way to the worker, or its report on its way back,
\* with a fence that both sides will accept.
UnderWay(kinds) ==
    \/ \E i \in DOMAIN mail : mail[i].cmd.kind \in kinds /\ ~mail[i].old
                               /\ mail[i].ctx = ctl.ctx
    \/ \E i \in DOMAIN reports :
         reports[i].guarded /\ ~reports[i].old /\ reports[i].ctx = ctl.ctx
         /\ reports[i].rep.kind \in
              {CASE k = "Apply"  -> "Committed"
                 [] k = "Freeze" -> "Frozen"
                 [] k = "Needs"  -> "Needs" : k \in kinds} \cup {"Failed"}

\* What a connected Control waits for comes: each of its latches is held by work
\* under way, or released by what is: a retry, or the Snapshot of a reset Store,
\* begins a new epoch.
LatchesReleased ==
    ctl.connected /\ ~Has(ctl, "Retry") /\ ctl.ctx.store = store.ctx.store =>
        /\ ctl.applying # 0 => UnderWay({"Apply"})
        /\ ctl.freezing => UnderWay({"Freeze"})
        /\ ctl.wakeAfterNeeds \/ ctl.waitingPush # 0 => UnderWay({"Needs"})

\* Delivery catches up with the Stream and stays there.
CatchesUp == <>[](store.C = head /\ store.B = store.S)

\* Every submitted Mutation is sent, acknowledged and settled.
WorkDrains == <>[](store.unsent = 0 /\ store.stage = "idle")

\* A transfer to a changed read contract ends, although the Store may come to
\* hold records that the transfer on its way does not prove.
TransferEnds == <>[](store.ctx.mat = store.desired)

============================================================================
