-------------------------- MODULE ClientConnection --------------------------
(***************************************************************************)
(* One connection of a client across its three threads: the SDK            *)
(* (runtime.mts connect and close, connection.mts), the control thread     *)
(* (actor.rs run05 with Control and the RefreshBroker) and the Store       *)
(* worker (runtime/lanes.rs, effects.rs, direct.rs).  Each keeps its own   *)
(* idea of the connection; they share only three queues, so that every     *)
(* effect is asked for, run, answered and cancelled at a distance.         *)
(*                                                                         *)
(* Control's requests are represented by its handshake and its socket;     *)
(* what they deliver is SyncControl's subject, and of the Store this       *)
(* module keeps only what a direct call may have to wait for.  An          *)
(* identifier is compared only for equality, so one that no queue or map   *)
(* holds any more is used again.                                           *)
(***************************************************************************)
EXTENDS Integers, Sequences, FiniteSets, SequencesExt

CONSTANTS
    Reads,    \* the direct calls the application may make
    Storing,  \* those of them whose answer is stored (store is not false)
    Loads     \* bounds on what one behaviour has: its calls; connects, pauses
              \* or resumes, refusals (401 or admission), failures, closes of
              \* the connection or the client; whether a transaction is open
              \* at the start; and what the Store lacks then: "start" until
              \* its first handshake is stored, "schema" while a changed
              \* contract's records are still to come

ASSUME ConnectionAssumption ==
    /\ Storing \subseteq Reads
    /\ Loads \subseteq [reads : SUBSET Reads, connects : Nat, pauses : Nat,
                        refusals : Nat, failures : Nat, closes : Nat,
                        txn : BOOLEAN, lacks : SUBSET {"start", "schema"}]

VARIABLES
    sdk,      \* the SDK: its connection, client, transaction and running effects
    reads,    \* each direct call as the SDK sees it: unused, waiting or settled
    control,  \* Control
    broker,   \* the RefreshBroker: the effect the host runs and who waits for it
    worker,   \* the runtime
    call,     \* the runtime's side of each direct call
    mail,     \* inputs of the SDK and messages of the worker, to control
    work,     \* inputs for the worker
    outbox,   \* published events the SDK has not dispatched
    open,     \* the actor takes submissions (~outbox.closed)
    stray,    \* "refused" after Control's refusal until the next connect;
              \* "stray" once a refusal left Control running
    left      \* what is left of the load

connectionVars == <<sdk, reads, control, broker, worker, call, mail, work, outbox,
                    open, stray, left>>

NoId == <<"-", 0>>
NoCall == [on |-> FALSE, http |-> NoId, timer |-> NoId, retried |-> FALSE,
           applying |-> FALSE]
NoBroker == [host |-> NoId, waiters |-> {}]
NewControl == [connected |-> FALSE, flights |-> {}, refreshing |-> FALSE,
               parked |-> <<>>, out |-> <<>>, epoch |-> 0, initialize |-> FALSE]
NewWorker == [life |-> "open", held |-> FALSE, on |-> FALSE, refreshing |-> NoId,
              waiters |-> {}, ready |-> <<>>, lane |-> <<>>, parked |-> <<>>,
              jobs |-> <<>>, lacks |-> {}]

ConnectionInit ==
    /\ left \in Loads
    /\ sdk = [conn |-> "none", client |-> "open", txn |-> left.txn, running |-> {}]
    /\ worker = [NewWorker EXCEPT !.held = left.txn, !.lacks = left.lacks]
    /\ reads = [c \in Reads |-> "unused"]
    /\ control = NewControl /\ broker = NoBroker
    /\ call = [c \in Reads |-> NoCall]
    /\ mail = <<>> /\ work = <<>> /\ outbox = <<>>
    /\ open = TRUE /\ stray = "no"

----------------------------------------------------------------------------
(***************************************************************************)
(* Messages and identifiers.                                               *)
(***************************************************************************)
Command(kind) == [type |-> "task", kind |-> kind]
Invoke(c) == [type |-> "task", kind |-> "invoke", call |-> c]
Result(id, outcome) == [type |-> "result", id |-> id, outcome |-> outcome]
Effect(id, kind) == [type |-> "effect", id |-> id, kind |-> kind]
Cancel(id) == [type |-> "cancel", id |-> id]
Refused == [type |-> "refused"]
TaskDone(task, ok) == [type |-> "completed", task |-> task, ok |-> ok]
Initialize(epoch) == [type |-> "job", epoch |-> epoch]

IdsOf(queue) == {queue[i].id : i \in {j \in DOMAIN queue :
                    queue[j].type \in {"effect", "cancel", "result"}}}
WorkerEvents == {mail[i].out : i \in {j \in DOMAIN mail : mail[j].type = "worker"}}
Used == IdsOf(mail) \cup IdsOf(work) \cup IdsOf(outbox)
        \cup UNION {IdsOf(out) : out \in WorkerEvents}
        \cup {e.id : e \in sdk.running} \cup {f.id : f \in control.flights}
        \cup {call[c].http : c \in Reads} \cup {call[c].timer : c \in Reads}
        \cup {broker.host, worker.refreshing} \cup broker.waiters

\* A new identifier of Control or of the worker.  No state uses MaxIdentifier.
MaxIdentifier == 20
Fresh(side, more) ==
    <<side, CHOOSE n \in 1..MaxIdentifier :
        /\ <<side, n>> \notin Used \cup more
        /\ \A m \in 1..(n - 1) : <<side, m>> \in Used \cup more>>

OfControl(id) == id[1] = "control"

\* Submission: refused once the actor is closing.
Submit(m) == IF open THEN Append(mail, m) ELSE mail

----------------------------------------------------------------------------
(***************************************************************************)
(* Control, as far as its connection goes.                                 *)
(***************************************************************************)
Issue(k, kind) ==
    LET id == Fresh("control", IdsOf(k.out) \cup {f.id : f \in k.flights})
    IN [k EXCEPT !.flights = @ \cup {[id |-> id, kind |-> kind]},
                 !.out = Append(@, Effect(id, kind))]

\* The flights of these kinds are forgotten and their effects cancelled.
Cancelled(k, kinds) ==
    LET old == {f \in k.flights : f.kind \in kinds}
    IN [k EXCEPT !.flights = @ \ old,
                 !.out = @ \o SetToSeq({Cancel(f.id) : f \in old})]

\* The epoch moves past that of every Store job queued so far.
Epochs == {work[i].epoch : i \in {j \in DOMAIN work : work[j].type = "job"}}
          \cup Range(worker.jobs)
Fence(k) == [k EXCEPT !.epoch = CHOOSE n \in 0..Cardinality(Epochs) :
                 n \notin Epochs /\ \A m \in 0..(n - 1) : m \in Epochs]

Handshake(k) == Issue(Cancelled(Fence(k), {"handshake", "socket"}), "handshake")
ControlConnect(k) == Handshake([k EXCEPT !.connected = TRUE])
ControlStop(k) ==
    [Cancelled(Fence(k), {"handshake", "socket", "retry", "refresh"}) EXCEPT
        !.connected = FALSE, !.refreshing = FALSE, !.parked = <<>>]

Retry(k) ==
    IF k.connected /\ \A f \in k.flights : f.kind # "retry" THEN Issue(k, "retry") ELSE k

\* A parked request is sent again; a socket begins with a handshake.
Resend(k, kind) == IF kind = "socket" THEN Handshake(k) ELSE Issue(k, "handshake")

\* One failed effect: an admission refusal stops Control, a 401 waits for a
\* shared refresh, anything else for the backoff.
Failed(k, kind, outcome) ==
    CASE outcome = "refused" ->
           LET stopped == ControlStop(k) IN [stopped EXCEPT !.out = Append(@, Refused)]
      [] outcome = "unauthorized" /\ kind # "refresh" ->
           LET waits == [k EXCEPT !.parked = Append(@, kind)]
           IN IF k.refreshing THEN waits
              ELSE Issue([waits EXCEPT !.refreshing = TRUE], "refresh")
      [] OTHER ->
           Retry(IF kind = "refresh" THEN [k EXCEPT !.refreshing = FALSE, !.parked = <<>>]
                 ELSE k)

\* An answered handshake has the worker initialize the Store and opens the
\* socket without waiting for it.
Succeeded(k, kind) ==
    CASE kind = "refresh" ->
           FoldLeft(Resend, [k EXCEPT !.refreshing = FALSE, !.parked = <<>>], k.parked)
      [] kind = "retry" -> Handshake(k)
      [] kind = "handshake" -> Issue([k EXCEPT !.initialize = TRUE], "socket")

\* Control.receive: the answer of a flight that is still wanted.
Receive(k, id, outcome) ==
    IF \A f \in k.flights : f.id # id THEN k
    ELSE LET flight == CHOOSE f \in k.flights : f.id = id
             rest == [k EXCEPT !.flights = @ \ {flight}]
         IN IF outcome = "ok" THEN Succeeded(rest, flight.kind)
            ELSE Failed(rest, flight.kind, outcome)

----------------------------------------------------------------------------
(***************************************************************************)
(* What the actor publishes passes the RefreshBroker: one refreshAuth runs *)
(* at a time for Control and the direct calls.                             *)
(***************************************************************************)
Filter1(b, e) ==
    LET now == b.broker IN
    CASE e.type = "effect" /\ e.kind = "refresh" /\ now.host # NoId ->
           [b EXCEPT !.broker.waiters = @ \cup {e.id}]
      [] e.type = "effect" /\ e.kind = "refresh" /\ now.host = NoId ->
           [broker |-> [host |-> e.id, waiters |-> {e.id}], out |-> Append(b.out, e)]
      [] e.type = "cancel" /\ e.id \in now.waiters ->
           IF now.waiters = {e.id}
           THEN [broker |-> NoBroker, out |-> Append(b.out, Cancel(now.host))]
           ELSE [b EXCEPT !.broker.waiters = @ \ {e.id}]
      [] OTHER -> [b EXCEPT !.out = Append(@, e)]
Filter(b, es) == FoldLeft(Filter1, [broker |-> b, out |-> <<>>], es)

RetireNone(out) == <<>>
\* publish_control05: a refusal's retirement is queued to the worker before
\* the refusal is exposed.
Retire(out) ==
    IF \E i \in DOMAIN out : out[i] = Refused THEN <<Command("retire")>> ELSE <<>>

\* One turn of run05: `before` is published first, then Control's events, and
\* its Store job follows under the epoch of that moment.
Publish(k, b, before, forwarded) ==
    LET first == Filter(b, before)
        then == Filter(first.broker, k.out)
        job == IF k.initialize THEN <<Initialize(k.epoch)>> ELSE <<>>
    IN /\ control' = [k EXCEPT !.out = <<>>, !.initialize = FALSE]
       /\ broker' = then.broker
       /\ outbox' = outbox \o first.out \o then.out
       /\ work' = work \o forwarded \o Retire(k.out) \o job

\* The head of the mail is of this type.
IsMail(type) == mail # <<>> /\ Head(mail).type = type

\* An effect's answer: to everyone who waits for the shared refresh, to
\* Control, or to the worker.
HearResult ==
    /\ IsMail("result")
    /\ mail' = Tail(mail)
    /\ LET m == Head(mail)
           shared == m.id = broker.host
           ids == IF shared THEN broker.waiters ELSE {m.id}
           mine == {id \in ids : OfControl(id)}
           k == IF mine = {} THEN control
                ELSE Receive(control, CHOOSE id \in mine : TRUE, m.outcome)
       IN /\ Publish(k, IF shared THEN NoBroker ELSE broker, <<>>,
                     SetToSeq({Result(id, m.outcome) : id \in ids \ mine}))
          /\ stray' = IF stray = "no" /\ Retire(k.out) # <<>> THEN "refused" ELSE stray
    /\ UNCHANGED <<sdk, reads, worker, call, open, left>>

\* A task: connection control acts on Control at once; all go to the worker.
HearTask ==
    /\ IsMail("task")
    /\ mail' = Tail(mail)
    /\ LET kind == Head(mail).kind
           k == CASE kind \in {"stop", "pause"} -> ControlStop(control)
                  [] kind = "resume" -> ControlConnect(control)
                  [] OTHER -> control
       IN /\ Publish(k, broker, <<>>, <<Head(mail)>>)
          /\ stray' = IF kind = "resume" /\ stray = "refused" THEN "stray" ELSE stray
    /\ UNCHANGED <<sdk, reads, worker, call, open, left>>

HearClose ==
    /\ IsMail("close")
    /\ mail' = Tail(mail)
    /\ open' = FALSE
    /\ Publish(ControlStop(control), broker, <<>>, <<Head(mail)>>)
    /\ UNCHANGED <<sdk, reads, worker, call, stray, left>>

\* The worker's events: an accepted connect starts Control.
HearWorker ==
    /\ IsMail("worker")
    /\ mail' = Tail(mail)
    /\ LET out == Head(mail).out
           connected == \E i \in DOMAIN out : out[i] = TaskDone(Command("connect"), TRUE)
       IN /\ Publish(IF connected THEN ControlConnect(control) ELSE control, broker, out, <<>>)
          /\ stray' = IF connected /\ stray = "refused" THEN "no" ELSE stray
    /\ UNCHANGED <<sdk, reads, worker, call, open, left>>

\* The worker is gone: Control stops and the loop ends.
HearExit ==
    /\ IsMail("exit")
    /\ mail' = <<>> /\ open' = FALSE
    /\ Publish(ControlStop(control), broker, <<>>, <<>>)
    /\ UNCHANGED <<sdk, reads, worker, call, stray, left>>

\* The worker is joined: the sole runtimeClosed.
Joined ==
    /\ worker.life = "exited" /\ mail = <<>> /\ ~open /\ sdk.client # "closed"
    /\ \A i \in DOMAIN outbox : outbox[i].type # "ended"
    /\ outbox' = Append(outbox, [type |-> "ended"])
    /\ UNCHANGED <<sdk, reads, control, broker, worker, call, mail, work, open, stray, left>>

----------------------------------------------------------------------------
(***************************************************************************)
(* The worker: `w` is the runtime with its calls and published events.     *)
(***************************************************************************)
W == [rt |-> worker, call |-> call, out |-> <<>>]

\* Answer one call and give up its effects.
FailCall(w, c) ==
    IF ~w.call[c].on THEN w
    ELSE [rt |-> [w.rt EXCEPT !.waiters = @ \ {c}],
          call |-> [w.call EXCEPT ![c] = NoCall],
          out |-> w.out
              \o SetToSeq({Cancel(id) : id \in {w.call[c].http, w.call[c].timer} \ {NoId}})
              \o <<TaskDone(Invoke(c), FALSE)>>]

FailCalls(w, calls) == FoldLeft(FailCall, w, SetToSeq(calls))

\* stop_lanes: the refresh is cancelled, the calls that wait for the network
\* fail, the connection ends.  An answer that has arrived still applies.
StopLanes(w) ==
    LET refresh == IF w.rt.refreshing = NoId THEN <<>> ELSE <<Cancel(w.rt.refreshing)>>
        failed == FailCalls([w EXCEPT !.out = @ \o refresh],
                            {c \in Reads : ~w.call[c].applying})
    IN [failed EXCEPT !.rt.on = FALSE, !.rt.refreshing = NoId, !.rt.waiters = {}]

\* A request, with its deadline the first time.
SendDirect(w, c, retried) ==
    LET http == Fresh("worker", IdsOf(w.out))
        timer == IF retried THEN w.call[c].timer ELSE Fresh("worker", IdsOf(w.out) \cup {http})
    IN [w EXCEPT !.call[c] = [on |-> TRUE, http |-> http, timer |-> timer,
                              retried |-> retried, applying |-> FALSE],
                 !.out = @ \o <<Effect(http, "http")>>
                           \o (IF retried THEN <<>> ELSE <<Effect(timer, "deadline")>>)]

Ended(w, task, ok) == [w EXCEPT !.out = Append(@, TaskDone(task, ok))]

\* What the call would wait for before anything is sent.
Waits(c) ==
    \/ "schema" \in worker.lacks
    \/ "start" \in worker.lacks /\ c \in Storing

\* release_initial_reads05: the calls that wait for the Store go back to the
\* front of the queue, or fail.
Released(w) == [w EXCEPT !.rt.ready = w.rt.parked \o @, !.rt.parked = <<>>]
FailParked(w) ==
    [w EXCEPT !.rt.parked = <<>>,
              !.out = @ \o [i \in DOMAIN w.rt.parked |-> TaskDone(w.rt.parked[i], FALSE)]]

\* The lane of arrived answers has one place in the order of the tasks, the
\* last one when it enters and again after each of its units.
InLine(ready) ==
    IF \E i \in DOMAIN ready : ready[i].kind = "lane" THEN ready
    ELSE Append(ready, Command("lane"))

LaneUnit(w) ==
    LET c == Head(w.rt.lane)
        rest == Tail(w.rt.lane)
    IN Ended([w EXCEPT !.call[c] = NoCall, !.rt.lane = rest,
                       !.rt.ready = IF rest = <<>> THEN @ ELSE InLine(@)], Invoke(c), TRUE)

\* A direct call: unavailable without a connection; without a request and
\* without a deadline while it waits for the Store; sent otherwise.
BeginRead(w, task) ==
    CASE ~w.rt.on -> Ended(w, task, FALSE)
      [] w.rt.on /\ Waits(task.call) -> [w EXCEPT !.rt.parked = Append(@, task)]
      [] OTHER -> SendDirect(w, task.call, FALSE)

\* A batch of events for the control thread, when there are any.
Sent(out) == IF out = <<>> THEN mail ELSE Append(mail, [type |-> "worker", out |-> out])

\* One task of the queue, or one unit of the lane.
RunTask ==
    /\ worker.life = "open" /\ ~worker.held /\ worker.ready # <<>>
    /\ LET task == Head(worker.ready)
           w == [W EXCEPT !.rt.ready = Tail(@)]
           done == CASE task.kind = "connect" ->
                          Ended([w EXCEPT !.rt.on = TRUE], task, ~worker.on)
                     [] task.kind \in {"stop", "retire"} ->
                          Ended(IF worker.on THEN StopLanes(FailParked(w)) ELSE w,
                                task, worker.on)
                     [] task.kind \in {"pause", "resume"} -> Ended(w, task, worker.on)
                     [] task.kind = "invoke" -> BeginRead(w, task)
                     [] task.kind = "lane" -> LaneUnit(w)
       IN worker' = done.rt /\ call' = done.call /\ mail' = Sent(done.out)
    /\ UNCHANGED <<sdk, reads, control, broker, work, outbox, open, stray, left>>

\* The worker takes its next input when its queue is done, or while the
\* application's transaction holds it.
Takes(type) ==
    /\ worker.life = "open" /\ work # <<>> /\ Head(work).type = type
    /\ worker.held \/ worker.ready = <<>>

TakeTask ==
    /\ Takes("task")
    /\ work' = Tail(work)
    /\ worker' = [worker EXCEPT !.ready = Append(@, Head(work))]
    /\ UNCHANGED <<sdk, reads, control, broker, call, mail, outbox, open, stray, left>>

DirectResultDisarms(w, c, outcome) ==
    LET timer == w.call[c].timer
        answered == [w EXCEPT !.call[c].http = NoId, !.call[c].timer = NoId,
                              !.out = Append(@, Cancel(timer))]
        waits == [answered EXCEPT !.call[c].retried = TRUE, !.rt.waiters = @ \cup {c}]
        id == Fresh("worker", IdsOf(answered.out))
    IN CASE outcome = "ok" ->
              [answered EXCEPT !.call[c].applying = TRUE, !.rt.lane = Append(@, c),
                               !.rt.ready = InLine(@)]
         [] outcome = "unauthorized" /\ ~w.call[c].retried ->
              IF w.rt.refreshing # NoId THEN waits
              ELSE [waits EXCEPT !.rt.refreshing = id, !.out = Append(@, Effect(id, "refresh"))]
         [] OTHER -> FailCall(answered, c)
\* The answer of a direct request: its deadline no longer applies and it waits
\* for its unit of the lane, or the first 401 joins the refresh under the same
\* deadline, or the call fails.
DirectResult(w, c, outcome) ==
    LET answered == [w EXCEPT !.call[c].http = NoId]
        waits == [answered EXCEPT !.call[c].retried = TRUE, !.rt.waiters = @ \cup {c}]
        id == Fresh("worker", IdsOf(w.out))
    IN CASE outcome = "ok" ->
              [answered EXCEPT !.call[c].applying = TRUE, !.call[c].timer = NoId,
                               !.rt.lane = Append(@, c), !.rt.ready = InLine(@),
                               !.out = Append(@, Cancel(w.call[c].timer))]
         [] outcome = "unauthorized" /\ ~w.call[c].retried /\ w.rt.on ->
              IF w.rt.refreshing # NoId THEN waits
              ELSE [waits EXCEPT !.rt.refreshing = id, !.out = Append(@, Effect(id, "refresh"))]
         [] OTHER -> FailCall(answered, c)

\* The server refused the client on a direct request: this call fails, the
\* refusal is reported and the runtime's connection stops, except for the
\* calls that wait for the Store: they stay.
DirectRefused(w, c) ==
    LET failed == FailCall([w EXCEPT !.call[c].http = NoId], c)
    IN IF w.rt.on THEN StopLanes([failed EXCEPT !.out = Append(@, Refused)]) ELSE failed

\* The refresh settled: its waiters are sent again, or fail.
Refreshed(w, ok) ==
    LET now == [w EXCEPT !.rt.refreshing = NoId, !.rt.waiters = {}]
        Resume(v, c) == IF ok THEN SendDirect(v, c, TRUE) ELSE FailCall(v, c)
    IN FoldLeft(Resume, now, SetToSeq(w.rt.waiters))

\* An effect's answer; one nobody waits for any more is dropped.
TakeResult ==
    /\ Takes("result")
    /\ work' = Tail(work)
    /\ LET m == Head(work)
           asked == {c \in Reads : call[c].on /\ m.id \in {call[c].http, call[c].timer}}
           c == CHOOSE d \in asked : TRUE
           done == CASE m.id = worker.refreshing -> Refreshed(W, m.outcome = "ok")
                     [] m.id # worker.refreshing /\ asked = {} -> W
                     [] m.id # worker.refreshing /\ asked # {} /\ call[c].timer = m.id ->
                          FailCall([W EXCEPT !.call[c].timer = NoId], c)
                     [] m.id # worker.refreshing /\ asked # {} /\ call[c].http = m.id ->
                          IF m.outcome = "refused" THEN DirectRefused(W, c)
                          ELSE DirectResult(W, c, m.outcome)
           refused == \E i \in DOMAIN done.out : done.out[i] = Refused
       IN /\ worker' = done.rt /\ call' = done.call
          /\ mail' = Sent(done.out)
          /\ stray' = IF refused THEN "stray" ELSE stray
    /\ UNCHANGED <<sdk, reads, control, broker, outbox, open, left>>

\* close(): every effect is cancelled and every task and call fails; then
\* the worker exits.
TakeClose ==
    /\ Takes("close")
    /\ work' = <<>>
    /\ LET ids == ({call[c].http : c \in Reads} \cup {call[c].timer : c \in Reads}
                       \cup {worker.refreshing}) \ {NoId}
           queued == SelectSeq(worker.ready, LAMBDA t : t.kind # "lane") \o worker.parked
           txn == IF worker.held THEN <<TaskDone(Command("transaction"), FALSE)>> ELSE <<>>
           answers == [i \in DOMAIN queued |-> TaskDone(queued[i], FALSE)]
           done == FailCalls([W EXCEPT
                       !.call = [c \in Reads |-> [call[c] EXCEPT !.http = NoId, !.timer = NoId]],
                       !.out = SetToSeq({Cancel(id) : id \in ids}) \o txn \o answers], Reads)
       IN /\ call' = done.call
          /\ mail' = mail \o <<[type |-> "worker", out |-> done.out], [type |-> "exit"]>>
    /\ worker' = [NewWorker EXCEPT !.life = "exited"]
    /\ UNCHANGED <<sdk, reads, control, broker, outbox, open, stray, left>>

\* A Store job of Control waits until the inputs before it are done.
TakeJob ==
    /\ Takes("job")
    /\ work' = Tail(work)
    /\ worker' = [worker EXCEPT !.jobs = Append(@, Head(work).epoch)]
    /\ UNCHANGED <<sdk, reads, control, broker, call, mail, outbox, open, stray, left>>

\* A job of an earlier epoch is obsolete; Initialize stores where the Stream
\* starts and lets the waiting calls go.
RunJob ==
    /\ worker.life = "open" /\ ~worker.held /\ worker.ready = <<>> /\ worker.jobs # <<>>
    /\ LET w == [W EXCEPT !.rt.jobs = Tail(@)] IN
         worker' = IF Head(worker.jobs) = control.epoch
                   THEN Released([w EXCEPT !.rt.lacks = @ \ {"start"}]).rt ELSE w.rt
    /\ UNCHANGED <<sdk, reads, control, broker, call, mail, work, outbox, open, stray, left>>

\* The last Apply of a changed contract's records, a job of Control's present
\* epoch; how the records come is SyncControl's subject.
ApplySchema ==
    /\ worker.life = "open" /\ ~worker.held /\ worker.ready = <<>>
    /\ control.connected /\ "schema" \in worker.lacks
    /\ worker' = Released([W EXCEPT !.rt.lacks = @ \ {"schema"}]).rt
    /\ UNCHANGED <<sdk, reads, control, broker, call, mail, work, outbox, open, stray, left>>

\* The application's callback is done and its transaction ends.
Release ==
    /\ worker.life = "open" /\ worker.held
    /\ worker' = [worker EXCEPT !.held = FALSE]
    /\ mail' = Append(mail, [type |-> "worker", out |-> <<TaskDone(Command("transaction"), TRUE)>>])
    /\ UNCHANGED <<sdk, reads, control, broker, call, work, outbox, open, stray, left>>

----------------------------------------------------------------------------
(***************************************************************************)
(* The SDK.                                                                *)
(***************************************************************************)
Timer(kind) == kind \in {"retry", "deadline"}

\* halt(), and stop(): the handlers are uninstalled, this connection's
\* running effects aborted; timers belong to the client.
Halted(s) == [s EXCEPT !.conn = "none", !.running = {e \in @ : Timer(e.kind)}]

Connect ==
    /\ sdk.client = "open" /\ sdk.conn = "none" /\ left.connects > 0
    /\ left' = [left EXCEPT !.connects = @ - 1]
    /\ sdk' = [sdk EXCEPT !.conn = "connecting"]
    /\ mail' = Submit(Command("connect"))
    /\ UNCHANGED <<reads, control, broker, worker, call, work, outbox, open, stray>>

\* connection.close(): halt, then a stop nobody need wait for.
CloseConnection ==
    /\ sdk.client = "open" /\ sdk.conn = "up" /\ left.closes > 0
    /\ left' = [left EXCEPT !.closes = @ - 1]
    /\ sdk' = Halted(sdk)
    /\ mail' = Submit(Command("stop"))
    /\ UNCHANGED <<reads, control, broker, worker, call, work, outbox, open, stray>>

PauseOrResume(kind) ==
    /\ sdk.client = "open" /\ sdk.conn = "up" /\ left.pauses > 0
    /\ left' = [left EXCEPT !.pauses = @ - 1]
    /\ mail' = Submit(Command(kind))
    /\ UNCHANGED <<sdk, reads, control, broker, worker, call, work, outbox, open, stray>>

Read(c) ==
    /\ sdk.client = "open" /\ c \in left.reads
    /\ left' = [left EXCEPT !.reads = @ \ {c}]
    /\ reads' = [reads EXCEPT ![c] = "waiting"]
    /\ mail' = Submit(Invoke(c))
    /\ UNCHANGED <<sdk, control, broker, worker, call, work, outbox, open, stray>>

\* Client.close: the runtime closes first when a transaction is open, or
\* after the connect under way is answered and the connection halted.
ClientClose ==
    /\ sdk.client = "open" /\ left.closes > 0
    /\ sdk' = [sdk EXCEPT !.client = IF sdk.txn THEN "submitted" ELSE "closing"]
    /\ mail' = IF sdk.txn THEN Submit([type |-> "close"]) ELSE mail
    /\ UNCHANGED <<reads, control, broker, worker, call, work, outbox, open, stray, left>>

FinishClose ==
    /\ \/ sdk.client = "closing" /\ sdk.conn # "connecting"
       \/ sdk.client \in {"submitted", "closed"} /\ sdk.conn = "up"
    /\ sdk' = [Halted(sdk) EXCEPT !.client = IF @ = "closing" THEN "submitted" ELSE @]
    /\ mail' = IF sdk.client = "closing" THEN Submit([type |-> "close"]) ELSE mail
    /\ UNCHANGED <<reads, control, broker, worker, call, work, outbox, open, stray, left>>

Drained(type) == outbox # <<>> /\ Head(outbox).type = type /\ sdk.client # "closed"

\* An effect is run by its handler; without one it is refused.
RunEffect ==
    /\ Drained("effect")
    /\ outbox' = Tail(outbox)
    /\ LET e == Head(outbox) IN
         IF Timer(e.kind) \/ sdk.conn # "none"
         THEN sdk' = [sdk EXCEPT !.running = @ \cup {e}] /\ UNCHANGED mail
         ELSE mail' = Submit(Result(e.id, "failed")) /\ UNCHANGED sdk
    /\ UNCHANGED <<reads, control, broker, worker, call, work, open, stray, left>>

CancelEffect ==
    /\ Drained("cancel")
    /\ outbox' = Tail(outbox)
    /\ sdk' = [sdk EXCEPT !.running = {e \in @ : e.id # Head(outbox).id}]
    /\ UNCHANGED <<reads, control, broker, worker, call, mail, work, open, stray, left>>

\* A refused report ends a connection; one being made takes no notice.
ReportRefused ==
    /\ Drained("refused")
    /\ outbox' = Tail(outbox)
    /\ sdk' = IF sdk.conn = "up" THEN Halted(sdk) ELSE sdk
    /\ UNCHANGED <<reads, control, broker, worker, call, mail, work, open, stray, left>>

TaskCompleted ==
    /\ Drained("completed")
    /\ outbox' = Tail(outbox)
    /\ LET e == Head(outbox) IN
         /\ sdk' = CASE e.task.kind = "connect" ->
                          IF e.ok THEN [sdk EXCEPT !.conn = "up"] ELSE Halted(sdk)
                     [] e.task.kind = "transaction" -> [sdk EXCEPT !.txn = FALSE]
                     [] OTHER -> sdk
         /\ reads' = IF e.task.kind = "invoke" THEN [reads EXCEPT ![e.task.call] = "settled"]
                     ELSE reads
    /\ UNCHANGED <<control, broker, worker, call, mail, work, open, stray, left>>

\* runtimeClosed: every route left is rejected.
RuntimeClosed ==
    /\ Drained("ended")
    /\ outbox' = <<>>
    /\ sdk' = [IF sdk.conn = "connecting" THEN Halted(sdk) ELSE sdk EXCEPT
                  !.client = "closed", !.txn = FALSE]
    /\ reads' = [c \in Reads |-> IF reads[c] = "waiting" THEN "settled" ELSE reads[c]]
    /\ UNCHANGED <<control, broker, worker, call, mail, work, open, stray, left>>

\* A running effect is answered: a timer fires, a refresh settles, a request
\* is answered or fails, a socket ends.
Answered(e, outcome) ==
    /\ e \in sdk.running
    /\ sdk' = [sdk EXCEPT !.running = @ \ {e}]
    /\ mail' = Submit(Result(e.id, outcome))
    /\ UNCHANGED <<reads, control, broker, worker, call, work, outbox, open, stray>>

Deadline(e) == e.kind = "deadline" /\ Answered(e, "ok") /\ UNCHANGED left

Answer(e) ==
    \/ e.kind \in {"retry", "refresh", "handshake", "http"} /\ Answered(e, "ok")
          /\ UNCHANGED left
    \/ /\ e.kind \in {"refresh", "handshake", "http", "socket"} /\ left.failures > 0
       /\ left' = [left EXCEPT !.failures = @ - 1]
       /\ Answered(e, "failed")
    \/ /\ e.kind \in {"handshake", "http", "socket"} /\ left.refusals > 0
       /\ left' = [left EXCEPT !.refusals = @ - 1]
       /\ \E outcome \in {"unauthorized", "refused"} : Answered(e, outcome)

----------------------------------------------------------------------------
ControlStep == HearResult \/ HearTask \/ HearClose \/ HearWorker \/ HearExit \/ Joined
WorkerStep == RunTask \/ TakeTask \/ TakeResult \/ TakeClose \/ TakeJob \/ RunJob
SdkStep == RunEffect \/ CancelEffect \/ ReportRefused \/ TaskCompleted \/ RuntimeClosed
DeadlineFires == \E e \in sdk.running : Deadline(e)

ConnectionNext ==
    \/ ControlStep \/ WorkerStep \/ SdkStep \/ FinishClose \/ DeadlineFires \/ Release
    \/ ApplySchema
    \/ \E e \in sdk.running : Answer(e)
    \/ Connect \/ CloseConnection \/ PauseOrResume("pause") \/ PauseOrResume("resume")
    \/ ClientClose
    \/ \E c \in Reads : Read(c)

\* The two threads and the event loop run, timers fire and the application's
\* transaction ends; no request and no refreshAuth need ever be answered.
ConnectionFairness ==
    /\ WF_connectionVars(ControlStep) /\ WF_connectionVars(WorkerStep)
    /\ WF_connectionVars(SdkStep) /\ WF_connectionVars(FinishClose)
    /\ WF_connectionVars(DeadlineFires) /\ WF_connectionVars(Release)

ConnectionSpec ==
    ConnectionInit /\ [][ConnectionNext]_connectionVars /\ ConnectionFairness

----------------------------------------------------------------------------
AtRest == /\ mail = <<>> /\ work = <<>> /\ outbox = <<>>
          /\ worker.ready = <<>> /\ worker.jobs = <<>>

\* The effects the runtime waits for.
Wanted == ({f.id : f \in control.flights} \ broker.waiters)
          \cup {broker.host}
          \cup UNION {{call[c].http, call[c].timer} : c \in Reads}

\* close() has resolved.
Resolved == sdk.client = "closed" /\ sdk.conn = "none"

\* Between any two messages the three threads agree: the SDK has a connection
\* exactly if the runtime has one, and the SDK runs exactly the effects the
\* runtime waits for - the retirement a refusal queues comes before any
\* reconnection, a late cancel or answer touches nothing newer, and one
\* refreshAuth serves all that wait for it.  A direct call waits for the Store
\* only while there is a connection that can end its wait, and only for what
\* the Store still lacks.  A refusal of a direct call, and a resume() that
\* crosses a refusal, are the exceptions: nobody stops Control then.  And once
\* close() has resolved nothing is left behind, after these too: no request,
\* socket or timer runs and no call is waiting.
ConnectionAgrees ==
    /\ AtRest /\ sdk.client = "open" /\ stray # "stray" =>
        /\ (sdk.conn = "up") = worker.on
        /\ {e.id : e \in sdk.running} = Wanted \ {NoId}
        /\ control.connected => worker.on /\ control.flights # {}
        /\ \A i \in DOMAIN worker.parked : worker.on /\ Waits(worker.parked[i].call)
    /\ Resolved => sdk.running = {} /\ \A c \in Reads : reads[c] # "waiting"

\* What effects.rs says of a refused direct call ("the connection stops as
\* `stop` stops it - no credential refresh, no backoff, no reconnect ... every
\* other call still out fails unavailable"): once every message is dealt with
\* and the SDK has no connection, no retry is timed and no direct call is
\* waiting.  refused() stops the runtime's side only: Control keeps its backoff,
\* which starts the next handshake, and stop_lanes() without
\* release_initial_reads05() leaves the calls that wait for the Store.
RefusalStops ==
    AtRest /\ sdk.client = "open" /\ sdk.conn = "none" =>
        /\ \A e \in sdk.running : e.kind # "retry"
        /\ \A c \in Reads : reads[c] # "waiting"

\* What the application waits for and must get: a call that need not wait for
\* the Store, or has no connection to wait with; and close().
Owed ==
    \/ \E c \in Reads : /\ reads[c] = "waiting"
                        /\ ~Waits(c) \/ (sdk.conn = "none" /\ stray # "stray")
    \/ sdk.client # "open" /\ ~Resolved

\* Whatever the application waits for ends.  A direct call the Store can take
\* settles, however its request, the refresh it waits for or its connection
\* fares: its deadline outlives them all.  One that waits for the Store - for
\* its first handshake, or for a changed contract's records - has no deadline
\* and may wait as long as the connection stands; when the connection ends, it
\* settles (the refusals ConnectionAgrees names apart).  close() resolves,
\* whatever is under way.
ConnectionSettles == []<>~Owed

=============================================================================
