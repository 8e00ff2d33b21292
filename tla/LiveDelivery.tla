--------------------------- MODULE LiveDelivery ---------------------------
(***************************************************************************)
(* Live delivery of one Stream to the sockets of one server process:       *)
(* the per-socket drain controller (crates/server/src/live.rs), the        *)
(* executor that carries its actions out and the listener's shutdown       *)
(* (packages/backend/server/connection/live.mts), the native registry of   *)
(* controllers (bindings/node/src/server.rs) and the commit hub            *)
(* (WakeHub, packages/backend/server/api/backend.mts).  The listener's     *)
(* HTTP requests (listener.mts, http.mts, admission.mts) are here as a     *)
(* second source of commits, whose work shutdown awaits too.               *)
(*                                                                         *)
(* JavaScript runs one callback at a time, so a step here is one callback; *)
(* database transactions run between callbacks, and what they read may be  *)
(* old when their promise resolves.                                        *)
(***************************************************************************)
EXTENDS Integers, Sequences

CONSTANTS
    Sockets,     \* connection slots; a slot is reused once its session is gone
    MaxHead,     \* bound on the Stream head
    MaxRestarts, \* bound on negotiation transactions that fail after their body
    MaxFailures, \* bound on pulls that fail
    Loads        \* the loads a behaviour may have: the slots in use, the bound
                 \* on the head, whether there are HTTP requests

ASSUME LiveAssumption ==
    /\ MaxHead \in Nat /\ MaxRestarts \in Nat /\ MaxFailures \in Nat
    /\ Loads \subseteq [sockets : SUBSET Sockets, head : 0..MaxHead, http : BOOLEAN]

VARIABLES
    head,        \* committed head of the Stream
    announced,   \* the head after the last commit made through this process
    unnotified,  \* committed transactions whose `run` has not called notify yet
    sock,        \* each socket: its session and its controller
    wakes,       \* queued wake microtasks of each socket's commit listener
    pulls,       \* each session's admitted pulls
    registry,    \* native controllers opened for each socket and not closed
    server,      \* the listener: "up", "closing" or "released", and what it drains
    http,        \* an HTTP request: "none", "admitting", "working" or
                 \* "published", its transaction committed and not yet notified
    load,        \* the load of this behaviour
    restarts, failures

vars == <<head, announced, unnotified, sock, wakes, pulls, registry, server,
          restarts, failures, http, load>>

\* No pull is outstanding.
NoPull == -1

\* admitting    the upgrade awaits admission
\* subscribing  serveLive awaits the subscribe frame
\* negotiating  the negotiation transaction is to run
\* committing   its body has run: the controller is registered
\* negotiated   negotiateLive has resolved
\* open         the first actions are executed
\* draining     the session is over, admitted pulls still run
Phases == {"absent", "admitting", "subscribing", "negotiating", "committing",
           "negotiated", "open", "draining"}

Absent == [phase |-> "absent", up |-> FALSE, handle |-> FALSE, cursor |-> 0,
           pending |-> FALSE, running |-> NoPull, sent |-> 0]

Init ==
    /\ head = 0 /\ announced = 0 /\ unnotified = 0
    /\ sock = [s \in Sockets |-> Absent]
    /\ wakes = [s \in Sockets |-> 0]
    /\ pulls = [s \in Sockets |-> <<>>]
    /\ registry = [s \in Sockets |-> 0]
    /\ server = [state |-> "up", owned |-> {}]
    /\ restarts = 0 /\ failures = 0
    /\ http = "none" /\ load \in Loads

----------------------------------------------------------------------------
(***************************************************************************)
(* The controller: Subscriptions::open05 and handle05 on one socket.  A    *)
(* transition answers the socket's new state; serveLive starts the pull    *)
(* `running` names when the transition asks for one.                       *)
(***************************************************************************)
Open05(k, at) == [k EXCEPT !.cursor = at, !.pending = FALSE, !.running = at]

Asked(after) == [after |-> after, state |-> "asked", through |-> after,
                 observed |-> after, publishes |-> FALSE]

\* The pull of everything after the cursor: it will see the pending commit.
StartPull(k) == [k EXCEPT !.pending = FALSE, !.running = k.cursor]

CommittedForgotten(k) == IF k.running # NoPull THEN k ELSE StartPull(k)
\* LiveEvent::Committed: noted while a pull is outstanding, else pulled.
Committed(k) ==
    IF k.running # NoPull THEN [k EXCEPT !.pending = TRUE] ELSE StartPull(k)

\* The page answers the outstanding pull.
Expected(k, page) == k.running = page.after

PulledAhead(k, page) ==
    LET done == [k EXCEPT !.cursor = page.observed, !.running = NoPull]
    IN IF k.pending \/ page.through < page.observed THEN Committed(done) ELSE done
PulledShort(k, page) ==
    LET done == [k EXCEPT !.cursor = page.through, !.running = NoPull]
    IN IF k.pending THEN Committed(done) ELSE done
\* LiveEvent::Pulled: the page's complete units advance the cursor; another
\* pull follows a commit noted meanwhile or a page that ends below its head.
Pulled(k, page) ==
    LET done == [k EXCEPT !.cursor = page.through, !.running = NoPull]
    IN IF k.pending \/ page.through < page.observed THEN Committed(done) ELSE done

\* A commit asks for a pull only when none is outstanding.
Asks(k) == k.running = NoPull

----------------------------------------------------------------------------
(***************************************************************************)
(* Connections.                                                            *)
(***************************************************************************)

\* An HTTP upgrade for /sync/live arrives and awaits admission.
Upgrade(s) ==
    /\ sock[s].phase = "absent" /\ s \in load.sockets
    /\ server.state = "up"
    /\ sock' = [sock EXCEPT ![s] = [Absent EXCEPT !.phase = "admitting"]]
    /\ UNCHANGED <<head, announced, unnotified, wakes, pulls, registry, server,
                   restarts, failures, http, load>>

\* Admission resolves: refused, or the session starts (attachLive upgrade).
Admit(s) ==
    /\ sock[s].phase = "admitting"
    /\ \/ sock' = [sock EXCEPT ![s] = Absent]
       \/ /\ server.state = "up"
          /\ sock' = [sock EXCEPT ![s].phase = "subscribing", ![s].up = TRUE]
    /\ UNCHANGED <<head, announced, unnotified, wakes, pulls, registry, server,
                   restarts, failures, http, load>>

\* The subscribe frame arrives.
Subscribe(s) ==
    /\ sock[s].phase = "subscribing"
    /\ sock[s].up
    /\ sock' = [sock EXCEPT ![s].phase = "negotiating"]
    /\ UNCHANGED <<head, announced, unnotified, wakes, pulls, registry, server,
                   restarts, failures, http, load>>

\* The body of the negotiation transaction: the head is read and the native
\* controller registered before the transaction commits (negotiate_live).
Negotiate(s) ==
    /\ sock[s].phase = "negotiating"
    /\ sock' = [sock EXCEPT ![s] = [Open05(sock[s], head) EXCEPT !.phase = "committing"]]
    /\ registry' = [registry EXCEPT ![s] = @ + 1]
    /\ UNCHANGED <<head, announced, unnotified, wakes, pulls, server, restarts, failures, http, load>>

\* The transaction commits and negotiateLive resolves with the handle.
Negotiated(s) ==
    /\ sock[s].phase = "committing"
    /\ sock' = [sock EXCEPT ![s].phase = "negotiated", ![s].handle = TRUE]
    /\ UNCHANGED <<head, announced, unnotified, wakes, pulls, registry, server,
                   restarts, failures, http, load>>

\* A serialization failure re-runs the body; with the retries exhausted the
\* rejection closes the connection (withRetries, serveLive catch).
NegotiationFails(s) ==
    /\ sock[s].phase = "committing"
    /\ restarts < MaxRestarts
    /\ restarts' = restarts + 1
    /\ \/ sock' = [sock EXCEPT ![s].phase = "negotiating"]
       \/ sock' = [sock EXCEPT ![s].phase = "draining", ![s].up = FALSE]
    /\ UNCHANGED <<head, announced, unnotified, wakes, pulls, registry, server, failures, http, load>>

\* The first actions: listen, send the acknowledgement, pull from its head.
Execute(s) ==
    /\ sock[s].phase = "negotiated"
    /\ sock[s].up
    /\ sock' = [sock EXCEPT ![s].phase = "open", ![s].sent = sock[s].cursor]
    /\ pulls' = [pulls EXCEPT ![s] = Append(@, Asked(sock[s].running))]
    /\ UNCHANGED <<head, announced, unnotified, wakes, registry, server, restarts, failures, http, load>>

\* The peer, the heartbeat or the transport ends the connection.
Disconnect(s) ==
    /\ sock[s].up
    /\ sock' = [sock EXCEPT ![s].up = FALSE]
    /\ UNCHANGED <<head, announced, unnotified, wakes, pulls, registry, server,
                   restarts, failures, http, load>>

\* serveLive's finally block, once it observes the closed connection: the
\* controller is closed and forgotten, the listener removed.  A wake still
\* queued finds the session released and does nothing.
End(s) ==
    /\ ~sock[s].up
    /\ sock[s].phase \in {"subscribing", "negotiated", "open"}
    /\ sock' = [sock EXCEPT ![s].phase = "draining", ![s].handle = FALSE]
    /\ registry' = [registry EXCEPT ![s] = IF sock[s].handle THEN @ - 1 ELSE @]
    /\ wakes' = [wakes EXCEPT ![s] = 0]
    /\ UNCHANGED <<head, announced, unnotified, pulls, server, restarts, failures, http, load>>

GoneAtOnce(s) ==
    /\ sock[s].phase = "draining"
    /\ sock' = [sock EXCEPT ![s] = Absent]
    /\ UNCHANGED <<head, announced, unnotified, wakes, pulls, registry, server,
                   restarts, failures, http, load>>
\* The session's promise resolves after its admitted pulls.
Gone(s) ==
    /\ sock[s].phase = "draining"
    /\ pulls[s] = <<>>
    /\ sock' = [sock EXCEPT ![s] = Absent]
    /\ UNCHANGED <<head, announced, unnotified, wakes, pulls, registry, server,
                   restarts, failures, http, load>>

----------------------------------------------------------------------------
(***************************************************************************)
(* Commits and wakes.                                                      *)
(***************************************************************************)
Listeners == {s \in Sockets : sock[s].phase = "open"}

\* A transaction of this process that published to the Stream commits.
Commit ==
    /\ head < load.head
    /\ head' = head + 1
    /\ announced' = head + 1
    /\ unnotified' = unnotified + 1
    /\ UNCHANGED <<sock, wakes, pulls, registry, server, restarts, failures, http, load>>

\* A commit this process is not told about: another process, or an external
\* publication whose wake is never called.
ForeignCommit ==
    /\ head < load.head
    /\ head' = head + 1
    /\ UNCHANGED <<announced, unnotified, sock, wakes, pulls, registry, server,
                   restarts, failures, http, load>>

\* `run` goes on after its transaction: WakeHub.notify queues the wakes of
\* the listeners registered now.
Notify ==
    /\ unnotified > 0
    /\ unnotified' = unnotified - 1
    /\ wakes' = [s \in Sockets |-> IF s \in Listeners THEN wakes[s] + 1 ELSE wakes[s]]
    /\ UNCHANGED <<head, announced, sock, pulls, registry, server, restarts, failures, http, load>>

\* A queued wake dispatches `committed` to its controller.
Wake(s) ==
    /\ wakes[s] > 0
    /\ wakes' = [wakes EXCEPT ![s] = @ - 1]
    /\ sock' = [sock EXCEPT ![s] = Committed(@)]
    /\ pulls' = [pulls EXCEPT ![s] =
                    IF Asks(sock[s]) THEN Append(@, Asked(sock[s].cursor)) ELSE @]
    /\ UNCHANGED <<head, announced, unnotified, registry, server, restarts, failures, http, load>>

----------------------------------------------------------------------------
(***************************************************************************)
(* Pulls.                                                                  *)
(***************************************************************************)

\* How far a page reaches: its end is the head its transaction read first,
\* or less when the page is full; a page after which something was published
\* covers some of it (process_live05, page_positions).
PageEnds(after) == IF head > after THEN (after + 1)..head ELSE {after}

\* The pull's transaction: one snapshot; Loader preparation may publish.
PullReads(s, i) ==
    /\ pulls[s][i].state = "asked"
    /\ \E through \in PageEnds(pulls[s][i].after), publishes \in BOOLEAN :
         /\ publishes => head < load.head
         /\ head' = IF publishes THEN head + 1 ELSE head
         /\ announced' = IF publishes THEN head + 1 ELSE announced
         /\ pulls' = [pulls EXCEPT ![s][i] =
                [@ EXCEPT !.state = "committed", !.through = through,
                          !.observed = head', !.publishes = publishes]]
    /\ UNCHANGED <<unnotified, sock, wakes, registry, server, restarts, failures, http, load>>

\* `run` goes on after the pull's transaction, before its promise resolves.
PullNotifies(s, i) ==
    /\ pulls[s][i].state = "committed"
    /\ pulls' = [pulls EXCEPT ![s][i].state = "done"]
    /\ wakes' = [t \in Sockets |-> IF t \in Listeners /\ pulls[s][i].publishes
                                   THEN wakes[t] + 1 ELSE wakes[t]]
    /\ UNCHANGED <<head, announced, unnotified, sock, registry, server, restarts, failures, http, load>>

Finished(s, i) == SubSeq(pulls[s], 1, i - 1) \o SubSeq(pulls[s], i + 1, Len(pulls[s]))

\* The page is dispatched: an unexpected one closes the connection, else its
\* frame is sent while the connection is open and the controller moves on.
PullDispatches(s, i) ==
    /\ pulls[s][i].state = "done"
    /\ LET page == pulls[s][i]
           next == Pulled(sock[s], page)
       IN IF sock[s].phase # "open"
          THEN sock' = sock /\ pulls' = [pulls EXCEPT ![s] = Finished(s, i)]
          ELSE IF Expected(sock[s], page)
          THEN /\ sock' = [sock EXCEPT ![s] =
                     [next EXCEPT !.sent = IF sock[s].up THEN page.through ELSE @]]
               /\ pulls' = [pulls EXCEPT ![s] =
                     IF next.running # NoPull
                     THEN Append(Finished(s, i), Asked(next.running)) ELSE Finished(s, i)]
          ELSE /\ sock' = [sock EXCEPT ![s].up = FALSE]
               /\ pulls' = [pulls EXCEPT ![s] = Finished(s, i)]
    /\ UNCHANGED <<head, announced, unnotified, wakes, registry, server, restarts, failures, http, load>>

\* The pull's transaction fails for good: the connection is closed (1011).
PullFails(s, i) ==
    /\ pulls[s][i].state = "asked"
    /\ failures < MaxFailures
    /\ failures' = failures + 1
    /\ sock' = [sock EXCEPT ![s].up = FALSE]
    /\ pulls' = [pulls EXCEPT ![s] = Finished(s, i)]
    /\ UNCHANGED <<head, announced, unnotified, wakes, registry, server, restarts, http, load>>

----------------------------------------------------------------------------
(***************************************************************************)
(* HTTP requests.  Once the listener is stopping a request is answered 503 *)
(* and does nothing.                                                       *)
(***************************************************************************)
Request ==
    /\ load.http /\ http = "none"
    /\ server.state = "up"
    /\ http' = "admitting"
    /\ UNCHANGED <<head, announced, unnotified, sock, wakes, pulls, registry,
                   server, restarts, failures, load>>

\* Admission refuses the request, or its body is unusable or cut off, or the
\* backend starts on it: shutdown does not stop a request already accepted.
RequestAdmitted ==
    /\ http = "admitting"
    /\ http' \in {"none", "working"}
    /\ UNCHANGED <<head, announced, unnotified, sock, wakes, pulls, registry,
                   server, restarts, failures, load>>

\* The backend's transaction commits, publishing or not, or fails.
RequestWorks ==
    /\ http = "working"
    /\ \/ /\ http' = "none"
          /\ UNCHANGED <<head, announced>>
       \/ /\ head < load.head
          /\ head' = head + 1 /\ announced' = head + 1
          /\ http' = "published"
    /\ UNCHANGED <<unnotified, sock, wakes, pulls, registry, server, restarts,
                   failures, load>>

\* `run` notifies, then the request is answered and forgotten.
RequestNotifies ==
    /\ http = "published"
    /\ http' = "none"
    /\ wakes' = [s \in Sockets |-> IF s \in Listeners THEN wakes[s] + 1 ELSE wakes[s]]
    /\ UNCHANGED <<head, announced, unnotified, sock, pulls, registry, server,
                   restarts, failures, load>>

----------------------------------------------------------------------------
(***************************************************************************)
(* Shutdown: the listener's close(), attachLive's close() included.        *)
(***************************************************************************)

CloseKeepsSockets ==
    /\ server.state = "up"
    /\ server' = [state |-> "closing",
                  owned |-> {<<sock[s].phase = "admitting", s>> :
                             s \in {t \in Sockets : sock[t].phase # "absent"}}]
    /\ UNCHANGED <<head, announced, unnotified, sock, wakes, pulls, registry,
                   restarts, failures, http, load>>
\* No further upgrade is accepted, every connection is closed, and the
\* upgrades and sessions of this moment are awaited.
Close ==
    /\ server.state = "up"
    /\ server' = [state |-> "closing",
                  owned |-> {<<sock[s].phase = "admitting", s>> :
                             s \in {t \in Sockets : sock[t].phase # "absent"}}]
    /\ sock' = [s \in Sockets |-> [sock[s] EXCEPT !.up = FALSE]]
    /\ UNCHANGED <<head, announced, unnotified, wakes, pulls, registry, restarts, failures, http, load>>

\* An upgrade settles with its admission, a session with its drained pulls.
Settled(item) ==
    LET upgrade == item[1]
        s == item[2]
    IN IF upgrade THEN sock[s].phase # "admitting" ELSE sock[s].phase = "absent"

ClosedBesideRequests ==
    /\ server.state = "closing"
    /\ \A item \in server.owned : Settled(item)
    /\ server' = [state |-> "released", owned |-> {}]
    /\ UNCHANGED <<head, announced, unnotified, sock, wakes, pulls, registry,
                   restarts, failures, http, load>>
\* close() resolves: nothing awaited is left, the HTTP request included (none
\* was accepted since).
Closed ==
    /\ server.state = "closing"
    /\ \A item \in server.owned : Settled(item)
    /\ http = "none"
    /\ server' = [state |-> "released", owned |-> {}]
    /\ UNCHANGED <<head, announced, unnotified, sock, wakes, pulls, registry,
                   restarts, failures, http, load>>

----------------------------------------------------------------------------
SessionStep(s) ==
    \/ Admit(s) \/ Negotiate(s) \/ Negotiated(s) \/ Execute(s) \/ End(s) \/ Gone(s)

PullStep(s) == \E i \in DOMAIN pulls[s] :
    PullReads(s, i) \/ PullNotifies(s, i) \/ PullDispatches(s, i)

RequestStep == RequestAdmitted \/ RequestWorks \/ RequestNotifies

Next ==
    \/ \E s \in Sockets : Upgrade(s) \/ Subscribe(s) \/ SessionStep(s)
    \/ \E s \in Sockets : NegotiationFails(s) \/ Disconnect(s)
    \/ Commit \/ ForeignCommit \/ Notify
    \/ \E s \in Sockets : Wake(s) \/ PullStep(s)
    \/ \E s \in Sockets : \E i \in DOMAIN pulls[s] : PullFails(s, i)
    \/ Request \/ RequestStep
    \/ Close \/ Closed

\* The event loop runs queued callbacks, transactions end, and a closed
\* connection is observed; peers, commits and shutdown come when they will.
Fairness ==
    /\ WF_vars(Notify)
    /\ \A s \in Sockets : /\ WF_vars(Wake(s))
                          /\ WF_vars(SessionStep(s))
                          /\ WF_vars(PullStep(s))
    /\ WF_vars(RequestStep)
    /\ WF_vars(Closed)

Spec == Init /\ [][Next]_vars
FairSpec == Spec /\ Fairness

----------------------------------------------------------------------------
\* A transaction that published has committed and not yet notified.
NotifyDue ==
    \/ unnotified > 0
    \/ http = "published"
    \/ \E s \in Sockets : \E i \in DOMAIN pulls[s] :
         pulls[s][i].state = "committed" /\ pulls[s][i].publishes

\* No wakeup is lost, whenever the commit fell (before the negotiated head was
\* registered, between negotiation and listen, during a pull): a connected
\* socket with nothing outstanding has been sent every commit of this process.
NoLostWakeup ==
    \A s \in Sockets :
        /\ sock[s].phase = "open" /\ sock[s].up
        /\ pulls[s] = <<>> /\ wakes[s] = 0 /\ ~NotifyDue
        => sock[s].sent >= announced

\* The frames of a connection leave no gap: the controller's cursor is what
\* they have covered, so a page always begins where the last frame ended.
FramesContiguous ==
    \A s \in Sockets :
        sock[s].phase = "open" /\ sock[s].up =>
            /\ sock[s].cursor = sock[s].sent
            /\ sock[s].sent <= head

\* Once close() has resolved the host may release the database: no session is
\* left, no pull or request owns a transaction, and the only native
\* controllers left are those of negotiation transactions that failed.
ReleasedIsDrained ==
    server.state = "released" =>
        /\ http = "none"
        /\ \A s \in Sockets :
             sock[s].phase = "absent" /\ pulls[s] = <<>> /\ registry[s] <= restarts

\* A commit of this process reaches every connected subscriber.
CommitsDelivered ==
    \A s \in Sockets : \A n \in 1..MaxHead :
        (sock[s].phase = "open" /\ sock[s].up /\ announced >= n)
            ~> (~sock[s].up \/ sock[s].sent >= n)

\* close() resolves.
CloseResolves == (server.state = "closing") ~> (server.state = "released")

============================================================================
