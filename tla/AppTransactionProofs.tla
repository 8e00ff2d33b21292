------------------------ MODULE AppTransactionProofs ------------------------
(***************************************************************************)
(* Proofs about AppTransaction, for every number of commands, savepoints,  *)
(* Mutation callbacks, queued events, faults and panics: what the          *)
(* application is told of its transaction and of each Call agrees with     *)
(* what SQLite committed.                                                  *)
(***************************************************************************)
EXTENDS AppTransaction, SequenceTheorems, TLAPS

----------------------------------------------------------------------------
(***************************************************************************)
(* The inductive invariant.                                                *)
(***************************************************************************)
LetterTypes == {"transaction", "command", "release", "rollback", "localResult", "result",
                "close", "callback", "local", "completed", "closed", "state", "end"}
Letter == [type : LetterTypes, id : Fiber, ok : BOOLEAN]
Scope == [token : Id, failure : BOOLEAN, calls : Nat]
Session == [open : BOOLEAN, scopes : Seq(Scope), failure : BOOLEAN, structural : BOOLEAN,
            local : Fiber, localFailure : BOOLEAN, calls : Seq(Id), writes : Seq(Id),
            marks : Seq(Nat), up : BOOLEAN]
Committed == [committed : BOOLEAN, writes : SUBSET Id]
IsRequest(r) == r = [kind |-> r.kind, by |-> r.by, scope |-> r.scope, st |-> r.st]

\* Inputs and events about a request name one.
Addressed == {"command", "release", "rollback", "localResult", "state", "closed", "local"}
Letters(q) == {q[k] : k \in 1..Len(q)}
Queue(q) == q \in Seq(Letter) /\ \A e \in Letters(q) : e.type \in Addressed => e.id \in Id

\* What both sides keep, as far as the theorems speak of it.
AppTypes ==
    /\ issued \in 0..MaxRequests
    /\ DOMAIN req = Id
    /\ \A i \in Id : IsRequest(req[i]) /\ (i <= issued => req[i].kind \in Kinds)
    /\ handle \in [Id -> {"none", "provisional", "committed", "rolledBack"}]
    /\ task = [promise |-> task.promise, callback |-> task.callback]
    /\ task.promise \in {"pending", "resolved", "rejected"}
    /\ Queue(mail) /\ Queue(out)
    /\ wk \in Session /\ durable \in Committed /\ panics \in Nat

Says(e, type, i, ok) == e.type = type /\ e.id = i /\ e.ok = ok
\* The event is on its way.
Announced(type, i, ok) == \E e \in Letters(out) : Says(e, type, i, ok)
\* The transaction task has not reached the worker.
Unopened == \E e \in Letters(mail) : e.type = "transaction"
\* The worker has handled it: no session is open or will be.
Over == ~wk.open /\ ~Unopened

\* One session, once: it begins with the first input, and ends by a commit or
\* with nothing.
OneSession ==
    /\ \A k \in 1..Len(mail) : mail[k].type = "transaction" => k = 1
    /\ Unopened => ~wk.open /\ wk.up
    /\ durable.committed => Over
    /\ ~durable.committed => durable.writes = {}
    /\ ~wk.up => ~wk.open

\* The end is the last event of the runtime.
EndIsLast ==
    /\ \A k \in 1..Len(out) : out[k].type = "end" => k = Len(out) /\ ~wk.up
    /\ bridge = "closed" => ~wk.up /\ out = <<>>

\* What the promise says, or will say.
TaskTold ==
    /\ task.promise = "rejected" \/ Announced("completed", 0, FALSE) =>
         Over /\ (~durable.committed \/ panics > 0)
    /\ durable.committed /\ panics = 0 =>
         task.promise = "resolved" \/ Announced("completed", 0, TRUE)

\* The first c calls of the session and its first w writes end at the same
\* moment: what is in both lies before the cut in both, or behind it.
Cut(s, c, w) ==
    /\ c \in 0..Len(s.calls) /\ w \in 0..Len(s.writes)
    /\ \A j \in 1..Len(s.calls), m \in 1..Len(s.writes) :
         s.calls[j] = s.writes[m] => (j <= c <=> m <= w)

\* Every call of the session is written, every Mutation written is a call,
\* and each savepoint, like the running Mutation callback, remembers where
\* both were when it began.
SessionOk(s) ==
    /\ \A j \in 1..Len(s.calls) : \E m \in 1..Len(s.writes) : s.writes[m] = s.calls[j]
    /\ \A m \in 1..Len(s.writes) : req[s.writes[m]].kind \in Mutating =>
         \E j \in 1..Len(s.calls) : s.calls[j] = s.writes[m]
    /\ Len(s.marks) = IF s.local = 0 THEN Len(s.scopes) ELSE Len(s.scopes) + 1
    /\ \A k \in 1..Len(s.scopes) : Cut(s, s.scopes[k].calls, s.marks[k])
    /\ \A k, l \in 1..Len(s.scopes) : k <= l => s.scopes[k].calls <= s.scopes[l].calls
    /\ \A k, l \in 1..Len(s.marks) : k <= l => s.marks[k] <= s.marks[l]
    /\ s.local # 0 =>
         /\ Cut(s, Len(s.calls), s.marks[Len(s.marks)])
         /\ \A m \in 1..Len(s.writes) : s.writes[m] # s.local
SessionMatched == SessionOk(wk)

\* The worker has not seen the command.
Unborn(i) == i > issued \/ \E e \in Letters(mail) : e.type = "command" /\ e.id = i
\* The request is in the session.
Written(s, i) == \E m \in 1..Len(s.writes) : s.writes[m] = i
Untouched(i) == ~Written(wk, i) /\ wk.local # i /\ i \notin durable.writes
\* Nothing the worker has done, or will do, makes the call durable.
Dead(i) == i \notin durable.writes /\ (wk.up => ~Unborn(i) /\ Untouched(i))

\* A command is sent once, leaves no trace before it is run, and is answered
\* after it was issued.
CommandsOnce ==
    /\ \A k, l \in 1..Len(mail) :
         mail[k].type = "command" /\ mail[l].type = "command" /\ mail[k].id = mail[l].id
            => k = l
    /\ \A e \in Letters(mail) : e.type = "command" => e.id <= issued
    /\ \A i \in Id : Unborn(i) => Untouched(i)
    /\ \A e \in Letters(out) : e.type = "completed" => e.id <= issued

\* A call said committed, or about to be, is durable; one said rolled back, or
\* about to be, never will be.
CallsTold ==
    /\ \A i \in Id :
         /\ handle[i] = "committed" => i \in durable.writes
         /\ handle[i] = "rolledBack" => Dead(i) \/ panics > 0
    /\ \A e \in Letters(out) : e.type = "state" =>
         /\ e.ok => e.id \in durable.writes
         /\ ~e.ok => Dead(e.id) \/ panics > 0

\* The commit of a call follows its answer, before the end of the runtime.
CommitFollows ==
    \A i \in Id : i \in durable.writes /\ panics = 0 /\ req[i].kind \in Mutating =>
        /\ handle[i] = "provisional" => Announced("state", i, TRUE)
        /\ \A k \in 1..Len(out) : Says(out[k], "completed", i, TRUE) =>
             \E l \in 1..Len(out) : k < l /\ Says(out[l], "state", i, TRUE)

\* Only an issued submission has a Call.
HandlesOfCalls == \A i \in Id : handle[i] # "none" => i <= issued /\ req[i].kind \in Mutating

AppInv ==
    /\ AppTypes /\ OneSession /\ EndIsLast /\ TaskTold /\ SessionMatched
    /\ CommandsOnce /\ CallsTold /\ CommitFollows /\ HandlesOfCalls

----------------------------------------------------------------------------
(***************************************************************************)
(* Lemmas about queues and prefixes.                                       *)
(***************************************************************************)

\* A queue with es behind it.
LEMMA ConcatQueue ==
    ASSUME NEW p, NEW q, Queue(p), Queue(q)
    PROVE  /\ Queue(p \o q) /\ Letters(p \o q) = Letters(p) \cup Letters(q)
           /\ Len(p \o q) = Len(p) + Len(q) /\ Len(p) \in Nat /\ Len(q) \in Nat
           /\ \A k \in 1..Len(p) : (p \o q)[k] = p[k]
           /\ \A k \in 1..Len(q) : (p \o q)[Len(p) + k] = q[k]
<1>1. /\ p \o q \in Seq(Letter) /\ Len(p \o q) = Len(p) + Len(q)
      /\ \A k \in 1 .. Len(p) + Len(q) : (p \o q)[k] =
            IF k <= Len(p) THEN p[k] ELSE q[k - Len(p)]
  BY ConcatProperties DEF Queue
<1>2. Len(p) \in Nat /\ Len(q) \in Nat
  BY LenProperties DEF Queue
<1>3. \A k \in 1..Len(p) : k \in 1..Len(p) + Len(q) /\ (p \o q)[k] = p[k]
  BY <1>1, <1>2
<1>4. ASSUME NEW k \in 1..Len(q)
      PROVE  Len(p) + k \in 1..Len(p) + Len(q) /\ (p \o q)[Len(p) + k] = q[k]
  <2>1. /\ Len(p) + k \in 1..Len(p) + Len(q) /\ ~(Len(p) + k <= Len(p))
        /\ (Len(p) + k) - Len(p) = k
    BY <1>2
  <2> QED
    BY <1>1, <2>1
<1>5. ASSUME NEW k \in 1..Len(p) + Len(q)
      PROVE  (p \o q)[k] \in Letters(p) \cup Letters(q)
  <2>1. CASE k <= Len(p)
    BY <1>1, <1>2, <2>1 DEF Letters
  <2>2. CASE ~(k <= Len(p))
    <3>1. k - Len(p) \in 1..Len(q)
      BY <1>2, <2>2
    <3> QED
      BY <1>1, <2>2, <3>1 DEF Letters
  <2> QED
    BY <2>1, <2>2
<1>6. Letters(p \o q) \subseteq Letters(p) \cup Letters(q)
  BY <1>1, <1>5 DEF Letters
<1>7. Letters(p) \subseteq Letters(p \o q)
  BY <1>1, <1>3 DEF Letters
<1>8. Letters(q) \subseteq Letters(p \o q)
  BY <1>1, <1>4 DEF Letters
<1>9. Letters(p \o q) = Letters(p) \cup Letters(q)
  BY <1>6, <1>7, <1>8
<1> QED
  BY <1>1, <1>2, <1>3, <1>4, <1>9 DEF Queue

\* The queues of no event and of one.
LEMMA ShortQueues ==
    /\ Queue(<<>>) /\ Letters(<<>>) = {}
    /\ \A e \in Letter : (e.type \in Addressed => e.id \in Id) =>
         Queue(<<e>>) /\ Letters(<<e>>) = {e} /\ Len(<<e>>) = 1 /\ <<e>>[1] = e
<1>1. Queue(<<>>) /\ Letters(<<>>) = {}
  BY EmptySeq DEF Queue, Letters
<1>2. ASSUME NEW e \in Letter
      PROVE  <<e>> \in Seq(Letter) /\ Letters(<<e>>) = {e} /\ Len(<<e>>) = 1 /\ <<e>>[1] = e
  BY DEF Letters
<1> QED
  BY <1>1, <1>2 DEF Queue

\* An input is sent behind the others.
LEMMA AppendQueue ==
    ASSUME NEW q, Queue(q), NEW e \in Letter, e.type \in Addressed => e.id \in Id
    PROVE  /\ Append(q, e) = q \o <<e>> /\ Queue(Append(q, e))
           /\ Letters(Append(q, e)) = Letters(q) \cup {e}
           /\ Len(Append(q, e)) = Len(q) + 1 /\ Len(q) \in Nat
           /\ \A k \in 1..Len(q) : Append(q, e)[k] = q[k]
           /\ Append(q, e)[Len(q) + 1] = e
<1>1. Append(q, e) = q \o <<e>>
  BY AppendIsConcat DEF Queue
<1>2. Queue(<<e>>) /\ Letters(<<e>>) = {e} /\ Len(<<e>>) = 1 /\ <<e>>[1] = e
  BY ShortQueues
<1> QED
  BY <1>1, <1>2, ConcatQueue

\* The first of a queue is taken.
LEMMA TailQueue ==
    ASSUME NEW q, Queue(q), q # <<>>
    PROVE  /\ Queue(Tail(q)) /\ Head(q) \in Letter /\ Head(q) = q[1]
           /\ Head(q).type \in Addressed => Head(q).id \in Id
           /\ Letters(q) = {Head(q)} \cup Letters(Tail(q))
           /\ Len(q) \in Nat /\ Len(Tail(q)) = Len(q) - 1 /\ 1 \in 1..Len(q)
           /\ \A k \in 1..Len(Tail(q)) : Tail(q)[k] = q[k + 1] /\ k + 1 \in 1..Len(q)
           /\ \A k \in 1..Len(q) : k # 1 => k - 1 \in 1..Len(Tail(q)) /\ Tail(q)[k - 1] = q[k]
<1>1. /\ Head(q) \in Letter /\ Tail(q) \in Seq(Letter) /\ Len(Tail(q)) = Len(q) - 1
      /\ \A k \in 1..Len(Tail(q)) : Tail(q)[k] = q[k + 1]
  BY HeadTailProperties DEF Queue
<1>2. Len(q) \in Nat \ {0} /\ Head(q) = q[1]
  BY EmptySeq DEF Queue
<1>3. 1 \in 1..Len(q)
  BY <1>2
<1>4. \A k \in 1..Len(Tail(q)) : k + 1 \in 1..Len(q)
  BY <1>1, <1>2
<1>5. ASSUME NEW k \in 1..Len(q), k # 1
      PROVE  k - 1 \in 1..Len(Tail(q)) /\ Tail(q)[k - 1] = q[k]
  <2>1. k - 1 \in 1..Len(Tail(q)) /\ (k - 1) + 1 = k
    BY <1>1, <1>2, <1>5
  <2> QED
    BY <1>1, <2>1
<1>6. Letters(q) = {Head(q)} \cup Letters(Tail(q))
  <2>1. Letters(q) \subseteq {Head(q)} \cup Letters(Tail(q))
    BY <1>2, <1>5 DEF Letters
  <2>2. {Head(q)} \cup Letters(Tail(q)) \subseteq Letters(q)
    BY <1>1, <1>2, <1>3, <1>4 DEF Letters
  <2> QED
    BY <2>1, <2>2
<1> QED
  BY <1>1, <1>2, <1>3, <1>4, <1>5, <1>6 DEF Queue

\* A sequence cut off behind its n-th element.
LEMMA PrefixFacts ==
    ASSUME NEW S, NEW q \in Seq(S), NEW n \in 0..Len(q)
    PROVE  /\ Prefix(q, n) \in Seq(S) /\ Len(Prefix(q, n)) = n
           /\ \A k \in 1..n : Prefix(q, n)[k] = q[k] /\ k \in 1..Len(q)
<1>1. Len(q) \in Nat /\ n \in Nat /\ n \in Int /\ 1 \in Int
  BY LenProperties
<1>2. \A k \in 1..n : k \in 1..Len(q) /\ q[k] \in S
  BY <1>1, ElementOfSeq
<1>3. /\ SubSeq(q, 1, n) \in Seq(S) /\ Len(SubSeq(q, 1, n)) = IF 1 <= n THEN n - 1 + 1 ELSE 0
      /\ \A k \in 1..n - 1 + 1 : SubSeq(q, 1, n)[k] = q[1 + k - 1]
  BY <1>1, <1>2, SubSeqProperties
<1>4. \A k \in 1..n : k \in 1..n - 1 + 1 /\ 1 + k - 1 = k
  BY <1>1
<1> QED
  BY <1>1, <1>2, <1>3, <1>4 DEF Prefix

\* What lies behind the n-th element.
LEMMA SuffixFacts ==
    ASSUME NEW S, NEW q \in Seq(S), NEW n \in 0..Len(q)
    PROVE  /\ Suffix(q, n) \in Seq(S)
           /\ \A k \in 1..Len(Suffix(q, n)) :
                 /\ n + k \in 1..Len(q) /\ n < n + k /\ Suffix(q, n)[k] = q[n + k]
<1>1. Len(q) \in Nat /\ n \in Nat /\ n + 1 \in Int /\ Len(q) \in Int
  BY LenProperties
<1>2. \A k \in n + 1..Len(q) : k \in 1..Len(q) /\ q[k] \in S
  BY <1>1, ElementOfSeq
<1>3. /\ SubSeq(q, n + 1, Len(q)) \in Seq(S)
      /\ Len(SubSeq(q, n + 1, Len(q))) = IF n + 1 <= Len(q) THEN Len(q) - (n + 1) + 1 ELSE 0
      /\ \A k \in 1..Len(q) - (n + 1) + 1 : SubSeq(q, n + 1, Len(q))[k] = q[n + 1 + k - 1]
  BY <1>1, <1>2, SubSeqProperties
<1>4. ASSUME NEW k \in 1..Len(SubSeq(q, n + 1, Len(q)))
      PROVE  /\ k \in 1..Len(q) - (n + 1) + 1 /\ n + 1 + k - 1 = n + k
             /\ n + k \in 1..Len(q) /\ n < n + k
  BY <1>1, <1>3
<1> QED
  BY <1>3, <1>4 DEF Suffix

\* A sequence without its last element.
LEMMA FrontFacts ==
    ASSUME NEW S, NEW q \in Seq(S), Len(q) # 0
    PROVE  /\ Front(q) \in Seq(S) /\ Len(Front(q)) = Len(q) - 1
           /\ Last(q) = q[Len(q)] /\ Last(q) \in S /\ Len(q) \in 1..Len(q)
           /\ \A k \in 1..Len(q) - 1 : Front(q)[k] = q[k] /\ k \in 1..Len(q)
<1>1. Len(q) \in Nat /\ Len(q) - 1 \in 0..Len(q) /\ Len(q) \in 1..Len(q)
  BY LenProperties
<1>2. q[Len(q)] \in S
  BY <1>1, ElementOfSeq
<1>3. /\ Prefix(q, Len(q) - 1) \in Seq(S) /\ Len(Prefix(q, Len(q) - 1)) = Len(q) - 1
      /\ \A k \in 1..Len(q) - 1 : Prefix(q, Len(q) - 1)[k] = q[k] /\ k \in 1..Len(q)
  BY <1>1, PrefixFacts
<1> QED
  BY <1>1, <1>2, <1>3 DEF Front, Last

\* A sequence with one more element.
LEMMA AppendFacts ==
    ASSUME NEW S, NEW q \in Seq(S), NEW x \in S
    PROVE  /\ Append(q, x) \in Seq(S) /\ Len(Append(q, x)) = Len(q) + 1 /\ Len(q) \in Nat
           /\ \A k \in 1..Len(q) : Append(q, x)[k] = q[k]
           /\ Append(q, x)[Len(q) + 1] = x
           /\ \A k \in 1..Len(q) + 1 : k \in 1..Len(q) \/ k = Len(q) + 1
  BY LenProperties, AppendProperties

\* An event is a letter.
LEMMA EvFacts ==
    ASSUME NEW t \in LetterTypes, NEW i \in Fiber, NEW ok \in BOOLEAN
    PROVE  /\ Ev(t, i, ok) \in Letter /\ Says(Ev(t, i, ok), t, i, ok)
           /\ Ev(t, i, ok).type = t /\ Ev(t, i, ok).id = i /\ Ev(t, i, ok).ok = ok
<1>1. Ev(t, i, ok).type = t /\ Ev(t, i, ok).id = i /\ Ev(t, i, ok).ok = ok
  BY DEF Ev
<1>2. CASE ok = TRUE
  BY <1>1, <1>2 DEF Ev, Letter, Says
<1>3. CASE ok = FALSE
  BY <1>1, <1>3 DEF Ev, Letter, Says
<1> QED
  BY <1>2, <1>3

\* The events that tell what became of calls.
LEMMA StatesFacts ==
    ASSUME NEW q \in Seq(Id), NEW ok \in BOOLEAN
    PROVE  /\ Queue(States(q, ok)) /\ Len(States(q, ok)) = Len(q)
           /\ \A e \in Letters(States(q, ok)) : e.type = "state" /\ e.ok = ok
                 /\ \E k \in 1..Len(q) : e.id = q[k]
           /\ \A k \in 1..Len(q) : \E e \in Letters(States(q, ok)) : Says(e, "state", q[k], ok)
<1>1. Len(q) \in Nat /\ \A k \in 1..Len(q) : q[k] \in Id /\ q[k] \in Fiber
  BY LenProperties, ElementOfSeq, AppAssumption DEF Id, Fiber
<1>2. \A k \in 1..Len(q) : /\ Ev("state", q[k], ok) \in Letter
                           /\ Says(Ev("state", q[k], ok), "state", q[k], ok)
  <2> SUFFICES ASSUME NEW k \in 1..Len(q)
               PROVE  /\ Ev("state", q[k], ok) \in Letter
                      /\ Says(Ev("state", q[k], ok), "state", q[k], ok)
    OBVIOUS
  <2>1. q[k] \in Fiber
    BY <1>1
  <2>2. "state" \in LetterTypes
    BY DEF LetterTypes
  <2> QED
    BY <2>1, <2>2, EvFacts
<1>3. States(q, ok) \in [1..Len(q) -> Letter]
  BY <1>2 DEF States
<1>4. States(q, ok) \in Seq(Letter) /\ Len(States(q, ok)) = Len(q)
  BY <1>1, <1>3
<1>5. \A k \in 1..Len(q) : States(q, ok)[k] = Ev("state", q[k], ok)
  BY DEF States
<1>6. \A e \in Letters(States(q, ok)) : \E k \in 1..Len(q) : Says(e, "state", q[k], ok)
  BY <1>2, <1>4, <1>5 DEF Letters
<1>7. \A k \in 1..Len(q) : \E e \in Letters(States(q, ok)) : Says(e, "state", q[k], ok)
  BY <1>2, <1>4, <1>5 DEF Letters
<1> QED
  BY <1>1, <1>4, <1>6, <1>7 DEF Queue, Says

----------------------------------------------------------------------------
(***************************************************************************)
(* Lemmas about the worker's session: what it does to calls, writes and    *)
(* marks keeps them in step.                                               *)
(***************************************************************************)

\* Calls and writes are sequences of requests, marks and scopes of positions.
LEMMA SessionFacts ==
    ASSUME NEW s \in Session
    PROVE  /\ s.calls \in Seq(Id) /\ s.writes \in Seq(Id) /\ s.marks \in Seq(Nat)
           /\ s.scopes \in Seq(Scope) /\ s.local \in Fiber
           /\ Len(s.calls) \in Nat /\ Len(s.writes) \in Nat
           /\ Len(s.marks) \in Nat /\ Len(s.scopes) \in Nat
           /\ \A j \in 1..Len(s.calls) : s.calls[j] \in Id
           /\ \A m \in 1..Len(s.writes) : s.writes[m] \in Id
           /\ \A k \in 1..Len(s.marks) : s.marks[k] \in Nat
           /\ \A k \in 1..Len(s.scopes) : s.scopes[k] \in Scope /\ s.scopes[k].calls \in Nat
<1>1. /\ s.calls \in Seq(Id) /\ s.writes \in Seq(Id) /\ s.marks \in Seq(Nat)
      /\ s.scopes \in Seq(Scope) /\ s.local \in Fiber
  BY DEF Session
<1>2. /\ Len(s.calls) \in Nat /\ Len(s.writes) \in Nat
      /\ Len(s.marks) \in Nat /\ Len(s.scopes) \in Nat
  BY <1>1, LenProperties
<1>3. /\ \A j \in 1..Len(s.calls) : s.calls[j] \in Id
      /\ \A m \in 1..Len(s.writes) : s.writes[m] \in Id
      /\ \A k \in 1..Len(s.marks) : s.marks[k] \in Nat
      /\ \A k \in 1..Len(s.scopes) : s.scopes[k] \in Scope
  BY <1>1, ElementOfSeq
<1> QED
  BY <1>1, <1>2, <1>3 DEF Scope

\* A write that nothing has written before, recorded as a call or not, leaves
\* every cut where it was.
LEMMA CutAppend ==
    ASSUME NEW s \in Session, NEW t \in Session, NEW i \in Id, NEW c, NEW w,
           Cut(s, c, w), ~Written(s, i),
           \A j \in 1..Len(s.calls) : \E m \in 1..Len(s.writes) : s.writes[m] = s.calls[j],
           t.writes = Append(s.writes, i), t.calls \in {s.calls, Append(s.calls, i)}
    PROVE  Cut(t, c, w)
<1>1. /\ Len(t.writes) = Len(s.writes) + 1 /\ t.writes[Len(s.writes) + 1] = i
      /\ \A m \in 1..Len(s.writes) : t.writes[m] = s.writes[m]
      /\ \A m \in 1..Len(t.writes) : m \in 1..Len(s.writes) \/ m = Len(s.writes) + 1
  BY SessionFacts, AppendFacts
<1>2. \/ t.calls = s.calls
      \/ /\ Len(t.calls) = Len(s.calls) + 1 /\ t.calls[Len(s.calls) + 1] = i
         /\ \A j \in 1..Len(s.calls) : t.calls[j] = s.calls[j]
         /\ \A j \in 1..Len(t.calls) : j \in 1..Len(s.calls) \/ j = Len(s.calls) + 1
  BY SessionFacts, AppendFacts
<1>3. Len(s.calls) \in Nat /\ Len(s.writes) \in Nat
  BY SessionFacts
<1>4. c \in 0..Len(s.calls) /\ w \in 0..Len(s.writes)
  BY DEF Cut
<1>5. \A m \in 1..Len(s.writes) : s.writes[m] # i
  BY DEF Written
<1>6. \A j \in 1..Len(s.calls) : s.calls[j] # i
  BY <1>5
<1>7. ASSUME NEW j \in 1..Len(t.calls), NEW m \in 1..Len(t.writes), t.calls[j] = t.writes[m]
      PROVE  j <= c <=> m <= w
  <2>1. CASE j \in 1..Len(s.calls) /\ m \in 1..Len(s.writes)
    BY <1>1, <1>2, <1>7, <2>1 DEF Cut
  <2>2. CASE j \in 1..Len(s.calls) /\ m = Len(s.writes) + 1
    BY <1>1, <1>2, <1>6, <1>7, <2>2
  <2>3. CASE j = Len(s.calls) + 1 /\ m \in 1..Len(s.writes)
    BY <1>1, <1>2, <1>3, <1>5, <1>7, <2>3
  <2>4. CASE j = Len(s.calls) + 1 /\ m = Len(s.writes) + 1
    BY <1>3, <1>4, <2>4
  <2> QED
    BY <1>1, <1>2, <2>1, <2>2, <2>3, <2>4
<1>8. c \in 0..Len(t.calls) /\ w \in 0..Len(t.writes)
  BY <1>1, <1>2, <1>3, <1>4
<1> QED
  BY <1>7, <1>8 DEF Cut

\* Undoing what lies behind later positions leaves an earlier cut.
LEMMA CutPrefix ==
    ASSUME NEW s \in Session, NEW t \in Session, NEW c, NEW w,
           NEW a \in 0..Len(s.calls), NEW b \in 0..Len(s.writes), c <= a, w <= b,
           Cut(s, c, w), t.calls = Prefix(s.calls, a), t.writes = Prefix(s.writes, b)
    PROVE  Cut(t, c, w)
<1>1. /\ Len(t.calls) = a /\ \A j \in 1..a : t.calls[j] = s.calls[j] /\ j \in 1..Len(s.calls)
      /\ Len(t.writes) = b /\ \A m \in 1..b : t.writes[m] = s.writes[m] /\ m \in 1..Len(s.writes)
  <2>1. s.calls \in Seq(Id) /\ s.writes \in Seq(Id)
    BY SessionFacts
  <2>2. /\ Len(Prefix(s.calls, a)) = a
        /\ \A j \in 1..a : Prefix(s.calls, a)[j] = s.calls[j] /\ j \in 1..Len(s.calls)
    BY <2>1, PrefixFacts
  <2>3. /\ Len(Prefix(s.writes, b)) = b
        /\ \A m \in 1..b : Prefix(s.writes, b)[m] = s.writes[m] /\ m \in 1..Len(s.writes)
    BY <2>1, PrefixFacts
  <2> QED
    BY <2>2, <2>3
<1>2. c \in 0..Len(s.calls) /\ w \in 0..Len(s.writes) /\ Len(s.calls) \in Nat /\ Len(s.writes) \in Nat
  BY SessionFacts DEF Cut
<1>3. c \in 0..a /\ w \in 0..b
  BY <1>2
<1>4. \A j \in 1..a, m \in 1..b : t.calls[j] = t.writes[m] => (j <= c <=> m <= w)
  BY <1>1 DEF Cut
<1> QED
  BY <1>1, <1>3, <1>4 DEF Cut

\* A cut is about calls and writes only.
LEMMA CutSame ==
    ASSUME NEW s, NEW t, NEW c, NEW w, Cut(s, c, w), t.calls = s.calls, t.writes = s.writes
    PROVE  Cut(t, c, w)
  BY DEF Cut

\* A submission is written and becomes a call (submit; finish_local).
LEMMA SubmittedOk ==
    ASSUME NEW s \in Session, SessionOk(s), s.local = 0, NEW i \in Id, ~Written(s, i),
           NEW t \in Session, t.writes = Append(s.writes, i), t.calls = Append(s.calls, i),
           t.marks = s.marks, t.scopes = s.scopes, t.local = 0
    PROVE  SessionOk(t)
<1>1. /\ Len(t.writes) = Len(s.writes) + 1 /\ t.writes[Len(s.writes) + 1] = i
      /\ \A m \in 1..Len(s.writes) : t.writes[m] = s.writes[m]
      /\ \A m \in 1..Len(t.writes) : m \in 1..Len(s.writes) \/ m = Len(s.writes) + 1
      /\ Len(s.writes) \in Nat
  BY SessionFacts, AppendFacts
<1>2. /\ Len(t.calls) = Len(s.calls) + 1 /\ t.calls[Len(s.calls) + 1] = i
      /\ \A j \in 1..Len(s.calls) : t.calls[j] = s.calls[j]
      /\ \A j \in 1..Len(t.calls) : j \in 1..Len(s.calls) \/ j = Len(s.calls) + 1
      /\ Len(s.calls) \in Nat
  BY SessionFacts, AppendFacts
<1>3. /\ \A m \in 1..Len(s.writes) : m \in 1..Len(t.writes)
      /\ \A j \in 1..Len(s.calls) : j \in 1..Len(t.calls)
      /\ Len(s.writes) + 1 \in 1..Len(t.writes) /\ Len(s.calls) + 1 \in 1..Len(t.calls)
  BY <1>1, <1>2
<1>4. \A j \in 1..Len(s.calls) : \E m \in 1..Len(s.writes) : s.writes[m] = s.calls[j]
  BY DEF SessionOk
<1>5. \A j \in 1..Len(t.calls) : \E m \in 1..Len(t.writes) : t.writes[m] = t.calls[j]
  BY <1>1, <1>2, <1>3, <1>4
<1>6. \A m \in 1..Len(t.writes) : req[t.writes[m]].kind \in Mutating =>
         \E j \in 1..Len(t.calls) : t.calls[j] = t.writes[m]
  <2> SUFFICES ASSUME NEW m \in 1..Len(t.writes), req[t.writes[m]].kind \in Mutating
               PROVE  \E j \in 1..Len(t.calls) : t.calls[j] = t.writes[m]
    OBVIOUS
  <2>1. CASE m \in 1..Len(s.writes)
    <3>1. PICK j \in 1..Len(s.calls) : s.calls[j] = s.writes[m]
      BY <1>1, <2>1 DEF SessionOk
    <3> QED
      BY <1>1, <1>2, <1>3, <2>1, <3>1
  <2>2. CASE m = Len(s.writes) + 1
    BY <1>1, <1>2, <1>3, <2>2
  <2> QED
    BY <1>1, <2>1, <2>2
<1>7. \A k \in 1..Len(s.scopes) : Cut(t, s.scopes[k].calls, s.marks[k])
  <2> SUFFICES ASSUME NEW k \in 1..Len(s.scopes) PROVE Cut(t, s.scopes[k].calls, s.marks[k])
    OBVIOUS
  <2>1. Cut(s, s.scopes[k].calls, s.marks[k])
    BY DEF SessionOk
  <2> QED
    BY <1>4, <2>1, CutAppend
<1> QED
  BY <1>5, <1>6, <1>7 DEF SessionOk

\* A Mutation callback writes; its own mark stays the last.
LEMMA CompanionOk ==
    ASSUME NEW s \in Session, SessionOk(s), s.local # 0, NEW i \in Id, ~Written(s, i),
           s.local # i, req[i].kind \notin Mutating,
           NEW t \in Session, t.writes = Append(s.writes, i), t.calls = s.calls,
           t.marks = s.marks, t.scopes = s.scopes, t.local = s.local
    PROVE  SessionOk(t)
<1>1. /\ Len(t.writes) = Len(s.writes) + 1 /\ t.writes[Len(s.writes) + 1] = i
      /\ \A m \in 1..Len(s.writes) : t.writes[m] = s.writes[m]
      /\ \A m \in 1..Len(t.writes) : m \in 1..Len(s.writes) \/ m = Len(s.writes) + 1
      /\ Len(s.writes) \in Nat
  BY SessionFacts, AppendFacts
<1>2. \A m \in 1..Len(s.writes) : m \in 1..Len(t.writes)
  BY <1>1
<1>3. \A j \in 1..Len(s.calls) : \E m \in 1..Len(s.writes) : s.writes[m] = s.calls[j]
  BY DEF SessionOk
<1>4. \A j \in 1..Len(t.calls) : \E m \in 1..Len(t.writes) : t.writes[m] = t.calls[j]
  BY <1>1, <1>2, <1>3
<1>5. \A m \in 1..Len(t.writes) : req[t.writes[m]].kind \in Mutating =>
         \E j \in 1..Len(t.calls) : t.calls[j] = t.writes[m]
  BY <1>1 DEF SessionOk
<1>6. ASSUME NEW c, NEW w, Cut(s, c, w) PROVE Cut(t, c, w)
  BY <1>3, <1>6, CutAppend
<1>7. /\ \A k \in 1..Len(t.scopes) : Cut(t, t.scopes[k].calls, t.marks[k])
      /\ Cut(t, Len(t.calls), t.marks[Len(t.marks)])
  BY <1>6 DEF SessionOk
<1>8. \A m \in 1..Len(t.writes) : t.writes[m] # t.local
  BY <1>1 DEF SessionOk
<1> QED
  BY <1>4, <1>5, <1>7, <1>8 DEF SessionOk

\* A savepoint opens, or a Mutation callback begins: it marks the writes.
LEMMA MarkedOk ==
    ASSUME NEW s \in Session, SessionOk(s), s.local = 0,
           NEW t \in Session, t.writes = s.writes, t.calls = s.calls,
           t.marks = Append(s.marks, Len(s.writes)),
           \/ /\ t.local = 0
              /\ \E p \in Scope : p.calls = Len(s.calls) /\ t.scopes = Append(s.scopes, p)
           \/ t.local # 0 /\ t.scopes = s.scopes /\ ~Written(s, t.local)
    PROVE  SessionOk(t)
<1>1. Len(s.writes) \in Nat /\ Len(s.calls) \in Nat /\ Len(s.marks) = Len(s.scopes)
  BY SessionFacts DEF SessionOk
<1>2. /\ Len(t.marks) = Len(s.marks) + 1 /\ t.marks[Len(s.marks) + 1] = Len(s.writes)
      /\ \A k \in 1..Len(s.marks) : t.marks[k] = s.marks[k]
      /\ \A k \in 1..Len(t.marks) : k \in 1..Len(s.marks) \/ k = Len(s.marks) + 1
      /\ Len(s.marks) \in Nat
  BY <1>1, SessionFacts, AppendFacts
<1>3. Cut(t, Len(t.calls), Len(t.writes))
  <2>1. \A j \in 1..Len(t.calls) : j <= Len(t.calls)
    BY <1>1
  <2>2. \A m \in 1..Len(t.writes) : m <= Len(t.writes)
    BY <1>1
  <2>3. Len(t.calls) \in 0..Len(t.calls) /\ Len(t.writes) \in 0..Len(t.writes)
    BY <1>1
  <2> QED
    BY <2>1, <2>2, <2>3 DEF Cut
<1>4. \A k \in 1..Len(s.scopes) : Cut(t, s.scopes[k].calls, t.marks[k])
  <2> SUFFICES ASSUME NEW k \in 1..Len(s.scopes) PROVE Cut(t, s.scopes[k].calls, t.marks[k])
    OBVIOUS
  <2>1. Cut(s, s.scopes[k].calls, s.marks[k]) /\ t.marks[k] = s.marks[k]
    BY <1>1, <1>2 DEF SessionOk
  <2> QED
    BY <2>1, CutSame
<1>5. \A k \in 1..Len(s.marks) : s.marks[k] <= Len(s.writes) /\ s.scopes[k].calls <= Len(s.calls)
  BY <1>1 DEF SessionOk, Cut
<1>6. \A k, l \in 1..Len(t.marks) : k <= l => t.marks[k] <= t.marks[l]
  <2> SUFFICES ASSUME NEW k \in 1..Len(t.marks), NEW l \in 1..Len(t.marks), k <= l
               PROVE  t.marks[k] <= t.marks[l]
    OBVIOUS
  <2>1. CASE k \in 1..Len(s.marks) /\ l \in 1..Len(s.marks)
    BY <1>2, <2>1 DEF SessionOk
  <2>2. CASE k \in 1..Len(s.marks) /\ l = Len(s.marks) + 1
    BY <1>2, <1>5, <2>2
  <2>3. CASE k = Len(s.marks) + 1
    BY <1>1, <1>2, <2>3
  <2> QED
    BY <1>2, <2>1, <2>2, <2>3
<1>7. /\ \A j \in 1..Len(t.calls) : \E m \in 1..Len(t.writes) : t.writes[m] = t.calls[j]
      /\ \A m \in 1..Len(t.writes) : req[t.writes[m]].kind \in Mutating =>
            \E j \in 1..Len(t.calls) : t.calls[j] = t.writes[m]
  BY DEF SessionOk
<1>8. CASE t.local = 0
  <2>1. PICK p \in Scope : p.calls = Len(s.calls) /\ t.scopes = Append(s.scopes, p)
    BY <1>8
  <2>2. /\ Len(t.scopes) = Len(s.scopes) + 1 /\ t.scopes[Len(s.scopes) + 1] = p
        /\ \A k \in 1..Len(s.scopes) : t.scopes[k] = s.scopes[k]
        /\ \A k \in 1..Len(t.scopes) : k \in 1..Len(s.scopes) \/ k = Len(s.scopes) + 1
        /\ Len(s.scopes) \in Nat
    BY <2>1, SessionFacts, AppendFacts
  <2>3. \A k \in 1..Len(t.scopes) : Cut(t, t.scopes[k].calls, t.marks[k])
    <3> SUFFICES ASSUME NEW k \in 1..Len(t.scopes) PROVE Cut(t, t.scopes[k].calls, t.marks[k])
      OBVIOUS
    <3>1. CASE k \in 1..Len(s.scopes)
      BY <1>4, <2>2, <3>1
    <3>2. CASE k = Len(s.scopes) + 1
      BY <1>1, <1>2, <1>3, <2>1, <2>2, <3>2
    <3> QED
      BY <2>2, <3>1, <3>2
  <2>4. \A k, l \in 1..Len(t.scopes) : k <= l => t.scopes[k].calls <= t.scopes[l].calls
    <3> SUFFICES ASSUME NEW k \in 1..Len(t.scopes), NEW l \in 1..Len(t.scopes), k <= l
                 PROVE  t.scopes[k].calls <= t.scopes[l].calls
      OBVIOUS
    <3>1. CASE k \in 1..Len(s.scopes) /\ l \in 1..Len(s.scopes)
      BY <2>2, <3>1 DEF SessionOk
    <3>2. CASE k \in 1..Len(s.scopes) /\ l = Len(s.scopes) + 1
      BY <1>1, <1>5, <2>1, <2>2, <3>2
    <3>3. CASE k = Len(s.scopes) + 1
      <4>1. l = Len(s.scopes) + 1
        BY <2>2, <3>3
      <4> QED
        BY <1>1, <2>1, <2>2, <3>3, <4>1
    <3> QED
      BY <2>2, <3>1, <3>2, <3>3
  <2>5. Len(t.marks) = Len(t.scopes)
    BY <1>1, <1>2, <2>2
  <2> QED
    BY <1>6, <1>7, <1>8, <2>3, <2>4, <2>5 DEF SessionOk
<1>9. CASE t.local # 0
  <2>1. t.scopes = s.scopes /\ ~Written(s, t.local)
    BY <1>9
  <2>2. /\ Cut(t, Len(t.calls), t.marks[Len(t.marks)])
        /\ \A m \in 1..Len(t.writes) : t.writes[m] # t.local
    BY <1>2, <1>3, <2>1 DEF Written
  <2>3. /\ \A k, l \in 1..Len(t.scopes) : k <= l => t.scopes[k].calls <= t.scopes[l].calls
        /\ \A k \in 1..Len(t.scopes) : Cut(t, t.scopes[k].calls, t.marks[k])
    BY <1>4, <2>1 DEF SessionOk
  <2>4. Len(t.marks) = Len(t.scopes) + 1
    BY <1>1, <1>2, <2>1
  <2> QED
    BY <1>6, <1>7, <1>9, <2>2, <2>3, <2>4 DEF SessionOk
<1> QED
  BY <1>8, <1>9

\* What a session wrote behind a position is undone, with the calls it
\* recorded behind the position of the same cut.
LEMMA RolledBackOk ==
    ASSUME NEW s \in Session, SessionOk(s), NEW t \in Session, NEW c, NEW w, Cut(s, c, w),
           t.calls = Prefix(s.calls, c), t.writes = Prefix(s.writes, w),
           t.marks = Front(s.marks), s.marks # <<>>, w = Last(s.marks), t.local = 0,
           \/ s.local = 0 /\ t.scopes = Front(s.scopes) /\ c = Last(s.scopes).calls
           \/ s.local # 0 /\ t.scopes = s.scopes /\ c = Len(s.calls)
    PROVE  SessionOk(t)
<1>1. /\ Len(s.writes) \in Nat /\ Len(s.calls) \in Nat /\ Len(s.marks) \in Nat
      /\ s.calls \in Seq(Id) /\ s.writes \in Seq(Id) /\ s.marks \in Seq(Nat)
      /\ s.scopes \in Seq(Scope) /\ c \in 0..Len(s.calls) /\ w \in 0..Len(s.writes)
  BY SessionFacts DEF Cut
<1>2. /\ Len(t.calls) = c
      /\ \A j \in 1..c : t.calls[j] = s.calls[j] /\ j \in 1..Len(s.calls)
  <2> DEFINE q == s.calls
  <2>1. q \in Seq(Id) /\ c \in 0..Len(q)
    BY <1>1
  <2> HIDE DEF q
  <2>2. /\ Len(Prefix(q, c)) = c
        /\ \A j \in 1..c : Prefix(q, c)[j] = q[j] /\ j \in 1..Len(q)
    BY <2>1, PrefixFacts
  <2>3. /\ Len(Prefix(s.calls, c)) = c
        /\ \A j \in 1..c : Prefix(s.calls, c)[j] = s.calls[j] /\ j \in 1..Len(s.calls)
    BY <2>2 DEF q
  <2> QED
    BY <2>3
<1>3. /\ Len(t.writes) = w
      /\ \A m \in 1..w : t.writes[m] = s.writes[m] /\ m \in 1..Len(s.writes)
  <2> DEFINE q == s.writes
  <2>1. q \in Seq(Id) /\ w \in 0..Len(q)
    BY <1>1
  <2> HIDE DEF q
  <2>2. /\ Len(Prefix(q, w)) = w
        /\ \A m \in 1..w : Prefix(q, w)[m] = q[m] /\ m \in 1..Len(q)
    BY <2>1, PrefixFacts
  <2>3. /\ Len(Prefix(s.writes, w)) = w
        /\ \A m \in 1..w : Prefix(s.writes, w)[m] = s.writes[m] /\ m \in 1..Len(s.writes)
    BY <2>2 DEF q
  <2> QED
    BY <2>3
<1>4. Len(s.marks) # 0
  BY <1>1, EmptySeq
<1>5. /\ Len(t.marks) = Len(s.marks) - 1 /\ w = s.marks[Len(s.marks)]
      /\ Len(s.marks) \in 1..Len(s.marks)
      /\ \A k \in 1..Len(t.marks) : t.marks[k] = s.marks[k] /\ k \in 1..Len(s.marks)
  <2>1. /\ Len(Front(s.marks)) = Len(s.marks) - 1 /\ Last(s.marks) = s.marks[Len(s.marks)]
        /\ Len(s.marks) \in 1..Len(s.marks)
        /\ \A k \in 1..Len(s.marks) - 1 : Front(s.marks)[k] = s.marks[k] /\ k \in 1..Len(s.marks)
    BY <1>1, <1>4, FrontFacts
  <2> QED
    BY <2>1
<1>6. /\ Len(t.marks) = Len(t.scopes) /\ \A k \in 1..Len(t.scopes) : k \in 1..Len(s.scopes)
      /\ \A k \in 1..Len(t.scopes) : t.scopes[k] = s.scopes[k] /\ s.scopes[k].calls <= c
  <2>1. CASE s.local = 0
    <3>1. Len(s.scopes) = Len(s.marks) /\ t.scopes = Front(s.scopes) /\ c = Last(s.scopes).calls
      BY <2>1 DEF SessionOk
    <3>2. /\ Len(t.scopes) = Len(s.scopes) - 1 /\ c = s.scopes[Len(s.scopes)].calls
          /\ Len(s.scopes) \in 1..Len(s.scopes)
          /\ \A k \in 1..Len(t.scopes) : t.scopes[k] = s.scopes[k] /\ k \in 1..Len(s.scopes)
      <4>1. /\ Len(Front(s.scopes)) = Len(s.scopes) - 1
            /\ Last(s.scopes) = s.scopes[Len(s.scopes)] /\ Len(s.scopes) \in 1..Len(s.scopes)
            /\ \A k \in 1..Len(s.scopes) - 1 :
                  Front(s.scopes)[k] = s.scopes[k] /\ k \in 1..Len(s.scopes)
        BY <1>1, <1>4, <3>1, FrontFacts
      <4> QED
        BY <3>1, <4>1
    <3>3. \A k \in 1..Len(t.scopes) : k <= Len(s.scopes)
      BY <1>1, <3>2
    <3>4. \A k \in 1..Len(t.scopes) : s.scopes[k].calls <= c
      BY <3>2, <3>3 DEF SessionOk
    <3> QED
      BY <1>5, <3>1, <3>2, <3>4
  <2>2. CASE s.local # 0
    <3>1. Len(s.marks) = Len(s.scopes) + 1 /\ t.scopes = s.scopes /\ c = Len(s.calls)
      BY <2>2 DEF SessionOk
    <3>2. \A k \in 1..Len(s.scopes) : s.scopes[k].calls <= c
      BY <3>1 DEF SessionOk, Cut
    <3>3. Len(t.marks) = Len(t.scopes)
      BY <1>1, <1>5, <3>1, SessionFacts
    <3> QED
      BY <3>1, <3>2, <3>3
  <2> QED
    BY <2>1, <2>2
<1>7. \A k \in 1..Len(t.marks) : s.marks[k] <= w
  <2>1. \A k \in 1..Len(t.marks) : k <= Len(s.marks)
    BY <1>1, <1>5
  <2> QED
    BY <1>5, <2>1 DEF SessionOk
<1>8. \A k \in 1..Len(t.scopes) : Cut(t, t.scopes[k].calls, t.marks[k])
  <2> SUFFICES ASSUME NEW k \in 1..Len(t.scopes) PROVE Cut(t, t.scopes[k].calls, t.marks[k])
    OBVIOUS
  <2>1. /\ k \in 1..Len(s.scopes) /\ t.scopes[k] = s.scopes[k] /\ s.scopes[k].calls <= c
        /\ t.marks[k] = s.marks[k] /\ s.marks[k] <= w
    BY <1>5, <1>6, <1>7
  <2>2. Cut(s, s.scopes[k].calls, s.marks[k])
    BY <2>1 DEF SessionOk
  <2>3. Cut(t, s.scopes[k].calls, s.marks[k])
    BY <1>1, <2>1, <2>2, CutPrefix
  <2> QED
    BY <2>1, <2>3
<1>9. ASSUME NEW j \in 1..Len(t.calls)
      PROVE  \E m \in 1..Len(t.writes) : t.writes[m] = t.calls[j]
  <2>1. j \in 1..Len(s.calls) /\ t.calls[j] = s.calls[j] /\ j <= c
    BY <1>1, <1>2
  <2>2. PICK m \in 1..Len(s.writes) : s.writes[m] = s.calls[j]
    BY <2>1 DEF SessionOk
  <2>3. m <= w
    BY <2>1, <2>2 DEF Cut
  <2>4. m \in 1..Len(t.writes)
    BY <1>1, <1>3, <2>3
  <2> QED
    BY <1>3, <2>1, <2>2, <2>4
<1>10. ASSUME NEW m \in 1..Len(t.writes), req[t.writes[m]].kind \in Mutating
       PROVE  \E j \in 1..Len(t.calls) : t.calls[j] = t.writes[m]
  <2>1. m \in 1..Len(s.writes) /\ t.writes[m] = s.writes[m] /\ m <= w
    BY <1>1, <1>3
  <2>2. PICK j \in 1..Len(s.calls) : s.calls[j] = s.writes[m]
    BY <1>10, <2>1 DEF SessionOk
  <2>3. j <= c
    BY <2>1, <2>2 DEF Cut
  <2>4. j \in 1..Len(t.calls)
    BY <1>1, <1>2, <2>3
  <2> QED
    BY <1>2, <2>1, <2>2, <2>4
<1>11. /\ \A k, l \in 1..Len(t.scopes) : k <= l => t.scopes[k].calls <= t.scopes[l].calls
       /\ \A k, l \in 1..Len(t.marks) : k <= l => t.marks[k] <= t.marks[l]
  <2>1. \A k, l \in 1..Len(t.scopes) : k <= l => t.scopes[k].calls <= t.scopes[l].calls
    BY <1>6 DEF SessionOk
  <2>2. \A k, l \in 1..Len(t.marks) : k <= l => t.marks[k] <= t.marks[l]
    BY <1>5 DEF SessionOk
  <2> QED
    BY <2>1, <2>2
<1> QED
  BY <1>6, <1>8, <1>9, <1>10, <1>11 DEF SessionOk

\* A savepoint is released: its mark goes, its writes stay.
LEMMA ReleasedOk ==
    ASSUME NEW s \in Session, SessionOk(s), NEW t \in Session, s.local = 0, t.local = 0,
           s.scopes # <<>>, t.scopes = Front(s.scopes), t.marks = Front(s.marks),
           t.writes = s.writes, t.calls = s.calls
    PROVE  SessionOk(t)
<1>1. /\ Len(s.marks) = Len(s.scopes) /\ Len(s.scopes) \in Nat
      /\ s.marks \in Seq(Nat) /\ s.scopes \in Seq(Scope)
  BY SessionFacts DEF SessionOk
<1>2. Len(s.scopes) # 0
  BY <1>1, EmptySeq
<1>3. /\ Len(t.scopes) = Len(s.scopes) - 1
      /\ \A k \in 1..Len(t.scopes) : t.scopes[k] = s.scopes[k] /\ k \in 1..Len(s.scopes)
  <2>1. /\ Len(Front(s.scopes)) = Len(s.scopes) - 1
        /\ \A k \in 1..Len(s.scopes) - 1 : Front(s.scopes)[k] = s.scopes[k] /\ k \in 1..Len(s.scopes)
    BY <1>1, <1>2, FrontFacts
  <2> QED
    BY <2>1
<1>4. /\ Len(t.marks) = Len(s.marks) - 1
      /\ \A k \in 1..Len(t.marks) : t.marks[k] = s.marks[k] /\ k \in 1..Len(s.marks)
  <2>1. /\ Len(Front(s.marks)) = Len(s.marks) - 1
        /\ \A k \in 1..Len(s.marks) - 1 : Front(s.marks)[k] = s.marks[k] /\ k \in 1..Len(s.marks)
    BY <1>1, <1>2, FrontFacts
  <2> QED
    BY <2>1
<1>5. \A k \in 1..Len(t.scopes) : Cut(t, t.scopes[k].calls, t.marks[k])
  <2> SUFFICES ASSUME NEW k \in 1..Len(t.scopes) PROVE Cut(t, t.scopes[k].calls, t.marks[k])
    OBVIOUS
  <2>1. Cut(s, s.scopes[k].calls, s.marks[k]) /\ t.scopes[k] = s.scopes[k] /\ t.marks[k] = s.marks[k]
    BY <1>1, <1>3, <1>4 DEF SessionOk
  <2> QED
    BY <2>1, CutSame
<1>6. \A k, l \in 1..Len(t.scopes) : k <= l => t.scopes[k].calls <= t.scopes[l].calls
  BY <1>3 DEF SessionOk
<1>7. \A k, l \in 1..Len(t.marks) : k <= l => t.marks[k] <= t.marks[l]
  BY <1>4 DEF SessionOk
<1>8. /\ \A j \in 1..Len(t.calls) : \E m \in 1..Len(t.writes) : t.writes[m] = t.calls[j]
      /\ \A m \in 1..Len(t.writes) : req[t.writes[m]].kind \in Mutating =>
            \E j \in 1..Len(t.calls) : t.calls[j] = t.writes[m]
  BY DEF SessionOk
<1> QED
  BY <1>1, <1>3, <1>4, <1>5, <1>6, <1>7, <1>8 DEF SessionOk

\* The session is like another in what the invariant speaks of.
LEMMA SameOk ==
    ASSUME NEW s, NEW t, SessionOk(s), t.writes = s.writes, t.calls = s.calls,
           t.marks = s.marks, t.scopes = s.scopes, t.local = s.local
    PROVE  SessionOk(t)
  BY CutSame DEF SessionOk

\* An empty session keeps it.
LEMMA EmptyOk ==
    ASSUME NEW t, t.writes = <<>>, t.calls = <<>>, t.marks = <<>>, t.scopes = <<>>, t.local = 0
    PROVE  SessionOk(t)
  BY DEF SessionOk

----------------------------------------------------------------------------
(***************************************************************************)
(* What every step of the worker has in common: it takes the first input,  *)
(* or drops them all at the end, and publishes the events es.              *)
(***************************************************************************)
Takes == wk.up /\ mail # <<>> /\ mail' \in {Tail(mail), <<>>}
AppStays == UNCHANGED <<issued, req, handle, task, bridge>>
Publishes(es) == Queue(es) /\ out' = out \o es

\* The input is the command of request i.
Runs(i) == Head(mail).type = "command" /\ Head(mail).id = i

\* The session stays in order, and opens with the transaction task only.
SessionStep ==
    /\ wk' \in Session /\ SessionOk(wk') /\ (~wk'.up => ~wk'.open)
    /\ wk'.open /\ ~wk.open => Head(mail).type = "transaction"

\* A request the worker had nothing of is touched by its command alone.
TouchStep == \A i \in Id : Untouched(i) /\ ~Runs(i) => Untouched(i)'

\* Only an open session commits, and ends with it.  A commit is announced,
\* with every call it made durable, unless the worker panicked.
DurableStep(es) ==
    /\ durable' \in Committed /\ panics' \in Nat /\ panics' >= panics
    /\ durable'.committed => ~wk'.open
    /\ ~durable'.committed => durable'.writes = {}
    /\ ~wk.open => durable' = durable
    /\ durable' # durable /\ panics' = 0 =>
         /\ \E e \in Letters(es) : Says(e, "completed", 0, TRUE)
         /\ \A i \in Id : i \in durable'.writes /\ req[i].kind \in Mutating =>
              \E e \in Letters(es) : Says(e, "state", i, TRUE)

\* The events tell the truth about the state they are published from.
EventTrue(e) ==
    /\ e.type = "completed" => e.id <= issued
    /\ Says(e, "completed", 0, FALSE) => ~wk'.open /\ (~durable'.committed \/ panics' > 0)
    /\ e.type = "completed" /\ e.ok => e.id \notin durable'.writes
    /\ e.type = "state" /\ e.ok => e.id \in durable'.writes
    /\ e.type = "state" /\ ~e.ok => Dead(e.id)'
EventsTrue(es) ==
    /\ \A k \in 1..Len(es) : es[k].type = "end" => k = Len(es) /\ ~wk'.up
    /\ \A e \in Letters(es) : EventTrue(e)

\* What is left of the inbox.
LEMMA TakesFacts ==
    ASSUME AppTypes, OneSession, CommandsOnce, Takes
    PROVE  /\ Queue(mail') /\ Letters(mail') \subseteq Letters(mail)
           /\ Head(mail) \in Letters(mail) /\ Head(mail) \in Letter
           /\ Head(mail).type \in Addressed => Head(mail).id \in Id
           /\ \A k \in 1..Len(mail') : mail'[k] = mail[k + 1] /\ k + 1 \in 1..Len(mail)
           /\ \A e \in Letters(mail') : e.type # "transaction"
           /\ \A i \in Id : Runs(i) =>
                 \A e \in Letters(mail') : ~(e.type = "command" /\ e.id = i)
<1>1. Queue(mail) /\ mail # <<>>
  BY DEF AppTypes, Takes
<1>2. /\ Queue(Tail(mail)) /\ Head(mail) \in Letter /\ Head(mail) = mail[1]
      /\ Head(mail).type \in Addressed => Head(mail).id \in Id
      /\ Letters(mail) = {Head(mail)} \cup Letters(Tail(mail))
      /\ Len(mail) \in Nat /\ 1 \in 1..Len(mail)
      /\ \A k \in 1..Len(Tail(mail)) : Tail(mail)[k] = mail[k + 1] /\ k + 1 \in 1..Len(mail)
  BY <1>1, TailQueue
<1>3. ASSUME NEW e \in Letters(Tail(mail))
      PROVE  /\ e.type # "transaction"
             /\ \A i \in Id : Runs(i) => ~(e.type = "command" /\ e.id = i)
  <2>1. PICK k \in 1..Len(Tail(mail)) : e = Tail(mail)[k]
    BY DEF Letters
  <2>2. e = mail[k + 1] /\ k + 1 \in 1..Len(mail) /\ k + 1 # 1
    BY <1>2, <2>1
  <2>3. e.type # "transaction"
    BY <2>2 DEF OneSession
  <2>4. ASSUME NEW i \in Id, Runs(i), e.type = "command", e.id = i PROVE FALSE
    <3>1. mail[1].type = "command" /\ mail[1].id = i
      BY <1>2, <2>4 DEF Runs
    <3> QED
      BY <1>2, <2>2, <2>4, <3>1 DEF CommandsOnce
  <2> QED
    BY <2>3, <2>4
<1>4. CASE mail' = Tail(mail)
  BY <1>2, <1>3, <1>4
<1>5. CASE mail' = <<>>
  <2>1. Queue(<<>>) /\ Letters(<<>>) = {} /\ Len(<<>>) = 0
    BY ShortQueues
  <2> QED
    BY <1>2, <1>5, <2>1
<1> QED
  BY <1>4, <1>5 DEF Takes

\* A command is born when it is taken; nothing else changes that.
LEMMA TakesBirths ==
    ASSUME AppTypes, OneSession, CommandsOnce, Takes, AppStays
    PROVE  /\ ~Unopened'
           /\ \A i \in Id : Unborn(i)' => Unborn(i) /\ ~Runs(i)
           /\ \A i \in Id : Runs(i) => Unborn(i) /\ i <= issued
<1>1. /\ Letters(mail') \subseteq Letters(mail) /\ Head(mail) \in Letters(mail)
      /\ \A e \in Letters(mail') : e.type # "transaction"
      /\ \A i \in Id : Runs(i) => \A e \in Letters(mail') : ~(e.type = "command" /\ e.id = i)
  BY TakesFacts
<1>2. ~Unopened'
  BY <1>1 DEF Unopened, Letters
<1>3. \A i \in Id : Runs(i) => Unborn(i) /\ i <= issued
  BY <1>1 DEF Runs, Unborn, CommandsOnce
<1>4. ASSUME NEW i \in Id, Unborn(i)' PROVE Unborn(i) /\ ~Runs(i)
  <2>1. CASE i > issued
    <3>1. issued \in Nat /\ i \in Nat
      BY AppAssumption DEF AppTypes, Id
    <3> QED
      BY <1>3, <2>1, <3>1 DEF Unborn
  <2>2. CASE \E e \in Letters(mail') : e.type = "command" /\ e.id = i
    BY <1>1, <2>2 DEF Unborn
  <2>3. issued' = issued
    BY DEF AppStays
  <2> QED
    BY <1>4, <2>1, <2>2, <2>3 DEF Unborn, Letters
<1> QED
  BY <1>2, <1>3, <1>4

\* What the worker will never make durable stays so.
LEMMA DeadStays ==
    ASSUME AppTypes, OneSession, CommandsOnce, Takes, AppStays, TouchStep,
           NEW i \in Id, Dead(i)
    PROVE  Dead(i)'
<1>1. ~Unborn(i) /\ Untouched(i)
  BY DEF Dead, Takes
<1>2. ~Unborn(i)' /\ ~Runs(i)
  BY <1>1, TakesBirths
<1>3. Untouched(i)'
  BY <1>1, <1>2 DEF TouchStep
<1> QED
  BY <1>2, <1>3 DEF Dead, Untouched

\* The outbox after a step of the worker.
LEMMA PublishesFacts ==
    ASSUME AppTypes, NEW es, Publishes(es)
    PROVE  /\ Queue(out') /\ Letters(out') = Letters(out) \cup Letters(es)
           /\ Len(out') = Len(out) + Len(es) /\ Len(out) \in Nat /\ Len(es) \in Nat
           /\ \A k \in 1..Len(out) : out'[k] = out[k]
           /\ \A k \in 1..Len(es) : out'[Len(out) + k] = es[k]
  BY ConcatQueue DEF AppTypes, Publishes

\* The step keeps the parts of the invariant one by one.
LEMMA WorkerKeepsTypes ==
    ASSUME AppInv, Takes, AppStays, SessionStep, NEW es, DurableStep(es), Publishes(es)
    PROVE  AppTypes'
<1>1. AppTypes /\ OneSession /\ CommandsOnce
  BY DEF AppInv
<1>2. Queue(mail') /\ Queue(out')
  BY <1>1, TakesFacts, PublishesFacts
<1>3. wk' \in Session /\ durable' \in Committed /\ panics' \in Nat
  BY DEF SessionStep, DurableStep
<1>4. issued' = issued /\ req' = req /\ handle' = handle /\ task' = task
  BY DEF AppStays
<1>5. Queue(mail)' /\ Queue(out)'
  BY <1>2 DEF Queue, Letters
<1> QED
  BY <1>1, <1>3, <1>4, <1>5 DEF AppTypes, IsRequest

\* The task is taken first and once.
LEMMA WorkerKeepsSession ==
    ASSUME AppInv, Takes, AppStays, SessionStep, NEW es, DurableStep(es)
    PROVE  OneSession'
<1>1. AppTypes /\ OneSession /\ CommandsOnce
  BY DEF AppInv
<1>2. ~Unopened'
  BY <1>1, TakesBirths
<1>3. \A k \in 1..Len(mail') : mail'[k].type # "transaction"
  BY <1>2 DEF Unopened, Letters
<1>4. /\ durable'.committed => ~wk'.open
      /\ ~durable'.committed => durable'.writes = {}
      /\ ~wk'.up => ~wk'.open
  BY DEF DurableStep, SessionStep
<1> QED
  BY <1>2, <1>3, <1>4 DEF OneSession, Over

\* Before the end the worker was up, so the end is new.
LEMMA WorkerKeepsEnd ==
    ASSUME AppInv, Takes, AppStays, NEW es, Publishes(es), EventsTrue(es)
    PROVE  EndIsLast'
<1>1. AppTypes /\ EndIsLast /\ wk.up /\ bridge' = bridge
  BY DEF AppInv, Takes, AppStays
<1>2. /\ Len(out') = Len(out) + Len(es) /\ Len(out) \in Nat /\ Len(es) \in Nat
      /\ \A k \in 1..Len(out) : out'[k] = out[k]
      /\ \A k \in 1..Len(es) : out'[Len(out) + k] = es[k]
  BY <1>1, PublishesFacts
<1>3. bridge # "closed" /\ \A k \in 1..Len(out) : out[k].type # "end"
  BY <1>1 DEF EndIsLast
<1>4. ASSUME NEW k \in 1..Len(out'), out'[k].type = "end"
      PROVE  k = Len(out') /\ ~wk'.up
  <2>1. k \notin 1..Len(out)
    BY <1>2, <1>3, <1>4
  <2>2. k - Len(out) \in 1..Len(es) /\ k = Len(out) + (k - Len(out))
    BY <1>2, <2>1
  <2>3. es[k - Len(out)].type = "end"
    BY <1>2, <1>4, <2>2
  <2>4. k - Len(out) = Len(es) /\ ~wk'.up
    BY <2>2, <2>3 DEF EventsTrue
  <2> QED
    BY <1>2, <2>2, <2>4
<1> QED
  BY <1>1, <1>3, <1>4 DEF EndIsLast

\* The promise's answer is published with the end of the session.
LEMMA WorkerKeepsTask ==
    ASSUME AppInv, Takes, AppStays, SessionStep, NEW es, DurableStep(es), Publishes(es),
           EventsTrue(es)
    PROVE  TaskTold'
<1>1. /\ AppTypes /\ OneSession /\ CommandsOnce /\ TaskTold /\ task' = task
      /\ panics \in Nat /\ panics' \in Nat /\ panics' >= panics
  BY DEF AppInv, AppStays, AppTypes, DurableStep
<1>2. Letters(out') = Letters(out) \cup Letters(es)
  BY <1>1, PublishesFacts
<1>3. ~Unopened' /\ Head(mail) \in Letters(mail)
  BY <1>1, TakesBirths, TakesFacts
<1>4. ASSUME Over PROVE ~wk'.open /\ durable' = durable
  BY <1>3, <1>4 DEF Over, Unopened, SessionStep, DurableStep
<1>5. ASSUME task.promise = "rejected" \/ \E e \in Letters(out') : Says(e, "completed", 0, FALSE)
      PROVE  ~wk'.open /\ (~durable'.committed \/ panics' > 0)
  <2>1. CASE task.promise = "rejected" \/ Announced("completed", 0, FALSE)
    <3>1. Over /\ (~durable.committed \/ panics > 0)
      BY <1>1, <2>1 DEF TaskTold
    <3>2. ~wk'.open /\ durable' = durable
      BY <1>4, <3>1
    <3>3. panics > 0 => panics' > 0
      BY <1>1
    <3> QED
      BY <3>1, <3>2, <3>3
  <2>2. CASE \E e \in Letters(es) : Says(e, "completed", 0, FALSE)
    BY <2>2 DEF EventsTrue, EventTrue
  <2> QED
    BY <1>2, <1>5, <2>1, <2>2 DEF Announced
<1>6. ASSUME durable'.committed, panics' = 0
      PROVE  task.promise = "resolved" \/ \E e \in Letters(out') : Says(e, "completed", 0, TRUE)
  <2>1. panics = 0
    BY <1>1, <1>6
  <2>2. CASE durable' = durable
    BY <1>1, <1>2, <1>6, <2>1, <2>2 DEF TaskTold, Announced
  <2>3. CASE durable' # durable
    BY <1>2, <1>6, <2>3 DEF DurableStep
  <2> QED
    BY <2>2, <2>3
<1>7. \A ok : Announced("completed", 0, ok)' <=> \E e \in Letters(out') : Says(e, "completed", 0, ok)
  BY DEF Announced, Letters, Says
<1> QED
  BY <1>1, <1>3, <1>5, <1>6, <1>7 DEF TaskTold, Over

\* Commands are taken one by one.
LEMMA WorkerKeepsCommands ==
    ASSUME AppInv, Takes, AppStays, TouchStep, NEW es, Publishes(es), EventsTrue(es)
    PROVE  CommandsOnce'
<1>1. AppTypes /\ OneSession /\ CommandsOnce /\ issued' = issued
  BY DEF AppInv, AppStays
<1>2. /\ Letters(mail') \subseteq Letters(mail)
      /\ \A k \in 1..Len(mail') : mail'[k] = mail[k + 1] /\ k + 1 \in 1..Len(mail)
  BY <1>1, TakesFacts
<1>3. ASSUME NEW k \in 1..Len(mail'), NEW l \in 1..Len(mail'),
             mail'[k].type = "command", mail'[l].type = "command", mail'[k].id = mail'[l].id
      PROVE  k = l
  <2>1. k + 1 = l + 1
    BY <1>1, <1>2, <1>3 DEF CommandsOnce
  <2>2. Queue(mail')
    BY <1>1, TakesFacts
  <2>3. Len(mail') \in Nat
    BY <2>2, LenProperties DEF Queue
  <2> QED
    BY <2>1, <2>3
<1>4. \A e \in Letters(mail') : e.type = "command" => e.id <= issued
  BY <1>1, <1>2 DEF CommandsOnce
<1>5. \A i \in Id : Unborn(i)' => Untouched(i)'
  BY <1>1, TakesBirths DEF CommandsOnce, TouchStep
<1>6. \A e \in Letters(out') : e.type = "completed" => e.id <= issued
  BY <1>1, PublishesFacts DEF CommandsOnce, EventsTrue, EventTrue
<1> QED
  BY <1>1, <1>3, <1>4, <1>5, <1>6 DEF CommandsOnce, Letters

\* The calls are told the truth.
LEMMA WorkerKeepsCalls ==
    ASSUME AppInv, Takes, AppStays, TouchStep, NEW es, DurableStep(es), Publishes(es),
           EventsTrue(es)
    PROVE  CallsTold'
<1>1. /\ AppTypes /\ OneSession /\ CommandsOnce /\ CallsTold /\ handle' = handle
      /\ panics \in Nat /\ panics' \in Nat /\ panics' >= panics
  BY DEF AppInv, AppStays, AppTypes, DurableStep
<1>2. \A i \in Id : Dead(i) => Dead(i)'
  BY <1>1, DeadStays
<1>3. durable.writes \subseteq durable'.writes
  <2>1. CASE durable' = durable
    BY <2>1
  <2>2. CASE durable' # durable
    BY <1>1, <2>2 DEF DurableStep, OneSession, Over
  <2> QED
    BY <2>1, <2>2
<1>4. ASSUME NEW i \in Id
      PROVE  /\ handle[i] = "committed" => i \in durable'.writes
             /\ handle[i] = "rolledBack" => Dead(i)' \/ panics' > 0
  BY <1>1, <1>2, <1>3 DEF CallsTold
<1>5. ASSUME NEW e \in Letters(out'), e.type = "state"
      PROVE  /\ e.ok => e.id \in durable'.writes
             /\ ~e.ok => Dead(e.id)' \/ panics' > 0
  <2>1. Letters(out') = Letters(out) \cup Letters(es) /\ Queue(out')
    BY <1>1, PublishesFacts
  <2>2. e.id \in Id
    BY <1>5, <2>1 DEF Queue, Addressed
  <2>3. CASE e \in Letters(out)
    BY <1>1, <1>2, <1>3, <1>5, <2>2, <2>3 DEF CallsTold
  <2>4. CASE e \in Letters(es)
    BY <1>5, <2>4 DEF EventsTrue, EventTrue
  <2> QED
    BY <2>1, <2>3, <2>4
<1> QED
  BY <1>1, <1>4, <1>5 DEF CallsTold, Letters

\* A commit is published behind the answers to its calls.
LEMMA WorkerKeepsCommits ==
    ASSUME AppInv, AppStays, NEW es, DurableStep(es), Publishes(es), EventsTrue(es)
    PROVE  CommitFollows'
<1>1. /\ AppTypes /\ OneSession /\ CommitFollows /\ handle' = handle /\ req' = req
      /\ panics \in Nat /\ panics' \in Nat /\ panics' >= panics
  BY DEF AppInv, AppStays, AppTypes, DurableStep
<1>2. /\ Letters(out') = Letters(out) \cup Letters(es)
      /\ Len(out') = Len(out) + Len(es) /\ Len(out) \in Nat /\ Len(es) \in Nat
      /\ \A k \in 1..Len(out) : out'[k] = out[k]
      /\ \A k \in 1..Len(es) : out'[Len(out) + k] = es[k]
  BY <1>1, PublishesFacts
<1>3. SUFFICES ASSUME NEW i \in Id, i \in durable'.writes, panics' = 0, req[i].kind \in Mutating
               PROVE  /\ handle[i] = "provisional" =>
                            \E e \in Letters(out') : Says(e, "state", i, TRUE)
                      /\ \A k \in 1..Len(out') : Says(out'[k], "completed", i, TRUE) =>
                            \E l \in 1..Len(out') : k < l /\ Says(out'[l], "state", i, TRUE)
  BY <1>1 DEF CommitFollows, Announced, Letters, Says
<1>4. panics = 0
  BY <1>1, <1>3
<1>5. \A k \in 1..Len(out) : k \in 1..Len(out')
  BY <1>2
<1>6. ASSUME NEW k \in 1..Len(out'), Says(out'[k], "completed", i, TRUE)
      PROVE  k \in 1..Len(out)
  <2> SUFFICES ASSUME k \notin 1..Len(out) PROVE FALSE
    OBVIOUS
  <2>1. k - Len(out) \in 1..Len(es) /\ k = Len(out) + (k - Len(out))
    BY <1>2
  <2>2. out'[k] = es[k - Len(out)] /\ out'[k] \in Letters(es)
    BY <1>2, <2>1 DEF Letters
  <2> QED
    BY <1>3, <1>6, <2>2 DEF EventsTrue, EventTrue, Says
<1>7. CASE durable' = durable
  <2>1. /\ handle[i] = "provisional" => \E e \in Letters(out) : Says(e, "state", i, TRUE)
        /\ \A k \in 1..Len(out) : Says(out[k], "completed", i, TRUE) =>
              \E l \in 1..Len(out) : k < l /\ Says(out[l], "state", i, TRUE)
    BY <1>1, <1>3, <1>4, <1>7 DEF CommitFollows, Announced
  <2>2. ASSUME NEW k \in 1..Len(out'), Says(out'[k], "completed", i, TRUE)
        PROVE  \E l \in 1..Len(out') : k < l /\ Says(out'[l], "state", i, TRUE)
    <3>1. k \in 1..Len(out) /\ Says(out[k], "completed", i, TRUE)
      BY <1>2, <1>6, <2>2
    <3>2. PICK l \in 1..Len(out) : k < l /\ Says(out[l], "state", i, TRUE)
      BY <2>1, <3>1
    <3> QED
      BY <1>2, <1>5, <3>2
  <2> QED
    BY <1>2, <2>1, <2>2
<1>8. CASE durable' # durable
  <2>1. PICK e \in Letters(es) : Says(e, "state", i, TRUE)
    BY <1>3, <1>8 DEF DurableStep
  <2>2. PICK n \in 1..Len(es) : es[n] = e
    BY DEF Letters
  <2>3. Len(out) + n \in 1..Len(out') /\ \A k \in 1..Len(out) : k < Len(out) + n
    BY <1>2
  <2>4. Says(out'[Len(out) + n], "state", i, TRUE)
    BY <1>2, <2>1, <2>2
  <2> QED
    BY <1>2, <1>6, <2>1, <2>3, <2>4
<1> QED
  BY <1>7, <1>8

\* Every step of the worker keeps the invariant.
LEMMA WorkerKeepsInv ==
    ASSUME AppInv, Takes, AppStays, SessionStep, TouchStep,
           NEW es, DurableStep(es), Publishes(es), EventsTrue(es)
    PROVE  AppInv'
<1>1. AppTypes' /\ OneSession' /\ EndIsLast' /\ TaskTold'
  BY WorkerKeepsTypes, WorkerKeepsSession, WorkerKeepsEnd, WorkerKeepsTask
<1>2. CommandsOnce' /\ CallsTold' /\ CommitFollows'
  BY WorkerKeepsCommands, WorkerKeepsCalls, WorkerKeepsCommits
<1>3. SessionMatched'
  BY DEF SessionStep, AppStays, SessionMatched, SessionOk, Cut
<1>4. HandlesOfCalls'
  BY DEF AppInv, HandlesOfCalls, AppStays
<1> QED
  BY <1>1, <1>2, <1>3, <1>4 DEF AppInv

----------------------------------------------------------------------------
(***************************************************************************)
(* The worker's inputs, one by one.                                        *)
(***************************************************************************)

\* The session w holds nothing that wk did not hold, but for the request
\* whose command is run.
Touches(w) == \A i \in Id : ~Written(wk, i) /\ wk.local # i /\ ~Runs(i) =>
                              ~Written(w, i) /\ w.local # i

\* An answer that says nothing of a commit.
Plain(e, w) ==
    /\ e.type \in {"completed", "closed", "callback", "local"}
    /\ e.type = "completed" => e.id <= issued
    /\ e.type = "completed" /\ e.ok => wk.open
    /\ Says(e, "completed", 0, FALSE) => ~w.open /\ ~durable.committed

\* An open session has committed nothing, and its input is not the task.
LEMMA OpenFacts ==
    ASSUME AppInv
    PROVE  /\ wk \in Session /\ SessionOk(wk)
           /\ wk.open => ~durable.committed /\ durable.writes = {} /\ ~Unopened
           /\ Unopened => ~wk.open /\ ~durable.committed
  BY DEF AppInv, AppTypes, SessionMatched, OneSession, Over

\* The input that is taken, and what it names.
LEMMA InputFacts ==
    ASSUME AppInv, NEW type, Input(type)
    PROVE  /\ wk.up /\ mail # <<>> /\ Head(mail) \in Letters(mail) /\ Head(mail).type = type
           /\ Head(mail) \in Letter
           /\ type \in Addressed => Head(mail).id \in Id /\ Head(mail).id \in Fiber
           /\ type = "transaction" => Unopened
<1>1. Queue(mail) /\ mail # <<>> /\ wk.up /\ Head(mail).type = type
  BY DEF AppInv, AppTypes, Input
<1>2. /\ Head(mail) \in Letters(mail) /\ Head(mail) \in Letter
      /\ Head(mail).type \in Addressed => Head(mail).id \in Id
  BY <1>1, TailQueue
<1> QED
  BY <1>1, <1>2, AppAssumption DEF Unopened, Id, Fiber

\* A step that answers one input and commits nothing.
LEMMA PlainKeepsInv ==
    ASSUME AppInv, NEW type, Input(type), NEW w \in Session, NEW es, Queue(es), Handle(w, es),
           UNCHANGED <<durable, panics>>, SessionOk(w), w.up,
           w.open => wk.open \/ type = "transaction", Touches(w),
           \A e \in Letters(es) : Plain(e, w)
    PROVE  AppInv'
<1>1. mail' = Tail(mail) /\ wk' = w /\ out' = out \o es /\ UNCHANGED appVars
  BY DEF Handle
<1>2. Takes /\ AppStays /\ Publishes(es) /\ Head(mail).type = type /\ Head(mail) \in Letters(mail)
  BY <1>1, InputFacts DEF Takes, AppStays, Publishes, appVars
<1>3. durable \in Committed /\ panics \in Nat /\ durable' = durable /\ panics' = panics
  BY DEF AppInv, AppTypes
<1>4. SessionStep
  BY <1>1, <1>2 DEF SessionStep
<1>5. TouchStep
  <2> SUFFICES ASSUME NEW i \in Id, Untouched(i), ~Runs(i) PROVE Untouched(i)'
    BY DEF TouchStep
  <2>1. ~Written(w, i) /\ w.local # i /\ i \notin durable.writes
    BY DEF Touches, Untouched
  <2> QED
    BY <1>1, <1>3, <2>1 DEF Untouched, Written
<1>6. durable.committed => ~w.open
  <2>1. durable.committed => ~wk.open /\ ~Unopened
    BY DEF AppInv, OneSession, Over
  <2> QED
    BY <1>2, <2>1 DEF Unopened
<1>7. DurableStep(es)
  <2>1. ~durable.committed => durable.writes = {}
    BY DEF AppInv, OneSession
  <2>2. panics' >= panics
    BY <1>3
  <2> QED
    BY <1>1, <1>3, <1>6, <2>1, <2>2 DEF DurableStep
<1>8. EventsTrue(es)
  <2>1. ASSUME NEW e \in Letters(es) PROVE EventTrue(e) /\ e.type # "end"
    <3>1. Plain(e, w)
      OBVIOUS
    <3>2. e.type = "completed" /\ e.ok => e.id \notin durable.writes
      BY <3>1, OpenFacts DEF Plain
    <3>3. Says(e, "completed", 0, FALSE) => ~wk'.open /\ (~durable'.committed \/ panics' > 0)
      BY <1>1, <1>3, <3>1 DEF Plain
    <3> QED
      BY <1>3, <3>1, <3>2, <3>3 DEF Plain, EventTrue
  <2>2. \A k \in 1..Len(es) : es[k] \in Letters(es)
    BY DEF Letters
  <2> QED
    BY <2>1, <2>2 DEF EventsTrue
<1> QED
  BY <1>2, <1>4, <1>5, <1>7, <1>8, WorkerKeepsInv

\* The same with one event.
LEMMA AnswerKeepsInv ==
    ASSUME AppInv, NEW type, Input(type), NEW w \in Session, NEW e \in Letter, Handle(w, <<e>>),
           UNCHANGED <<durable, panics>>, SessionOk(w), w.up,
           w.open => wk.open \/ type = "transaction", Touches(w),
           e.type \in Addressed => e.id \in Id, Plain(e, w)
    PROVE  AppInv'
<1>1. Queue(<<e>>) /\ Letters(<<e>>) = {e}
  BY ShortQueues
<1> QED
  BY <1>1, PlainKeepsInv

\* A session that differs in flags only.
LEMMA FlagsFacts ==
    ASSUME AppInv, NEW w \in Session, w.writes = wk.writes, w.calls = wk.calls,
           w.marks = wk.marks, w.scopes = wk.scopes, w.local = wk.local
    PROVE  SessionOk(w) /\ Touches(w)
<1>1. SessionOk(w)
  BY OpenFacts, SameOk
<1>2. Touches(w)
  BY DEF Touches, Written
<1> QED
  BY <1>1, <1>2

\* open_transaction: the session begins, or the task fails.
LEMMA OpenTransactionKeepsInv == AppInv /\ OpenTransaction => AppInv'
<1> SUFFICES ASSUME AppInv, OpenTransaction PROVE AppInv'
  OBVIOUS
<1>1. Input("transaction") /\ UNCHANGED <<durable, panics>> /\ wk \in Session
  BY OpenFacts DEF OpenTransaction
<1>2. wk.up /\ ~wk.open /\ ~durable.committed /\ issued \in Nat /\ 0 <= issued /\ 0 \in Fiber
  BY <1>1, InputFacts, OpenFacts, AppAssumption DEF AppInv, AppTypes, Fiber
<1>3. CASE Handle([wk EXCEPT !.open = TRUE], <<Ev("callback", 0, TRUE)>>)
  <2> DEFINE w == [wk EXCEPT !.open = TRUE]
             e == Ev("callback", 0, TRUE)
  <2>1. /\ w \in Session /\ w.up /\ w.writes = wk.writes /\ w.calls = wk.calls
        /\ w.marks = wk.marks /\ w.scopes = wk.scopes /\ w.local = wk.local
    BY <1>1, <1>2 DEF Session
  <2>2. e \in Letter /\ e.type = "callback"
    BY <1>2 DEF Ev, Letter, LetterTypes
  <2>3. Handle(w, <<e>>)
    BY <1>3
  <2>4. Plain(e, w) /\ (e.type \in Addressed => e.id \in Id)
    BY <2>2 DEF Plain, Says, Addressed
  <2> HIDE DEF w, e
  <2>5. SessionOk(w) /\ Touches(w)
    BY <2>1, FlagsFacts
  <2> QED
    BY <1>1, <2>1, <2>2, <2>3, <2>4, <2>5, AnswerKeepsInv
<1>4. CASE Handle(wk, <<Ev("completed", 0, FALSE)>>)
  <2> DEFINE e == Ev("completed", 0, FALSE)
  <2>1. e \in Letter /\ Says(e, "completed", 0, FALSE)
    BY <1>2, EvFacts DEF LetterTypes
  <2>2. Handle(wk, <<e>>)
    BY <1>4
  <2> HIDE DEF e
  <2>3. Plain(e, wk) /\ (e.type \in Addressed => e.id \in Id)
    BY <1>2, <2>1 DEF Plain, Says, Addressed
  <2>4. SessionOk(wk) /\ Touches(wk)
    BY <1>1, FlagsFacts
  <2> QED
    BY <1>1, <1>2, <2>1, <2>2, <2>3, <2>4, AnswerKeepsInv
<1> QED
  BY <1>3, <1>4 DEF OpenTransaction

\* What is known of a command when it is run.
LEMMA CommandFacts ==
    ASSUME AppInv, Input("command"), NEW i, i = Head(mail).id
    PROVE  /\ i \in Id /\ i \in Fiber /\ i # 0 /\ i <= issued /\ Runs(i) /\ req[i].kind \in Kinds
           /\ ~Written(wk, i) /\ wk.local # i
<1>1. i \in Id /\ i \in Fiber /\ Head(mail) \in Letters(mail) /\ Head(mail).type = "command"
  BY InputFacts DEF Addressed
<1>2. i <= issued /\ Runs(i) /\ Unborn(i)
  BY <1>1 DEF AppInv, CommandsOnce, Runs, Unborn
<1>3. ~Written(wk, i) /\ wk.local # i
  BY <1>1, <1>2 DEF AppInv, CommandsOnce, Untouched
<1>4. i # 0
  BY <1>1, AppAssumption DEF Id
<1> QED
  BY <1>1, <1>2, <1>3, <1>4 DEF AppInv, AppTypes

\* A command that is refused or fails leaves the session but for its flags.
LEMMA RefuseKeepsInv ==
    ASSUME AppInv, Input("command"), NEW i, i = Head(mail).id, NEW w \in Session, Refuse(i, w),
           UNCHANGED <<durable, panics>>, w.up = wk.up, w.open = wk.open,
           w.writes = wk.writes, w.calls = wk.calls,
           w.marks = wk.marks, w.scopes = wk.scopes, w.local = wk.local
    PROVE  AppInv'
<1> DEFINE e == Ev("completed", i, FALSE)
<1>1. i \in Fiber /\ i # 0 /\ i <= issued
  BY CommandFacts
<1>2. /\ e \in Letter /\ e.type = "completed" /\ e.id = i /\ e.ok = FALSE
  BY <1>1, EvFacts DEF LetterTypes
<1>3. Handle(w, <<e>>)
  BY DEF Refuse
<1> HIDE DEF e
<1>4. Plain(e, w) /\ (e.type \in Addressed => e.id \in Id)
  BY <1>1, <1>2 DEF Plain, Says, Addressed
<1>5. SessionOk(w) /\ Touches(w)
  BY FlagsFacts
<1>6. w.up
  BY InputFacts
<1> QED
  BY <1>2, <1>3, <1>4, <1>5, <1>6, AnswerKeepsInv

\* What the engine does for a command keeps the session in order.
LEMMA ExecutedFacts ==
    ASSUME AppInv, Input("command"), NEW i, i = Head(mail).id, wk.open, Capable(i)
    PROVE  /\ Executed(i) \in Session /\ SessionOk(Executed(i)) /\ Touches(Executed(i))
           /\ Executed(i).up = wk.up /\ Executed(i).open = wk.open
<1>1. /\ wk \in Session /\ SessionOk(wk) /\ i \in Id /\ i \in Fiber /\ i # 0 /\ Runs(i)
      /\ req[i].kind \in Kinds /\ ~Written(wk, i) /\ wk.local # i
  BY OpenFacts, CommandFacts
<1>2. /\ wk.calls \in Seq(Id) /\ wk.writes \in Seq(Id) /\ wk.marks \in Seq(Nat)
      /\ wk.scopes \in Seq(Scope) /\ Len(wk.writes) \in Nat /\ Len(wk.calls) \in Nat
  BY <1>1, SessionFacts
<1>3. /\ Append(wk.writes, i) \in Seq(Id) /\ Append(wk.calls, i) \in Seq(Id)
      /\ Append(wk.marks, Len(wk.writes)) \in Seq(Nat)
  BY <1>1, <1>2, AppendFacts
<1>4. ASSUME NEW w, w.writes \in {wk.writes, Append(wk.writes, i)}, w.local \in {wk.local, i}
      PROVE  Touches(w)
  <2>1. /\ Len(Append(wk.writes, i)) = Len(wk.writes) + 1
        /\ \A k \in 1..Len(wk.writes) : Append(wk.writes, i)[k] = wk.writes[k]
        /\ Append(wk.writes, i)[Len(wk.writes) + 1] = i
        /\ \A k \in 1..Len(wk.writes) + 1 : k \in 1..Len(wk.writes) \/ k = Len(wk.writes) + 1
    BY <1>1, <1>2, AppendFacts
  <2> SUFFICES ASSUME NEW x \in Id, ~Written(wk, x), wk.local # x, ~Runs(x)
               PROVE  ~Written(w, x) /\ w.local # x
    BY DEF Touches
  <2>2. x # i
    BY <1>1
  <2>3. ASSUME NEW k \in 1..Len(w.writes) PROVE w.writes[k] # x
    BY <1>4, <2>1, <2>2 DEF Written
  <2> QED
    BY <1>4, <2>2, <2>3 DEF Written
<1>5. CASE req[i].kind = "submit"
  <2> DEFINE w == [wk EXCEPT !.writes = Append(@, i), !.calls = Append(@, i)]
  <2>1. Executed(i) = w
    BY <1>5 DEF Executed
  <2>2. /\ w \in Session /\ w.writes = Append(wk.writes, i) /\ w.calls = Append(wk.calls, i)
        /\ w.marks = wk.marks /\ w.scopes = wk.scopes /\ w.local = wk.local
        /\ w.up = wk.up /\ w.open = wk.open
    BY <1>1, <1>3 DEF Session
  <2>3. wk.local = 0
    BY <1>5 DEF Capable, Own
  <2> HIDE DEF w
  <2>4. SessionOk(w)
    BY <1>1, <2>2, <2>3, SubmittedOk
  <2>5. Touches(w)
    BY <1>4, <2>2
  <2> QED
    BY <2>1, <2>2, <2>4, <2>5
<1>6. CASE req[i].kind = "companion"
  <2> DEFINE w == [wk EXCEPT !.writes = Append(@, i)]
  <2>1. Executed(i) = w
    BY <1>6 DEF Executed
  <2>2. /\ w \in Session /\ w.writes = Append(wk.writes, i) /\ w.calls = wk.calls
        /\ w.marks = wk.marks /\ w.scopes = wk.scopes /\ w.local = wk.local
        /\ w.up = wk.up /\ w.open = wk.open
    BY <1>1, <1>3 DEF Session
  <2>3. wk.local # 0 /\ req[i].kind \notin Mutating
    BY <1>6 DEF Capable, Own, Mutating
  <2> HIDE DEF w
  <2>4. SessionOk(w)
    BY <1>1, <2>2, <2>3, CompanionOk
  <2>5. Touches(w)
    BY <1>4, <2>2
  <2> QED
    BY <2>1, <2>2, <2>4, <2>5
<1>7. CASE req[i].kind = "local"
  <2> DEFINE w == [wk EXCEPT !.marks = Append(@, Len(wk.writes)),
                             !.local = i, !.localFailure = FALSE]
  <2>1. Executed(i) = w
    BY <1>7 DEF Executed
  <2>2. /\ w \in Session /\ w.writes = wk.writes /\ w.calls = wk.calls
        /\ w.marks = Append(wk.marks, Len(wk.writes)) /\ w.scopes = wk.scopes /\ w.local = i
        /\ w.up = wk.up /\ w.open = wk.open
    BY <1>1, <1>3 DEF Session
  <2>3. wk.local = 0
    BY <1>7 DEF Capable, Own
  <2> HIDE DEF w
  <2>4. SessionOk(w)
    BY <1>1, <2>2, <2>3, MarkedOk
  <2>5. Touches(w)
    BY <1>4, <2>2
  <2> QED
    BY <2>1, <2>2, <2>4, <2>5
<1>8. CASE req[i].kind = "savepoint"
  <2> DEFINE p == [token |-> i, failure |-> wk.failure, calls |-> Len(wk.calls)]
             w == [wk EXCEPT !.marks = Append(@, Len(wk.writes)), !.scopes = Append(@, p)]
  <2>1. Executed(i) = w
    BY <1>8 DEF Executed
  <2>2. p \in Scope /\ p.calls = Len(wk.calls)
    BY <1>1, <1>2 DEF Scope, Session
  <2> HIDE DEF p
  <2>3. Append(wk.scopes, p) \in Seq(Scope)
    BY <1>2, <2>2, AppendFacts
  <2>4. /\ w \in Session /\ w.writes = wk.writes /\ w.calls = wk.calls
        /\ w.marks = Append(wk.marks, Len(wk.writes)) /\ w.scopes = Append(wk.scopes, p)
        /\ w.local = wk.local /\ w.up = wk.up /\ w.open = wk.open
    BY <1>1, <1>3, <2>3 DEF Session
  <2>5. wk.local = 0
    BY <1>8 DEF Capable, Own
  <2> HIDE DEF w
  <2>6. SessionOk(w)
    BY <1>1, <2>2, <2>4, <2>5, MarkedOk
  <2>7. Touches(w)
    BY <1>4, <2>4
  <2> QED
    BY <2>1, <2>4, <2>6, <2>7
<1> QED
  BY <1>1, <1>5, <1>6, <1>7, <1>8 DEF Kinds

\* run_command: refused, failed or executed.
LEMMA RunCommandKeepsInv == AppInv /\ RunCommand => AppInv'
<1> SUFFICES ASSUME AppInv, RunCommand PROVE AppInv'
  OBVIOUS
<1> DEFINE i == Head(mail).id
<1>1. Input("command") /\ UNCHANGED <<durable, panics>> /\ wk \in Session
  BY OpenFacts DEF RunCommand
<1>2. i \in Id /\ i \in Fiber /\ i # 0 /\ i <= issued
  BY <1>1, CommandFacts
<1>3. ASSUME NEW w, w \in {wk, Poisoned, [Poisoned EXCEPT !.localFailure = TRUE],
                           [wk EXCEPT !.localFailure = TRUE], [wk EXCEPT !.failure = TRUE]}
      PROVE  /\ w \in Session /\ w.up = wk.up /\ w.open = wk.open
             /\ w.writes = wk.writes /\ w.calls = wk.calls
             /\ w.marks = wk.marks /\ w.scopes = wk.scopes /\ w.local = wk.local
  BY <1>1, <1>3 DEF Session, Poisoned
<1>4. ASSUME NEW w, w \in {wk, Poisoned, [Poisoned EXCEPT !.localFailure = TRUE],
                           [wk EXCEPT !.localFailure = TRUE], [wk EXCEPT !.failure = TRUE]},
             Refuse(i, w)
      PROVE  AppInv'
  <2>1. /\ w \in Session /\ w.up = wk.up /\ w.open = wk.open
        /\ w.writes = wk.writes /\ w.calls = wk.calls
        /\ w.marks = wk.marks /\ w.scopes = wk.scopes /\ w.local = wk.local
    BY <1>3, <1>4
  <2> QED
    BY <1>1, <1>4, <2>1, RefuseKeepsInv
<1>5. ASSUME wk.open, Capable(i),
             Handle(Executed(i), <<Ev(IF req[i].kind = "local" THEN "local"
                                      ELSE "completed", i, TRUE)>>)
      PROVE  AppInv'
  <2> DEFINE t == IF req[i].kind = "local" THEN "local" ELSE "completed"
             e == Ev(t, i, TRUE)
  <2>1. t \in {"local", "completed"} /\ t \in LetterTypes
    BY DEF LetterTypes
  <2> HIDE DEF t
  <2>2. e \in Letter /\ e.type = t /\ e.id = i /\ e.ok = TRUE
    BY <1>2, <2>1, EvFacts
  <2>3. Handle(Executed(i), <<e>>)
    BY <1>5 DEF t
  <2> HIDE DEF e
  <2> DEFINE w == Executed(i)
  <2>4. w \in Session /\ SessionOk(w) /\ Touches(w) /\ w.up = wk.up /\ w.open = wk.open
    BY <1>1, <1>5, ExecutedFacts
  <2> HIDE DEF w
  <2>5. Plain(e, w) /\ (e.type \in Addressed => e.id \in Id)
    BY <1>2, <1>5, <2>1, <2>2 DEF Plain, Says
  <2>6. w.up
    BY <1>1, <2>4, InputFacts
  <2>7. Handle(w, <<e>>)
    BY <2>3 DEF w
  <2> QED
    BY <1>1, <2>2, <2>4, <2>5, <2>6, <2>7, <1>5, AnswerKeepsInv
<1>6. \/ \E w \in {wk, Poisoned, [Poisoned EXCEPT !.localFailure = TRUE],
                   [wk EXCEPT !.localFailure = TRUE], [wk EXCEPT !.failure = TRUE]} : Refuse(i, w)
      \/ wk.open /\ Capable(i) /\ Handle(Executed(i), <<Ev(IF req[i].kind = "local"
                                             THEN "local" ELSE "completed", i, TRUE)>>)
  BY DEF RunCommand
<1> QED
  BY <1>4, <1>5, <1>6

\* An answer to the command that closes a savepoint, in a session that
\* differs in flags only or has released it.
LEMMA ClosedAnswer ==
    ASSUME AppInv, NEW type, type \in {"release", "rollback"}, Input(type), NEW f, f = Head(mail).id,
           NEW ok \in BOOLEAN, NEW w \in Session, Handle(w, <<Ev("closed", f, ok)>>),
           UNCHANGED <<durable, panics>>, w.up = wk.up, w.open = wk.open,
           SessionOk(w), Touches(w)
    PROVE  AppInv'
<1> DEFINE e == Ev("closed", f, ok)
<1>1. f \in Id /\ f \in Fiber /\ wk.up
  BY InputFacts DEF Addressed
<1>2. e \in Letter /\ e.type = "closed" /\ e.id = f
  BY <1>1, EvFacts DEF LetterTypes
<1>3. Handle(w, <<e>>)
  OBVIOUS
<1> HIDE DEF e
<1>4. Plain(e, w) /\ (e.type \in Addressed => e.id \in Id)
  BY <1>1, <1>2 DEF Plain, Says
<1> QED
  BY <1>1, <1>2, <1>3, <1>4, AnswerKeepsInv

\* A savepoint command out of its scope poisons an open session.
LEMMA OutOfScopeKeepsInv ==
    ASSUME AppInv, NEW type, type \in {"release", "rollback"}, Input(type),
           UNCHANGED <<durable, panics>>,
           Handle(IF wk.open THEN Poisoned ELSE wk, <<Ev("closed", Head(mail).id, FALSE)>>)
    PROVE  AppInv'
<1> DEFINE w == IF wk.open THEN Poisoned ELSE wk
<1>1. wk \in Session
  BY OpenFacts
<1>2. /\ w \in Session /\ w.up = wk.up /\ w.open = wk.open
      /\ w.writes = wk.writes /\ w.calls = wk.calls
      /\ w.marks = wk.marks /\ w.scopes = wk.scopes /\ w.local = wk.local
  BY <1>1 DEF Session, Poisoned
<1>3. Handle(w, <<Ev("closed", Head(mail).id, FALSE)>>)
  OBVIOUS
<1> HIDE DEF w
<1>4. SessionOk(w) /\ Touches(w)
  BY <1>2, FlagsFacts
<1> QED
  BY <1>2, <1>3, <1>4, ClosedAnswer

\* The innermost savepoint of an open session.
LEMMA InScopeFacts ==
    ASSUME AppInv, NEW f \in Id, InScope(f)
    PROVE  /\ wk.open /\ wk.local = 0 /\ wk.scopes # <<>> /\ wk.marks # <<>>
           /\ Len(wk.scopes) # 0 /\ Len(wk.marks) # 0
           /\ Front(wk.scopes) \in Seq(Scope) /\ Front(wk.marks) \in Seq(Nat)
           /\ Last(wk.scopes) \in Scope
           /\ Cut(wk, Last(wk.scopes).calls, Last(wk.marks))
<1>1. wk \in Session /\ SessionOk(wk) /\ f # 0
  BY OpenFacts, AppAssumption DEF Id
<1>2. wk.open /\ wk.local = 0 /\ wk.scopes # <<>>
  BY <1>1 DEF InScope, Top
<1>3. /\ wk.scopes \in Seq(Scope) /\ wk.marks \in Seq(Nat) /\ Len(wk.marks) = Len(wk.scopes)
      /\ Len(wk.scopes) \in Nat
  BY <1>1, <1>2, SessionFacts DEF SessionOk
<1>4. Len(wk.scopes) # 0
  BY <1>2, <1>3, EmptySeq
<1>5. wk.marks # <<>>
  BY <1>3, <1>4, EmptySeq
<1>6. /\ Front(wk.scopes) \in Seq(Scope) /\ Last(wk.scopes) = wk.scopes[Len(wk.scopes)]
      /\ Last(wk.scopes) \in Scope /\ Len(wk.scopes) \in 1..Len(wk.scopes)
  BY <1>3, <1>4, FrontFacts
<1>7. Front(wk.marks) \in Seq(Nat) /\ Last(wk.marks) = wk.marks[Len(wk.marks)]
  BY <1>3, <1>4, FrontFacts
<1>8. Cut(wk, Last(wk.scopes).calls, Last(wk.marks))
  <2>1. Cut(wk, wk.scopes[Len(wk.scopes)].calls, wk.marks[Len(wk.scopes)])
    BY <1>1, <1>6 DEF SessionOk
  <2> QED
    BY <1>3, <1>6, <1>7, <2>1
<1> QED
  BY <1>2, <1>3, <1>4, <1>5, <1>6, <1>7, <1>8

\* The innermost scope is popped, whatever the engine answers: what was
\* written in it stays.
LEMMA PoppedKeepsInv ==
    ASSUME AppInv, NEW type, type \in {"release", "rollback"}, Input(type),
           UNCHANGED <<durable, panics>>, NEW f, f = Head(mail).id, InScope(f),
           NEW ok \in BOOLEAN, NEW w, w \in {Popped, [Popped EXCEPT !.failure = TRUE]},
           Handle(w, <<Ev("closed", f, ok)>>)
    PROVE  AppInv'
<1>1. wk \in Session /\ SessionOk(wk) /\ f \in Id
  BY OpenFacts, InputFacts DEF Addressed
<1>2. /\ wk.local = 0 /\ wk.scopes # <<>>
      /\ Front(wk.scopes) \in Seq(Scope) /\ Front(wk.marks) \in Seq(Nat)
  BY <1>1, InScopeFacts
<1>3. /\ w \in Session /\ w.up = wk.up /\ w.open = wk.open /\ w.local = wk.local
      /\ w.writes = wk.writes /\ w.calls = wk.calls
      /\ w.marks = Front(wk.marks) /\ w.scopes = Front(wk.scopes)
  <2>1. CASE w = Popped
    BY <1>1, <1>2, <2>1 DEF Session, Popped
  <2>2. CASE w = [Popped EXCEPT !.failure = TRUE]
    BY <1>1, <1>2, <2>2 DEF Session, Popped
  <2> QED
    BY <2>1, <2>2
<1>4. SessionOk(w)
  BY <1>1, <1>2, <1>3, ReleasedOk
<1>5. Touches(w)
  BY <1>3 DEF Touches, Written
<1> QED
  BY <1>3, <1>4, <1>5, ClosedAnswer

\* Release of the innermost savepoint.
LEMMA ReleaseScopeKeepsInv == AppInv /\ ReleaseScope => AppInv'
<1> SUFFICES ASSUME AppInv, ReleaseScope PROVE AppInv'
  OBVIOUS
<1> DEFINE f == Head(mail).id
<1>1. Input("release") /\ UNCHANGED <<durable, panics>>
  BY DEF ReleaseScope
<1>2. CASE InScope(f) /\ Handle(Popped, <<Ev("closed", f, TRUE)>>)
  BY <1>1, <1>2, PoppedKeepsInv
<1>3. CASE EngineFailed(f)
  BY <1>1, <1>3, PoppedKeepsInv DEF EngineFailed
<1>4. CASE OutOfScope(f)
  BY <1>1, <1>4, OutOfScopeKeepsInv DEF OutOfScope
<1> QED
  BY <1>2, <1>3, <1>4 DEF ReleaseScope

\* The worker has run the command of every call of its session.
LEMMA CallsBorn ==
    ASSUME AppInv, Takes, AppStays, NEW j \in 1..Len(wk.calls), NEW i, i = wk.calls[j]
    PROVE  i \in Id /\ ~Unborn(i)'
<1>1. wk \in Session /\ SessionOk(wk)
  BY OpenFacts
<1>2. i \in Id /\ Written(wk, i)
  BY <1>1, SessionFacts DEF SessionOk, Written
<1>3. ~Unborn(i)
  BY <1>2 DEF AppInv, CommandsOnce, Untouched
<1>4. ~Unborn(i)'
  BY <1>2, <1>3, TakesBirths DEF AppInv
<1> QED
  BY <1>2, <1>4

\* RollbackSavepoint of the innermost one: the calls behind it are announced
\* as rolled back, and none of their writes is left.
LEMMA RollbackScopeKeepsInv == AppInv /\ RollbackScope => AppInv'
<1> SUFFICES ASSUME AppInv, RollbackScope PROVE AppInv'
  OBVIOUS
<1> DEFINE f == Head(mail).id
<1>1. Input("rollback") /\ UNCHANGED <<durable, panics>> /\ wk \in Session /\ SessionOk(wk)
  BY OpenFacts DEF RollbackScope
<1>2. f \in Id /\ f \in Fiber /\ wk.up /\ mail # <<>>
  BY <1>1, InputFacts DEF Addressed
<1>3. CASE EngineFailed(f) \/ OutOfScope(f)
  <2>1. CASE EngineFailed(f)
    BY <1>1, <2>1, PoppedKeepsInv DEF EngineFailed
  <2>2. CASE OutOfScope(f)
    BY <1>1, <2>2, OutOfScopeKeepsInv DEF OutOfScope
  <2> QED
    BY <1>3, <2>1, <2>2
<1>4. CASE /\ InScope(f)
           /\ Handle(Undone(Last(wk.scopes)),
                     States(Suffix(wk.calls, Last(wk.scopes).calls), FALSE)
                        \o <<Ev("closed", f, TRUE)>>)
  <2> DEFINE s == Last(wk.scopes)
             c == s.calls
             b == Last(wk.marks)
             w == Undone(s)
             told == States(Suffix(wk.calls, c), FALSE)
             e == Ev("closed", f, TRUE)
             es == told \o <<e>>
  <2>1. /\ wk.open /\ wk.local = 0 /\ wk.scopes # <<>> /\ wk.marks # <<>> /\ s \in Scope
        /\ Front(wk.scopes) \in Seq(Scope) /\ Front(wk.marks) \in Seq(Nat)
        /\ Cut(wk, c, b)
    BY <1>2, <1>4, InScopeFacts
  <2>2. Handle(w, es)
    BY <1>4
  <2>3. c \in 0..Len(wk.calls) /\ b \in 0..Len(wk.writes)
    BY <2>1 DEF Cut
  <2>4. wk.calls \in Seq(Id) /\ wk.writes \in Seq(Id)
    BY <1>1, SessionFacts
  <2>5. Prefix(wk.calls, c) \in Seq(Id)
    BY <2>3, <2>4, PrefixFacts
  <2>6. /\ Prefix(wk.writes, b) \in Seq(Id) /\ Len(Prefix(wk.writes, b)) = b
        /\ \A m \in 1..b : Prefix(wk.writes, b)[m] = wk.writes[m] /\ m \in 1..Len(wk.writes)
    BY <2>3, <2>4, PrefixFacts
  <2>7. s.failure \in BOOLEAN
    BY <2>1 DEF Scope
  <2>8. /\ w \in Session /\ w.up = wk.up /\ w.open = wk.open /\ w.local = wk.local
        /\ w.writes = Prefix(wk.writes, b) /\ w.calls = Prefix(wk.calls, c)
        /\ w.marks = Front(wk.marks) /\ w.scopes = Front(wk.scopes)
    BY <1>1, <2>1, <2>5, <2>6, <2>7 DEF Session, Undone, Popped
  <2>9. /\ Suffix(wk.calls, c) \in Seq(Id)
        /\ \A k \in 1..Len(Suffix(wk.calls, c)) :
              /\ c + k \in 1..Len(wk.calls) /\ c < c + k
              /\ Suffix(wk.calls, c)[k] = wk.calls[c + k]
    BY <2>3, <2>4, SuffixFacts
  <2>10. /\ Queue(told)
         /\ \A x \in Letters(told) : x.type = "state" /\ x.ok = FALSE
               /\ \E k \in 1..Len(Suffix(wk.calls, c)) : x.id = Suffix(wk.calls, c)[k]
    BY <2>9, StatesFacts
  <2>11. e \in Letter /\ e.type = "closed" /\ e.id = f
    BY <1>2 DEF Ev, Letter, LetterTypes
  <2> HIDE DEF w, told, e
  <2>12. Queue(<<e>>) /\ Letters(<<e>>) = {e}
    BY <1>2, <2>11, ShortQueues
  <2>13. Queue(es) /\ Letters(es) = Letters(told) \cup {e}
    BY <2>10, <2>12, ConcatQueue
  <2> HIDE DEF es
  <2>14. SessionOk(w)
    <3> HIDE DEF s
    <3>1. w.local = 0
      BY <2>1, <2>8
    <3> QED
      BY <1>1, <2>1, <2>8, <3>1, RolledBackOk DEF s
  <2>15. mail' = Tail(mail) /\ wk' = w /\ out' = out \o es /\ UNCHANGED appVars
    BY <2>2 DEF Handle
  <2>16. Takes /\ AppStays /\ Publishes(es)
    BY <1>2, <2>13, <2>15 DEF Takes, AppStays, Publishes, appVars
  <2>17. /\ durable' = durable /\ panics' = panics /\ panics \in Nat /\ durable \in Committed
         /\ ~durable.committed /\ durable.writes = {}
    BY <1>1, <2>1, OpenFacts DEF AppInv, AppTypes
  <2>18. SessionStep
    BY <1>2, <2>1, <2>8, <2>14, <2>15 DEF SessionStep
  <2>19. ASSUME NEW i \in Id, ~Written(wk, i) PROVE ~Written(w, i)
    BY <2>6, <2>8, <2>19 DEF Written
  <2>20. TouchStep
    BY <2>8, <2>15, <2>17, <2>19 DEF TouchStep, Untouched, Written
  <2>21. DurableStep(es)
    <3>1. panics' >= panics
      BY <2>17
    <3> QED
      BY <2>1, <2>15, <2>17, <3>1 DEF DurableStep
  <2>22. ASSUME NEW x \in Letters(told) PROVE Dead(x.id)'
    <3>1. PICK k \in 1..Len(Suffix(wk.calls, c)) : x.id = Suffix(wk.calls, c)[k]
      BY <2>10
    <3>2. /\ c + k \in 1..Len(wk.calls) /\ c < c + k /\ x.id = wk.calls[c + k]
      BY <2>9, <3>1
    <3>3. x.id \in Id /\ ~Unborn(x.id)'
      BY <2>16, <3>2, CallsBorn
    <3>4. ~Written(w, x.id)
      <4> SUFFICES ASSUME NEW m \in 1..b, wk.writes[m] = x.id PROVE FALSE
        BY <2>6, <2>8 DEF Written
      <4>1. m \in 1..Len(wk.writes) /\ m <= b
        BY <2>3, <2>6
      <4>2. c + k <= c
        BY <2>1, <3>2, <4>1 DEF Cut
      <4>3. c \in Nat /\ Len(wk.calls) \in Nat
        BY <1>1, <2>3, SessionFacts
      <4> QED
        BY <2>3, <3>2, <4>2, <4>3
    <3>5. x.id # 0
      BY <3>3, AppAssumption DEF Id
    <3>6. Untouched(x.id)'
      BY <2>1, <2>8, <2>15, <2>17, <3>4, <3>5 DEF Untouched, Written
    <3> QED
      BY <3>3, <3>6 DEF Dead, Untouched
  <2>23. EventsTrue(es)
    <3>1. \A x \in Letters(es) : EventTrue(x) /\ x.type # "end"
      BY <2>10, <2>11, <2>13, <2>22 DEF EventTrue, Says
    <3>2. \A k \in 1..Len(es) : es[k] \in Letters(es)
      BY DEF Letters
    <3> QED
      BY <3>1, <3>2 DEF EventsTrue
  <2> QED
    BY <2>16, <2>18, <2>20, <2>21, <2>23, WorkerKeepsInv
<1> QED
  BY <1>3, <1>4 DEF RollbackScope

\* What is left of a session once it ended.
Ends(n) ==
    /\ n \in Session /\ ~n.open /\ n.local = 0
    /\ n.writes = <<>> /\ n.calls = <<>> /\ n.marks = <<>> /\ n.scopes = <<>>

\* The empty runtime, whatever its flags.
LEMMA EndsFacts ==
    /\ Ends([NoWorkerTx EXCEPT !.up = FALSE]) /\ ~[NoWorkerTx EXCEPT !.up = FALSE].up
    /\ \A b \in BOOLEAN : Ends([NoWorkerTx EXCEPT !.structural = b])
<1>1. 0 \in Fiber
  BY AppAssumption DEF Fiber
<1>2. NoWorkerTx \in Session
  BY <1>1, EmptySeq DEF NoWorkerTx, Session
<1>3. [NoWorkerTx EXCEPT !.up = FALSE] \in Session
  BY <1>2 DEF Session
<1>4. \A b \in BOOLEAN : [NoWorkerTx EXCEPT !.structural = b] \in Session
  BY <1>2 DEF Session
<1> QED
  BY <1>3, <1>4 DEF Ends, NoWorkerTx

\* The end of a session, for the session's own account.
LEMMA EndedSession ==
    ASSUME AppInv, NEW n, Ends(n), wk' = n,
           \/ durable' = durable
           \/ durable'.writes = {wk.writes[k] : k \in 1..Len(wk.writes)}
    PROVE  /\ SessionStep /\ TouchStep
           /\ \A i \in Id : i \notin durable'.writes => Untouched(i)'
<1>1. SessionOk(n)
  BY EmptyOk DEF Ends
<1>2. SessionStep
  BY <1>1 DEF SessionStep, Ends
<1>3. ASSUME NEW i \in Id, i \notin durable'.writes PROVE Untouched(i)'
  <2>1. ~Written(n, i) /\ n.local # i
    BY AppAssumption DEF Ends, Written, Id
  <2> QED
    BY <1>3, <2>1 DEF Untouched, Written
<1>4. \A i \in Id : Untouched(i) => i \notin durable'.writes
  BY DEF Untouched, Written
<1>5. TouchStep
  BY <1>3, <1>4 DEF TouchStep
<1> QED
  BY <1>2, <1>3, <1>5

\* The events of a session that ends with nothing: its calls are rolled back,
\* what it owed is refused, and the runtime may end.
Refusal(e) ==
    \/ e.type = "end"
    \/ e.type = "state" /\ ~e.ok /\ wk.open /\ \E j \in 1..Len(wk.calls) : e.id = wk.calls[j]
    \/ e.type = "completed" /\ ~e.ok /\ wk.open /\ e.id <= issued

\* A step that ends the session, and publishes nothing else, keeps the
\* invariant.
LEMMA EndingKeepsInv ==
    ASSUME AppInv, Takes, AppStays, NEW n, Ends(n), wk' = n, durable' = durable,
           panics' \in Nat, panics' >= panics, NEW es, Publishes(es),
           \A k \in 1..Len(es) : es[k].type = "end" => k = Len(es) /\ ~n.up,
           \A e \in Letters(es) : Refusal(e)
    PROVE  AppInv'
<1>1. SessionStep /\ TouchStep /\ \A i \in Id : i \notin durable.writes => Untouched(i)'
  BY EndedSession
<1>2. /\ durable \in Committed /\ (~durable.committed => durable.writes = {})
      /\ wk.open => ~durable.committed /\ durable.writes = {}
  BY OpenFacts DEF AppInv, AppTypes, OneSession
<1>3. DurableStep(es)
  BY <1>2 DEF DurableStep, Ends
<1>4. ASSUME NEW e \in Letters(es) PROVE EventTrue(e)
  <2>1. CASE e.type = "end"
    BY <2>1 DEF EventTrue, Says
  <2>2. CASE e.type = "state" /\ ~e.ok /\ wk.open /\ \E j \in 1..Len(wk.calls) : e.id = wk.calls[j]
    <3>1. e.id \in Id /\ ~Unborn(e.id)'
      BY <2>2, CallsBorn
    <3>2. Dead(e.id)'
      BY <1>1, <1>2, <2>2, <3>1 DEF Dead, Untouched
    <3> QED
      BY <2>2, <3>2 DEF EventTrue, Says
  <2>3. CASE e.type = "completed" /\ ~e.ok /\ wk.open /\ e.id <= issued
    BY <1>2, <2>3 DEF EventTrue, Says, Ends
  <2> QED
    BY <2>1, <2>2, <2>3 DEF Refusal
<1>5. EventsTrue(es)
  BY <1>4 DEF EventsTrue
<1> QED
  BY <1>1, <1>3, <1>5, WorkerKeepsInv

\* A step that takes an input and changes the runtime.
LEMMA EndingTakes ==
    ASSUME AppInv, wk.up, mail # <<>>, mail' \in {Tail(mail), <<>>}, UNCHANGED appVars
    PROVE  Takes /\ AppStays
  BY DEF Takes, AppStays, appVars

\* The end behind events that are not the end.
LEMMA EndBehind ==
    ASSUME NEW p, Queue(p), \A x \in Letters(p) : x.type # "end"
    PROVE  /\ Queue(p \o <<Ev("end", 0, TRUE)>>)
           /\ Letters(p \o <<Ev("end", 0, TRUE)>>) = Letters(p) \cup {Ev("end", 0, TRUE)}
           /\ Ev("end", 0, TRUE).type = "end"
           /\ \A k \in 1..Len(p \o <<Ev("end", 0, TRUE)>>) :
                 (p \o <<Ev("end", 0, TRUE)>>)[k].type = "end" => k = Len(p \o <<Ev("end", 0, TRUE)>>)
<1> DEFINE e == Ev("end", 0, TRUE)
<1>1. 0 \in Fiber
  BY AppAssumption DEF Fiber
<1>2. e \in Letter /\ e.type = "end"
  BY <1>1 DEF Ev, Letter, LetterTypes
<1> HIDE DEF e
<1>3. Queue(<<e>>) /\ Letters(<<e>>) = {e} /\ Len(<<e>>) = 1
  BY <1>2, ShortQueues DEF Addressed
<1>4. /\ Queue(p \o <<e>>) /\ Letters(p \o <<e>>) = Letters(p) \cup {e}
      /\ Len(p \o <<e>>) = Len(p) + 1 /\ Len(p) \in Nat
      /\ \A k \in 1..Len(p) : (p \o <<e>>)[k] = p[k]
  BY <1>3, ConcatQueue
<1>5. ASSUME NEW k \in 1..Len(p \o <<e>>), (p \o <<e>>)[k].type = "end"
      PROVE  k = Len(p \o <<e>>)
  <2>1. k \notin 1..Len(p)
    BY <1>4, <1>5 DEF Letters
  <2> QED
    BY <1>4, <2>1
<1> QED
  BY <1>2, <1>4, <1>5 DEF e

\* A running Mutation callback has an issued request.
LEMMA LocalFacts ==
    ASSUME AppInv, wk.local # 0
    PROVE  wk.local \in Id /\ wk.local \in Fiber /\ wk.local <= issued
<1>1. wk.local \in Fiber
  BY OpenFacts, SessionFacts
<1>2. wk.local \in Id
  BY <1>1, AppAssumption DEF Fiber, Id
<1>3. ~Unborn(wk.local)
  BY <1>2 DEF AppInv, CommandsOnce, Untouched
<1>4. issued \in Nat /\ wk.local \in Nat
  BY <1>2, AppAssumption DEF AppInv, AppTypes, Id
<1> QED
  BY <1>1, <1>2, <1>3, <1>4 DEF Unborn

\* What is refused when an open session is discarded.
LEMMA RefusedFacts ==
    ASSUME AppInv, wk.open
    PROVE  /\ Queue(States(wk.calls, FALSE)) /\ Queue(LocalRefused)
           /\ Queue(<<Ev("completed", 0, FALSE)>>)
           /\ \A e \in Letters(States(wk.calls, FALSE)) : Refusal(e) /\ e.type # "end"
           /\ \A e \in Letters(LocalRefused) : Refusal(e) /\ e.type # "end"
           /\ \A e \in Letters(<<Ev("completed", 0, FALSE)>>) : Refusal(e) /\ e.type # "end"
<1>1. wk.calls \in Seq(Id) /\ 0 \in Fiber /\ 0 <= issued
  BY OpenFacts, SessionFacts, AppAssumption DEF Fiber, AppInv, AppTypes
<1>2. /\ Queue(States(wk.calls, FALSE))
      /\ \A e \in Letters(States(wk.calls, FALSE)) : e.type = "state" /\ e.ok = FALSE
            /\ \E k \in 1..Len(wk.calls) : e.id = wk.calls[k]
  BY <1>1, StatesFacts
<1>3. ASSUME NEW i \in Fiber, i <= issued
      PROVE  /\ Queue(<<Ev("completed", i, FALSE)>>)
             /\ \A e \in Letters(<<Ev("completed", i, FALSE)>>) : Refusal(e) /\ e.type # "end"
  <2> DEFINE x == Ev("completed", i, FALSE)
  <2>1. x \in Letter /\ x.type = "completed" /\ x.id = i /\ x.ok = FALSE
    BY DEF Ev, Letter, LetterTypes
  <2> HIDE DEF x
  <2>2. Queue(<<x>>) /\ Letters(<<x>>) = {x}
    BY <2>1, ShortQueues DEF Addressed
  <2>3. Refusal(x) /\ x.type # "end"
    BY <1>3, <2>1 DEF Refusal
  <2> QED
    BY <2>2, <2>3 DEF x
<1>4. Queue(LocalRefused) /\ \A e \in Letters(LocalRefused) : Refusal(e) /\ e.type # "end"
  <2>1. CASE wk.local = 0
    <3>1. LocalRefused = <<>>
      BY <2>1 DEF LocalRefused
    <3> QED
      BY <3>1, ShortQueues
  <2>2. CASE wk.local # 0
    <3>1. LocalRefused = <<Ev("completed", wk.local, FALSE)>>
      BY <2>2 DEF LocalRefused
    <3>2. wk.local \in Fiber /\ wk.local <= issued
      BY <2>2, LocalFacts
    <3> QED
      BY <1>3, <3>1, <3>2
  <2> QED
    BY <2>1, <2>2
<1>5. \A e \in Letters(States(wk.calls, FALSE)) : Refusal(e) /\ e.type # "end"
  BY <1>2 DEF Refusal
<1> QED
  BY <1>1, <1>2, <1>3, <1>4, <1>5

\* Two queues behind the outbox.
LEMMA ConcatTwice ==
    ASSUME AppInv, NEW p, NEW q, Queue(p), Queue(q)
    PROVE  (out \o p) \o q = out \o (p \o q)
<1>1. out \in Seq(Letter) /\ p \in Seq(Letter) /\ q \in Seq(Letter)
  BY DEF AppInv, AppTypes, Queue
<1> QED
  BY <1>1, ConcatAssociative

\* finish_local: the preview is rolled back; the Mutation is submitted or
\* refused.
LEMMA FinishLocalCallbackKeepsInv == AppInv /\ FinishLocalCallback => AppInv'
<1> SUFFICES ASSUME AppInv, FinishLocalCallback PROVE AppInv'
  OBVIOUS
<1> DEFINE f == Head(mail).id
           b == Last(wk.marks)
           w == [wk EXCEPT !.local = 0, !.marks = Front(@), !.writes = Prefix(@, b)]
           v == [w EXCEPT !.writes = Append(@, f), !.calls = Append(@, f)]
<1>1. Input("localResult") /\ UNCHANGED <<durable, panics>> /\ wk \in Session /\ SessionOk(wk)
  BY OpenFacts DEF FinishLocalCallback
<1>2. f \in Id /\ f \in Fiber /\ wk.up /\ f # 0
  BY <1>1, InputFacts, AppAssumption DEF Addressed, Id
<1>3. \/ Handle(wk, <<>>)
      \/ /\ wk.open /\ wk.local = f
         /\ Handle(v, <<Ev("completed", f, TRUE)>>) \/ Handle(w, <<Ev("completed", f, FALSE)>>)
  BY DEF FinishLocalCallback, Refuse
<1>4. CASE Handle(wk, <<>>)
  <2>1. Queue(<<>>) /\ Letters(<<>>) = {}
    BY ShortQueues
  <2>2. SessionOk(wk) /\ Touches(wk)
    BY <1>1, FlagsFacts
  <2> QED
    BY <1>1, <1>2, <1>4, <2>1, <2>2, PlainKeepsInv
<1>5. CASE wk.open /\ wk.local = f
  <2>1. /\ wk.calls \in Seq(Id) /\ wk.writes \in Seq(Id) /\ wk.marks \in Seq(Nat)
        /\ Len(wk.scopes) \in Nat /\ Len(wk.marks) = Len(wk.scopes) + 1
        /\ Cut(wk, Len(wk.calls), wk.marks[Len(wk.marks)]) /\ ~Written(wk, f)
    BY <1>1, <1>2, <1>5, SessionFacts DEF SessionOk, Written
  <2>2. Len(wk.marks) # 0
    BY <2>1
  <2>3. Front(wk.marks) \in Seq(Nat) /\ b = wk.marks[Len(wk.marks)]
    BY <2>1, <2>2, FrontFacts
  <2>4. Cut(wk, Len(wk.calls), b) /\ b \in 0..Len(wk.writes)
    BY <2>1, <2>3 DEF Cut
  <2>5. wk.marks # <<>>
    BY <2>1, <2>2, EmptySeq
  <2>6. Prefix(wk.calls, Len(wk.calls)) = wk.calls
    BY <2>1, SubSeqFull DEF Prefix
  <2>7. /\ Prefix(wk.writes, b) \in Seq(Id) /\ Len(Prefix(wk.writes, b)) = b
        /\ \A m \in 1..b : Prefix(wk.writes, b)[m] = wk.writes[m] /\ m \in 1..Len(wk.writes)
    BY <2>1, <2>4, PrefixFacts
  <2>8. 0 \in Fiber /\ f <= issued
    BY <1>2, <1>5, LocalFacts, AppAssumption DEF Fiber
  <2>9. /\ w \in Session /\ w.up = wk.up /\ w.open = wk.open /\ w.local = 0
        /\ w.writes = Prefix(wk.writes, b) /\ w.calls = wk.calls
        /\ w.marks = Front(wk.marks) /\ w.scopes = wk.scopes
    BY <1>1, <2>3, <2>7, <2>8 DEF Session
  <2> HIDE DEF w, b
  <2>10. SessionOk(w)
    BY <1>1, <1>2, <1>5, <2>4, <2>5, <2>6, <2>9, RolledBackOk DEF b
  <2>11. \A i \in Id : ~Written(wk, i) => ~Written(w, i)
    BY <2>7, <2>9 DEF Written
  <2>12. Touches(w)
    BY <2>9, <2>11, AppAssumption DEF Touches, Id
  <2>13. CASE Handle(w, <<Ev("completed", f, FALSE)>>)
    <3> DEFINE e == Ev("completed", f, FALSE)
    <3>1. e \in Letter /\ e.type = "completed" /\ e.id = f /\ e.ok = FALSE
      BY <1>2 DEF Ev, Letter, LetterTypes
    <3>2. Handle(w, <<e>>)
      BY <2>13
    <3> HIDE DEF e
    <3>3. Plain(e, w) /\ (e.type \in Addressed => e.id \in Id)
      BY <1>2, <2>8, <3>1 DEF Plain, Says
    <3> QED
      BY <1>1, <1>2, <1>5, <2>9, <2>10, <2>12, <3>1, <3>2, <3>3, AnswerKeepsInv
  <2>14. CASE Handle(v, <<Ev("completed", f, TRUE)>>)
    <3> DEFINE e == Ev("completed", f, TRUE)
    <3>1. e \in Letter /\ e.type = "completed" /\ e.id = f /\ e.ok = TRUE
      BY <1>2 DEF Ev, Letter, LetterTypes
    <3>2. Handle(v, <<e>>)
      BY <2>14
    <3>3. w.writes \in Seq(Id) /\ w.calls \in Seq(Id)
      BY <2>1, <2>7, <2>9
    <3>4. /\ Append(w.writes, f) \in Seq(Id) /\ Len(Append(w.writes, f)) = Len(w.writes) + 1
          /\ \A k \in 1..Len(w.writes) : Append(w.writes, f)[k] = w.writes[k]
          /\ Append(w.writes, f)[Len(w.writes) + 1] = f
          /\ \A k \in 1..Len(w.writes) + 1 : k \in 1..Len(w.writes) \/ k = Len(w.writes) + 1
      BY <1>2, <3>3, AppendFacts
    <3>5. Append(w.calls, f) \in Seq(Id)
      BY <1>2, <3>3, AppendFacts
    <3>6. /\ v \in Session /\ v.up = wk.up /\ v.open = wk.open /\ v.local = 0
          /\ v.writes = Append(w.writes, f) /\ v.calls = Append(w.calls, f)
          /\ v.marks = w.marks /\ v.scopes = w.scopes
      BY <2>9, <3>4, <3>5 DEF Session
    <3> HIDE DEF e, v
    <3>7. ~Written(w, f)
      BY <1>2, <2>1, <2>11
    <3>8. SessionOk(v)
      BY <1>2, <2>9, <2>10, <3>6, <3>7, SubmittedOk
    <3>9. Touches(v)
      <4> SUFFICES ASSUME NEW i \in Id, ~Written(wk, i), wk.local # i
                   PROVE  ~Written(v, i) /\ v.local # i
        BY DEF Touches
      <4>1. ~Written(w, i) /\ i # f /\ i # 0
        BY <1>5, <2>11, AppAssumption DEF Id
      <4>2. ~Written(v, i)
        BY <3>4, <3>6, <4>1 DEF Written
      <4> QED
        BY <3>6, <4>1, <4>2
    <3>10. Plain(e, v) /\ (e.type \in Addressed => e.id \in Id)
      BY <1>2, <1>5, <2>8, <3>1 DEF Plain, Says
    <3> QED
      BY <1>1, <1>2, <1>5, <3>1, <3>2, <3>6, <3>8, <3>9, <3>10, AnswerKeepsInv
  <2> QED
    BY <1>2, <1>3, <1>5, <1>4, <2>13, <2>14
<1> QED
  BY <1>3, <1>4, <1>5

\* A discarded session: its calls are rolled back, then what it owed.
LEMMA DiscardKeepsInv ==
    ASSUME AppInv, Takes, AppStays, NEW n, Ends(n), wk' = n, wk.open, UNCHANGED panics,
           NEW p, Queue(p), Discarded(p),
           \A k \in 1..Len(p) : p[k].type = "end" => k = Len(p) /\ ~n.up,
           \A e \in Letters(p) : Refusal(e)
    PROVE  AppInv'
<1> DEFINE s == States(wk.calls, FALSE)
           es == s \o p
<1>1. Queue(s) /\ \A e \in Letters(s) : Refusal(e) /\ e.type # "end"
  BY RefusedFacts
<1>2. out' = (out \o s) \o p /\ durable' = durable
  BY DEF Discarded
<1> HIDE DEF s
<1>3. out' = out \o es
  BY <1>1, <1>2, ConcatTwice
<1>4. /\ Queue(es) /\ Letters(es) = Letters(s) \cup Letters(p)
      /\ Len(es) = Len(s) + Len(p) /\ Len(s) \in Nat /\ Len(p) \in Nat
      /\ \A k \in 1..Len(s) : es[k] = s[k]
      /\ \A k \in 1..Len(p) : es[Len(s) + k] = p[k]
  BY <1>1, ConcatQueue
<1> HIDE DEF es
<1>5. ASSUME NEW k \in 1..Len(es), es[k].type = "end" PROVE k = Len(es) /\ ~n.up
  <2>1. k \notin 1..Len(s)
    BY <1>1, <1>4, <1>5 DEF Letters
  <2>2. k - Len(s) \in 1..Len(p) /\ k = Len(s) + (k - Len(s))
    BY <1>4, <2>1
  <2>3. p[k - Len(s)].type = "end"
    BY <1>4, <1>5, <2>2
  <2>4. k - Len(s) = Len(p) /\ ~n.up
    BY <2>2, <2>3
  <2> QED
    BY <1>4, <2>2, <2>4
<1>6. panics' \in Nat /\ panics' >= panics
  BY DEF AppInv, AppTypes
<1>7. Publishes(es) /\ \A e \in Letters(es) : Refusal(e)
  BY <1>1, <1>3, <1>4 DEF Publishes
<1> QED
  BY <1>2, <1>5, <1>6, <1>7, EndingKeepsInv

\* The commit of an open session makes its writes durable and announces them.
LEMMA CommittingKeepsInv ==
    ASSUME AppInv, Takes, AppStays, NEW n, Ends(n), wk' = n, wk.open, UNCHANGED panics,
           durable' = [committed |-> TRUE, writes |-> {wk.writes[k] : k \in 1..Len(wk.writes)}],
           out' = out \o States(wk.calls, TRUE) \o <<Ev("completed", 0, TRUE)>>
    PROVE  AppInv'
<1> DEFINE s == States(wk.calls, TRUE)
           e == Ev("completed", 0, TRUE)
           es == s \o <<e>>
<1>1. /\ wk \in Session /\ SessionOk(wk) /\ wk.calls \in Seq(Id) /\ 0 \in Fiber
      /\ 0 <= issued /\ panics' \in Nat /\ panics' >= panics
      /\ \A m \in 1..Len(wk.writes) : wk.writes[m] \in Id
  BY OpenFacts, SessionFacts, AppAssumption DEF Fiber, AppInv, AppTypes
<1>2. /\ Queue(s)
      /\ \A x \in Letters(s) : x.type = "state" /\ x.ok = TRUE
            /\ \E k \in 1..Len(wk.calls) : x.id = wk.calls[k]
      /\ \A k \in 1..Len(wk.calls) : \E x \in Letters(s) : Says(x, "state", wk.calls[k], TRUE)
  BY <1>1, StatesFacts
<1>3. e \in Letter /\ e.type = "completed" /\ e.id = 0 /\ e.ok = TRUE
  BY <1>1 DEF Ev, Letter, LetterTypes
<1>4. out' = (out \o s) \o <<e>>
  OBVIOUS
<1> HIDE DEF s, e
<1>5. Queue(<<e>>) /\ Letters(<<e>>) = {e}
  BY <1>3, ShortQueues DEF Addressed
<1>6. Queue(es) /\ Letters(es) = Letters(s) \cup {e}
  BY <1>2, <1>5, ConcatQueue
<1>7. Publishes(es)
  BY <1>2, <1>4, <1>5, <1>6, ConcatTwice DEF Publishes
<1> HIDE DEF es
<1>8. SessionStep /\ TouchStep
  BY EndedSession
<1>9. /\ durable' \in Committed /\ durable'.committed
      /\ durable'.writes = {wk.writes[k] : k \in 1..Len(wk.writes)}
  BY <1>1 DEF Committed
<1>10. ASSUME NEW i \in Id, i \in durable'.writes, req[i].kind \in Mutating
       PROVE  \E x \in Letters(es) : Says(x, "state", i, TRUE)
  <2>1. PICK m \in 1..Len(wk.writes) : i = wk.writes[m]
    BY <1>9, <1>10
  <2>2. PICK j \in 1..Len(wk.calls) : wk.calls[j] = wk.writes[m]
    BY <1>1, <1>10, <2>1 DEF SessionOk
  <2> QED
    BY <1>2, <1>6, <2>1, <2>2
<1>11. DurableStep(es)
  <2>1. \E x \in Letters(es) : Says(x, "completed", 0, TRUE)
    BY <1>3, <1>6 DEF Says
  <2> QED
    BY <1>1, <1>9, <1>10, <2>1 DEF DurableStep, Ends
<1>12. ASSUME NEW x \in Letters(es) PROVE EventTrue(x) /\ x.type # "end"
  <2>1. CASE x \in Letters(s)
    <3>1. PICK k \in 1..Len(wk.calls) : x.id = wk.calls[k]
      BY <1>2, <2>1
    <3>2. x.id \in durable'.writes
      BY <1>1, <1>9, <3>1 DEF SessionOk
    <3> QED
      BY <1>2, <2>1, <3>2 DEF EventTrue, Says
  <2>2. CASE x = e
    <3>1. 0 \notin Id
      BY AppAssumption DEF Id
    <3>2. e.id \notin durable'.writes
      BY <1>1, <1>3, <1>9, <3>1
    <3> QED
      BY <1>1, <1>3, <2>2, <3>2 DEF EventTrue, Says
  <2> QED
    BY <1>6, <2>1, <2>2
<1>13. EventsTrue(es)
  <2>1. \A k \in 1..Len(es) : es[k] \in Letters(es)
    BY DEF Letters
  <2> QED
    BY <1>12, <2>1 DEF EventsTrue
<1> QED
  BY <1>7, <1>8, <1>11, <1>13, WorkerKeepsInv

\* finish_transaction: commit, roll back, or nothing to finish.
LEMMA FinishTransactionKeepsInv == AppInv /\ FinishTransaction => AppInv'
<1> SUFFICES ASSUME AppInv, FinishTransaction PROVE AppInv'
  OBVIOUS
<1> DEFINE n == [NoWorkerTx EXCEPT !.structural = wk.structural]
<1>1. /\ Input("result") /\ mail' = Tail(mail) /\ wk' = n /\ UNCHANGED panics
      /\ UNCHANGED appVars /\ wk.structural \in BOOLEAN
  BY OpenFacts DEF FinishTransaction, Session
<1>2. Ends(n)
  BY <1>1, EndsFacts
<1>3. wk.up /\ mail # <<>>
  BY <1>1, InputFacts
<1>4. Takes /\ AppStays
  BY <1>1, <1>3, EndingTakes
<1> HIDE DEF n
<1>5. CASE UNCHANGED <<out, durable>>
  <2> DEFINE es == <<>>
  <2>1. Queue(es) /\ Letters(es) = {} /\ Len(es) = 0
    BY ShortQueues
  <2>2. out' = out \o es
    BY <1>5, ConcatEmptySeq DEF AppInv, AppTypes, Queue
  <2>3. panics' \in Nat /\ panics' >= panics
    BY <1>1 DEF AppInv, AppTypes
  <2> HIDE DEF es
  <2>4. Publishes(es) /\ \A k \in 1..Len(es) : FALSE
    BY <2>1, <2>2 DEF Publishes
  <2>5. /\ \A k \in 1..Len(es) : es[k].type = "end" => k = Len(es) /\ ~n.up
        /\ \A e \in Letters(es) : Refusal(e)
    BY <2>1, <2>4
  <2> QED
    BY <1>1, <1>2, <1>4, <1>5, <2>3, <2>4, <2>5, EndingKeepsInv
<1>6. CASE wk.open /\ Discarded(LocalRefused \o <<Ev("completed", 0, FALSE)>>)
  <2> DEFINE r == LocalRefused
             c == <<Ev("completed", 0, FALSE)>>
             p == r \o c
  <2>1. /\ Queue(r) /\ Queue(c)
        /\ \A e \in Letters(r) : Refusal(e) /\ e.type # "end"
        /\ \A e \in Letters(c) : Refusal(e) /\ e.type # "end"
    BY <1>6, RefusedFacts
  <2>2. Discarded(p)
    BY <1>6
  <2> HIDE DEF r, c
  <2>3. Queue(p) /\ Letters(p) = Letters(r) \cup Letters(c)
    BY <2>1, ConcatQueue
  <2> HIDE DEF p
  <2>4. /\ \A e \in Letters(p) : Refusal(e)
        /\ \A k \in 1..Len(p) : p[k].type # "end"
    BY <2>1, <2>3 DEF Letters
  <2> QED
    BY <1>1, <1>2, <1>4, <1>6, <2>2, <2>3, <2>4, DiscardKeepsInv
<1>7. CASE wk.open /\ Discarded(<<Ev("completed", 0, FALSE)>>)
  <2> DEFINE c == <<Ev("completed", 0, FALSE)>>
  <2>1. Queue(c) /\ \A e \in Letters(c) : Refusal(e) /\ e.type # "end"
    BY <1>7, RefusedFacts
  <2>2. Discarded(c)
    BY <1>7
  <2> HIDE DEF c
  <2>3. \A k \in 1..Len(c) : c[k].type # "end"
    BY <2>1 DEF Letters
  <2> QED
    BY <1>1, <1>2, <1>4, <1>7, <2>1, <2>2, <2>3, DiscardKeepsInv
<1>8. CASE /\ wk.open
           /\ durable' = [committed |-> TRUE,
                          writes |-> {wk.writes[k] : k \in 1..Len(wk.writes)}]
           /\ out' = out \o States(wk.calls, TRUE) \o <<Ev("completed", 0, TRUE)>>
  BY <1>1, <1>2, <1>4, <1>8, CommittingKeepsInv
<1> QED
  BY <1>5, <1>6, <1>7, <1>8 DEF FinishTransaction

\* Nothing but the end of the runtime is published.
LEMMA AbruptEnd ==
    ASSUME AppInv, out' = Append(out, Ev("end", 0, TRUE))
    PROVE  /\ Publishes(<<Ev("end", 0, TRUE)>>) /\ Len(<<Ev("end", 0, TRUE)>>) = 1
           /\ <<Ev("end", 0, TRUE)>>[1].type = "end"
           /\ \A e \in Letters(<<Ev("end", 0, TRUE)>>) : e.type = "end"
<1> DEFINE e == Ev("end", 0, TRUE)
<1>1. 0 \in Fiber
  BY AppAssumption DEF Fiber
<1>2. e \in Letter /\ e.type = "end" /\ out' = Append(out, e)
  BY <1>1 DEF Ev, Letter, LetterTypes
<1> HIDE DEF e
<1>3. Queue(<<e>>) /\ Letters(<<e>>) = {e} /\ Len(<<e>>) = 1 /\ <<e>>[1] = e
  BY <1>2, ShortQueues DEF Addressed
<1>4. Append(out, e) = out \o <<e>>
  BY <1>2, AppendQueue DEF AppInv, AppTypes, Addressed
<1> QED
  BY <1>2, <1>3, <1>4 DEF e, Publishes

\* The runtime ends with nothing committed and nobody told.
LEMMA AbruptEndKeepsInv ==
    ASSUME AppInv, Takes, AppStays, NEW n, Ends(n), ~n.up, wk' = n, durable' = durable,
           panics' \in Nat, panics' >= panics, out' = Append(out, Ev("end", 0, TRUE))
    PROVE  AppInv'
<1> DEFINE es == <<Ev("end", 0, TRUE)>>
<1>1. Publishes(es) /\ Len(es) = 1 /\ \A e \in Letters(es) : e.type = "end"
  BY AbruptEnd
<1> HIDE DEF es
<1>2. /\ \A e \in Letters(es) : Refusal(e)
      /\ \A k \in 1..Len(es) : es[k].type = "end" => k = Len(es) /\ ~n.up
  BY <1>1 DEF Refusal
<1> QED
  BY <1>1, <1>2, EndingKeepsInv

\* The worker panics, before or behind the COMMIT of the session.
LEMMA PanicKeepsInv == AppInv /\ Panic => AppInv'
<1> SUFFICES ASSUME AppInv, Panic PROVE AppInv'
  OBVIOUS
<1> DEFINE n == [NoWorkerTx EXCEPT !.up = FALSE]
           es == <<Ev("end", 0, TRUE)>>
<1>1. /\ wk.up /\ mail # <<>> /\ mail' = <<>> /\ wk' = n /\ UNCHANGED appVars
      /\ panics' = panics + 1 /\ out' = Append(out, Ev("end", 0, TRUE))
  BY DEF Panic
<1>2. Ends(n) /\ ~n.up
  BY EndsFacts
<1>3. Takes /\ AppStays
  BY <1>1, EndingTakes
<1>4. panics' \in Nat /\ panics' >= panics /\ panics' > 0 /\ panics' # 0
  BY <1>1 DEF AppInv, AppTypes
<1> HIDE DEF n
<1>5. CASE UNCHANGED durable
  BY <1>1, <1>2, <1>3, <1>4, <1>5, AbruptEndKeepsInv
<1>6. CASE /\ wk.open
           /\ durable' = [committed |-> TRUE,
                          writes |-> {wk.writes[k] : k \in 1..Len(wk.writes)}]
  <2>1. Publishes(es) /\ Len(es) = 1 /\ \A e \in Letters(es) : e.type = "end"
    BY <1>1, AbruptEnd
  <2> HIDE DEF es
  <2>2. \A m \in 1..Len(wk.writes) : wk.writes[m] \in Id
    BY OpenFacts, SessionFacts
  <2>3. durable' \in Committed /\ durable'.committed
        /\ durable'.writes = {wk.writes[k] : k \in 1..Len(wk.writes)}
    BY <1>6, <2>2 DEF Committed
  <2>4. SessionStep /\ TouchStep
    BY <1>1, <1>2, <2>3, EndedSession
  <2>5. DurableStep(es)
    BY <1>1, <1>2, <1>4, <1>6, <2>3 DEF DurableStep, Ends
  <2>6. EventsTrue(es)
    BY <1>1, <1>2, <2>1 DEF EventsTrue, EventTrue, Says
  <2> QED
    BY <1>3, <2>1, <2>4, <2>5, <2>6, WorkerKeepsInv
<1> QED
  BY <1>5, <1>6 DEF Panic

\* Priority close.
LEMMA CloseRuntimeKeepsInv == AppInv /\ CloseRuntime => AppInv'
<1> SUFFICES ASSUME AppInv, CloseRuntime PROVE AppInv'
  OBVIOUS
<1> DEFINE n == [NoWorkerTx EXCEPT !.up = FALSE]
           e == Ev("end", 0, TRUE)
<1>1. /\ Input("close") /\ mail' = <<>> /\ wk' = n /\ UNCHANGED panics /\ UNCHANGED appVars
  BY DEF CloseRuntime
<1>2. Ends(n) /\ ~n.up
  BY EndsFacts
<1>3. wk.up /\ mail # <<>>
  BY <1>1, InputFacts
<1>4. Takes /\ AppStays
  BY <1>1, <1>3, EndingTakes
<1> HIDE DEF n
<1>5. CASE wk.open
  <2> DEFINE r == LocalRefused
             c == <<Ev("completed", 0, FALSE)>>
             q == c \o r
             p == q \o <<e>>
  <2>1. /\ Queue(r) /\ Queue(c)
        /\ \A x \in Letters(r) : Refusal(x) /\ x.type # "end"
        /\ \A x \in Letters(c) : Refusal(x) /\ x.type # "end"
    BY <1>5, RefusedFacts
  <2>2. Discarded(p)
    BY <1>5 DEF CloseRuntime
  <2> HIDE DEF r, c
  <2>3. Queue(q) /\ Letters(q) = Letters(r) \cup Letters(c)
    BY <2>1, ConcatQueue
  <2> HIDE DEF q
  <2>4. /\ Queue(p) /\ Letters(p) = Letters(q) \cup {e} /\ e.type = "end"
        /\ \A k \in 1..Len(p) : p[k].type = "end" => k = Len(p)
    BY <2>1, <2>3, EndBehind
  <2> HIDE DEF p, e
  <2>5. \A x \in Letters(p) : Refusal(x)
    BY <2>1, <2>3, <2>4 DEF Refusal
  <2> QED
    BY <1>1, <1>2, <1>4, <1>5, <2>2, <2>4, <2>5, DiscardKeepsInv
<1>6. CASE ~wk.open
  <2>1. out' = Append(out, e) /\ durable' = durable
    BY <1>6 DEF CloseRuntime
  <2>2. panics' \in Nat /\ panics' >= panics
    BY <1>1 DEF AppInv, AppTypes
  <2> QED
    BY <1>1, <1>2, <1>4, <2>1, <2>2, AbruptEndKeepsInv
<1> QED
  BY <1>5, <1>6

----------------------------------------------------------------------------
(***************************************************************************)
(* What every step of the application's side has in common: it may issue a *)
(* request, send an input and take an event; the worker stays.             *)
(***************************************************************************)
WorkerStays == UNCHANGED <<wk, durable, panics>>

\* A new request is numbered next; the others keep their kind.
Asks ==
    /\ issued' \in 0..MaxRequests /\ issued' \in {issued, issued + 1} /\ DOMAIN req' = Id
    /\ \A i \in Id : /\ IsRequest(req'[i])
                     /\ i <= issued => req'[i].kind = req[i].kind
                     /\ i > issued /\ i <= issued' => req'[i].kind \in Kinds

\* The input goes behind the others; a command is that of the new request.
Fresh(m) ==
    /\ m.type # "transaction" /\ (m.type \in Addressed => m.id \in Id)
    /\ m.type = "command" => m.id = issued + 1 /\ issued' = issued + 1
Sends == mail' = mail \/ \E m \in Letter : mail' = Append(mail, m) /\ Fresh(m)

Receives == out' = out \/ (out # <<>> /\ out' = Tail(out))
BridgeStep == bridge' = "closed" => ~wk.up /\ out' = <<>>

\* The promise and the handles change as the worker's account allows.
PromiseStep ==
    /\ task' = [promise |-> task'.promise, callback |-> task'.callback]
    /\ task'.promise \in {"pending", "resolved", "rejected"}
    /\ task'.promise = "rejected" => Over /\ (~durable.committed \/ panics > 0)
    /\ durable.committed /\ panics = 0 =>
         task'.promise = "resolved" \/ \E e \in Letters(out') : Says(e, "completed", 0, TRUE)
HandleStep ==
    /\ handle' \in [Id -> {"none", "provisional", "committed", "rolledBack"}]
    /\ \A i \in Id :
         /\ handle'[i] # "none" => i <= issued /\ req[i].kind \in Mutating
         /\ handle'[i] = "committed" => i \in durable.writes
         /\ handle'[i] = "rolledBack" => Dead(i) \/ panics > 0
         /\ handle'[i] = "provisional" /\ i \in durable.writes /\ panics = 0 =>
              \E e \in Letters(out') : Says(e, "state", i, TRUE)

\* The inbox with the new input.
LEMMA SendsFacts ==
    ASSUME AppInv, Asks, Sends
    PROVE  /\ Queue(mail') /\ Letters(mail) \subseteq Letters(mail')
           /\ Len(mail) \in Nat /\ Len(mail') \in Nat
           /\ \A k \in 1..Len(mail') : \/ k \in 1..Len(mail) /\ mail'[k] = mail[k]
                                       \/ k = Len(mail') /\ k \notin 1..Len(mail) /\ Fresh(mail'[k])
           /\ \A e \in Letters(mail') : e \in Letters(mail) \/ Fresh(e)
<1>1. Queue(mail) /\ mail \in Seq(Letter) /\ Len(mail) \in Nat
  BY LenProperties DEF AppInv, AppTypes, Queue
<1>2. CASE mail' = mail
  BY <1>1, <1>2
<1>3. ASSUME NEW m \in Letter, mail' = Append(mail, m), Fresh(m)
      PROVE  /\ Queue(mail') /\ Letters(mail) \subseteq Letters(mail')
             /\ Len(mail') \in Nat
             /\ \A k \in 1..Len(mail') : \/ k \in 1..Len(mail) /\ mail'[k] = mail[k]
                                         \/ k = Len(mail') /\ k \notin 1..Len(mail) /\ Fresh(mail'[k])
             /\ \A e \in Letters(mail') : e \in Letters(mail) \/ Fresh(e)
  <2>1. /\ Queue(mail') /\ Letters(mail') = Letters(mail) \cup {m}
        /\ Len(mail') = Len(mail) + 1
        /\ \A k \in 1..Len(mail) : mail'[k] = mail[k]
        /\ mail'[Len(mail) + 1] = m
    <3>1. m.type \in Addressed => m.id \in Id
      BY <1>3 DEF Fresh
    <3> QED
      BY <1>1, <1>3, <3>1, AppendQueue
  <2>2. \A k \in 1..Len(mail') : k \in 1..Len(mail) \/ (k = Len(mail) + 1 /\ k \notin 1..Len(mail))
    BY <1>1, <2>1
  <2>3. Len(mail') \in Nat
    BY <1>1, <2>1
  <2> QED
    BY <1>3, <2>1, <2>2, <2>3
<1> QED
  BY <1>1, <1>2, <1>3 DEF Sends

\* The application's step changes nothing of the worker's account.
LEMMA AppBirths ==
    ASSUME AppInv, WorkerStays, Asks, Sends
    PROVE  /\ Unopened' <=> Unopened
           /\ \A i \in Id : Unborn(i)' => Unborn(i)
           /\ \A i \in Id : Untouched(i)' <=> Untouched(i)
           /\ \A i \in Id : Dead(i) => Dead(i)'
           /\ Over' <=> Over
<1>1. /\ Letters(mail) \subseteq Letters(mail')
      /\ \A e \in Letters(mail') : e \in Letters(mail) \/ Fresh(e)
  BY SendsFacts
<1>2. Unopened' <=> Unopened
  BY <1>1 DEF Unopened, Letters, Fresh
<1>3. ASSUME NEW i \in Id, Unborn(i)' PROVE Unborn(i)
  <2>1. /\ issued \in Nat /\ issued' \in Nat /\ issued' >= issued /\ i \in Nat
    BY AppAssumption DEF Asks, AppInv, AppTypes, Id
  <2>2. CASE i > issued'
    BY <2>1, <2>2 DEF Unborn
  <2>3. CASE \E e \in Letters(mail') : e.type = "command" /\ e.id = i
    <3>1. PICK e \in Letters(mail') : e.type = "command" /\ e.id = i
      BY <2>3
    <3>2. CASE Fresh(e)
      BY <2>1, <3>1, <3>2 DEF Fresh, Unborn
    <3> QED
      BY <1>1, <3>1, <3>2 DEF Unborn
  <2> QED
    BY <1>3, <2>2, <2>3 DEF Unborn, Letters
<1>4. \A i \in Id : Untouched(i)' <=> Untouched(i)
  BY DEF WorkerStays, Untouched, Written
<1>5. \A i \in Id : Dead(i) => Dead(i)'
  BY <1>3, <1>4 DEF Dead, WorkerStays
<1>6. Over' <=> Over
  BY <1>2 DEF Over, WorkerStays
<1> QED
  BY <1>2, <1>3, <1>4, <1>5, <1>6

\* The outbox without the event that was taken.
LEMMA ReceivesFacts ==
    ASSUME AppInv, Receives
    PROVE  /\ Queue(out') /\ Letters(out') \subseteq Letters(out)
           /\ Len(out) \in Nat /\ Len(out') \in Nat /\ Len(out') <= Len(out)
           /\ \A k \in 1..Len(out') : /\ k + (Len(out) - Len(out')) \in 1..Len(out)
                                      /\ out'[k] = out[k + (Len(out) - Len(out'))]
<1>1. Queue(out) /\ out \in Seq(Letter) /\ Len(out) \in Nat
  BY LenProperties DEF AppInv, AppTypes, Queue
<1>2. CASE out' = out
  <2>1. Len(out) - Len(out') = 0 /\ \A k \in 1..Len(out') : k + 0 = k
    BY <1>1, <1>2
  <2> QED
    BY <1>1, <1>2, <2>1
<1>3. CASE out # <<>> /\ out' = Tail(out)
  <2>1. /\ Queue(out') /\ Letters(out) = {Head(out)} \cup Letters(out')
        /\ Len(out') = Len(out) - 1 /\ 1 \in 1..Len(out)
        /\ \A k \in 1..Len(out') : out'[k] = out[k + 1] /\ k + 1 \in 1..Len(out)
    BY <1>1, <1>3, TailQueue
  <2>2. Len(out') \in Nat /\ Len(out') <= Len(out) /\ Len(out) - Len(out') = 1
    BY <1>1, <2>1
  <2> QED
    BY <1>1, <2>1, <2>2
<1> QED
  BY <1>2, <1>3 DEF Receives

\* The application's step keeps the invariant, part by part.
LEMMA ApplicationKeepsTypes ==
    ASSUME AppInv, WorkerStays, Asks, Sends, Receives, PromiseStep, HandleStep
    PROVE  AppTypes'
<1>1. Queue(mail') /\ Queue(out')
  BY SendsFacts, ReceivesFacts
<1>2. Queue(mail)' /\ Queue(out)'
  BY <1>1 DEF Queue, Letters
<1>3. wk' \in Session /\ durable' \in Committed /\ panics' \in Nat
  BY DEF AppInv, AppTypes, WorkerStays
<1>4. ASSUME NEW i \in Id PROVE IsRequest(req'[i]) /\ (i <= issued' => req'[i].kind \in Kinds)
  <2>1. i \in Nat /\ issued \in Nat /\ issued' \in Nat
    BY AppAssumption DEF Id, AppInv, AppTypes, Asks
  <2>2. i <= issued => req'[i].kind \in Kinds
    BY DEF Asks, AppInv, AppTypes
  <2>3. i > issued /\ i <= issued' => req'[i].kind \in Kinds
    BY DEF Asks
  <2>4. IsRequest(req'[i])
    BY DEF Asks
  <2> QED
    BY <2>1, <2>2, <2>3, <2>4
<1>5. issued' \in 0..MaxRequests /\ DOMAIN req' = Id
  BY DEF Asks
<1>6. handle' \in [Id -> {"none", "provisional", "committed", "rolledBack"}]
  BY DEF HandleStep
<1>7. /\ task' = [promise |-> task'.promise, callback |-> task'.callback]
      /\ task'.promise \in {"pending", "resolved", "rejected"}
  BY DEF PromiseStep
<1> QED
  BY <1>2, <1>3, <1>4, <1>5, <1>6, <1>7 DEF AppTypes, IsRequest

\* No second transaction task is sent.
LEMMA ApplicationKeepsSession ==
    ASSUME AppInv, WorkerStays, Asks, Sends
    PROVE  OneSession'
<1>1. \A k \in 1..Len(mail') : mail'[k].type = "transaction" => k = 1
  BY SendsFacts DEF AppInv, OneSession, Fresh
<1>2. (Unopened' <=> Unopened) /\ (Over' <=> Over)
  BY AppBirths
<1>3. OneSession /\ wk' = wk /\ durable' = durable
  BY DEF AppInv, WorkerStays
<1> QED
  BY <1>1, <1>2, <1>3 DEF OneSession

\* The end stays the last event.
LEMMA ApplicationKeepsEnd ==
    ASSUME AppInv, WorkerStays, Receives, BridgeStep
    PROVE  EndIsLast'
<1>1. /\ Len(out) \in Nat /\ Len(out') \in Nat
      /\ \A k \in 1..Len(out') : /\ k + (Len(out) - Len(out')) \in 1..Len(out)
                                 /\ out'[k] = out[k + (Len(out) - Len(out'))]
  BY ReceivesFacts
<1>2. ASSUME NEW k \in 1..Len(out'), out'[k].type = "end"
      PROVE  k = Len(out') /\ ~wk.up
  <2>1. k + (Len(out) - Len(out')) = Len(out) /\ ~wk.up
    BY <1>1, <1>2 DEF AppInv, EndIsLast
  <2> QED
    BY <1>1, <2>1
<1> QED
  BY <1>2 DEF EndIsLast, BridgeStep, WorkerStays

\* The promise agrees with the worker's account.
LEMMA ApplicationKeepsTask ==
    ASSUME AppInv, WorkerStays, Asks, Sends, Receives, PromiseStep
    PROVE  TaskTold'
<1>1. /\ Over' <=> Over
      /\ Letters(out') \subseteq Letters(out) /\ durable' = durable /\ panics' = panics
  BY AppBirths, ReceivesFacts DEF WorkerStays
<1>2. \A ok : Announced("completed", 0, ok)' <=> \E e \in Letters(out') : Says(e, "completed", 0, ok)
  BY DEF Announced, Letters, Says
<1>3. Announced("completed", 0, FALSE)' => Over /\ (~durable.committed \/ panics > 0)
  BY <1>1, <1>2 DEF AppInv, TaskTold, Announced
<1> QED
  BY <1>1, <1>2, <1>3 DEF TaskTold, PromiseStep

\* What is in the session was issued, and keeps its kind.
LEMMA ApplicationKeepsMatch ==
    ASSUME AppInv, WorkerStays, Asks
    PROVE  SessionMatched'
<1>1. SessionOk(wk) /\ wk' = wk /\ wk \in Session
  BY DEF AppInv, SessionMatched, WorkerStays, AppTypes
<1>2. ASSUME NEW m \in 1..Len(wk.writes) PROVE req'[wk.writes[m]].kind = req[wk.writes[m]].kind
  <2>1. wk.writes \in Seq(Id)
    BY <1>1 DEF Session
  <2>2. wk.writes[m] \in Id
    BY <2>1, ElementOfSeq
  <2>3. ~Untouched(wk.writes[m])
    BY DEF Untouched, Written
  <2>4. ~(wk.writes[m] > issued)
    BY <2>2, <2>3 DEF AppInv, CommandsOnce, Unborn
  <2>5. wk.writes[m] <= issued
    BY <2>2, <2>4, AppAssumption DEF AppInv, AppTypes, Id
  <2> QED
    BY <2>2, <2>5 DEF Asks
<1>3. \A m \in 1..Len(wk.writes) : req'[wk.writes[m]].kind \in Mutating =>
        \E j \in 1..Len(wk.calls) : wk.calls[j] = wk.writes[m]
  BY <1>1, <1>2 DEF SessionOk
<1>4. \A c, w : Cut(wk, c, w)' <=> Cut(wk, c, w)
  BY <1>1 DEF Cut
<1> QED
  BY <1>1, <1>3, <1>4 DEF SessionMatched, SessionOk, Mutating

\* A command is sent once, with its request.
LEMMA ApplicationKeepsCommands ==
    ASSUME AppInv, WorkerStays, Asks, Sends, Receives
    PROVE  CommandsOnce'
<1>1. issued \in Nat /\ issued' \in Nat /\ issued <= issued' /\ issued < issued + 1
  BY AppAssumption DEF Asks, AppInv, AppTypes
<1>2. /\ Len(mail) \in Nat /\ Len(mail') \in Nat
      /\ \A k \in 1..Len(mail') : \/ k \in 1..Len(mail) /\ mail'[k] = mail[k]
                                  \/ k = Len(mail') /\ k \notin 1..Len(mail) /\ Fresh(mail'[k])
      /\ \A e \in Letters(mail') : e \in Letters(mail) \/ Fresh(e)
  BY SendsFacts
<1>3. \A k \in 1..Len(mail) : mail[k].type = "command" => mail[k].id <= issued /\ mail[k].id \in Id
  BY DEF AppInv, CommandsOnce, Letters, AppTypes, Queue, Addressed
<1>4. \A j \in Id : j <= issued => j # issued + 1
  BY <1>1, AppAssumption DEF Id
<1>5. ASSUME NEW k \in 1..Len(mail'), NEW l \in 1..Len(mail'),
             mail'[k].type = "command", mail'[l].type = "command", mail'[k].id = mail'[l].id
      PROVE  k = l
  <2>1. CASE k \in 1..Len(mail) /\ l \in 1..Len(mail) /\ mail'[k] = mail[k] /\ mail'[l] = mail[l]
    BY <1>5, <2>1 DEF AppInv, CommandsOnce
  <2>2. CASE k \in 1..Len(mail) /\ mail'[k] = mail[k] /\ Fresh(mail'[l])
    BY <1>3, <1>4, <1>5, <2>2 DEF Fresh
  <2>3. CASE l \in 1..Len(mail) /\ mail'[l] = mail[l] /\ Fresh(mail'[k])
    BY <1>3, <1>4, <1>5, <2>3 DEF Fresh
  <2> QED
    BY <1>2, <2>1, <2>2, <2>3
<1>6. ASSUME NEW e \in Letters(mail'), e.type = "command" PROVE e.id <= issued'
  <2>1. CASE e \in Letters(mail)
    <3>1. e.id <= issued /\ e.id \in Id
      BY <1>6, <2>1 DEF AppInv, CommandsOnce, AppTypes, Queue, Addressed
    <3> QED
      BY <1>1, <3>1, AppAssumption DEF Id
  <2>2. CASE Fresh(e)
    BY <1>1, <1>6, <2>2 DEF Fresh
  <2> QED
    BY <1>2, <2>1, <2>2
<1>7. \A i \in Id : Unborn(i)' => Untouched(i)'
  BY AppBirths DEF AppInv, CommandsOnce
<1>8. ASSUME NEW e \in Letters(out'), e.type = "completed" PROVE e.id <= issued'
  <2>1. Queue(out) /\ e \in Letters(out)
    BY ReceivesFacts DEF AppInv, AppTypes
  <2>2. e \in Letter /\ e.id <= issued
    BY <1>8, <2>1, ElementOfSeq DEF AppInv, CommandsOnce, Queue, Letters
  <2>3. e.id \in Nat
    BY <2>2, AppAssumption DEF Letter, Fiber
  <2> QED
    BY <1>1, <2>2, <2>3
<1> QED
  BY <1>5, <1>6, <1>7, <1>8 DEF CommandsOnce, Letters

\* The handles agree with the worker's account.
LEMMA ApplicationKeepsCalls ==
    ASSUME AppInv, WorkerStays, Asks, Sends, Receives, HandleStep
    PROVE  CallsTold' /\ HandlesOfCalls'
<1>1. /\ \A i \in Id : Dead(i) => Dead(i)'
      /\ Queue(out) /\ Letters(out') \subseteq Letters(out) /\ durable' = durable /\ panics' = panics
  BY AppBirths, ReceivesFacts DEF WorkerStays, AppInv, AppTypes
<1>2. ASSUME NEW e \in Letters(out'), e.type = "state"
      PROVE  (e.ok => e.id \in durable.writes) /\ (~e.ok => Dead(e.id)' \/ panics > 0)
  <2>1. e \in Letters(out) /\ e.id \in Id
    BY <1>1, <1>2 DEF Queue, Addressed
  <2> QED
    BY <1>1, <1>2, <2>1 DEF AppInv, CallsTold
<1>3. CallsTold'
  BY <1>1, <1>2 DEF CallsTold, HandleStep, Letters
<1>4. ASSUME NEW i \in Id, handle'[i] # "none" PROVE i <= issued' /\ req'[i].kind \in Mutating
  <2>1. i <= issued /\ req[i].kind \in Mutating
    BY <1>4 DEF HandleStep
  <2>2. issued \in Nat /\ issued' \in Nat /\ issued <= issued'
    BY AppAssumption DEF Asks, AppInv, AppTypes
  <2> QED
    BY <2>1, <2>2, AppAssumption DEF Asks, Id
<1> QED
  BY <1>3, <1>4 DEF HandlesOfCalls

\* The commit of a call still follows its answer.
LEMMA ApplicationKeepsCommits ==
    ASSUME AppInv, WorkerStays, Asks, Receives, HandleStep
    PROVE  CommitFollows'
<1> SUFFICES ASSUME NEW i \in Id, i \in durable.writes, panics = 0, req'[i].kind \in Mutating
             PROVE  /\ handle'[i] = "provisional" =>
                         \E e \in Letters(out') : Says(e, "state", i, TRUE)
                    /\ \A k \in 1..Len(out') : Says(out'[k], "completed", i, TRUE) =>
                         \E l \in 1..Len(out') : k < l /\ Says(out'[l], "state", i, TRUE)
  BY DEF CommitFollows, Announced, Letters, Says, WorkerStays
<1>1. handle'[i] = "provisional" => \E e \in Letters(out') : Says(e, "state", i, TRUE)
  BY DEF HandleStep
<1>2. req[i].kind \in Mutating
  <2>1. ~Untouched(i)
    BY DEF Untouched
  <2>2. ~(i > issued)
    BY <2>1 DEF AppInv, CommandsOnce, Unborn
  <2>3. i <= issued
    BY <2>2, AppAssumption DEF AppInv, AppTypes, Id
  <2> QED
    BY <2>3 DEF Asks
<1>3. /\ Len(out) \in Nat /\ Len(out') \in Nat /\ Len(out') <= Len(out)
      /\ \A k \in 1..Len(out') : /\ k + (Len(out) - Len(out')) \in 1..Len(out)
                                 /\ out'[k] = out[k + (Len(out) - Len(out'))]
  BY ReceivesFacts
<1>4. ASSUME NEW k \in 1..Len(out'), Says(out'[k], "completed", i, TRUE)
      PROVE  \E l \in 1..Len(out') : k < l /\ Says(out'[l], "state", i, TRUE)
  <2>1. PICK d \in Nat : d = Len(out) - Len(out')
    BY <1>3
  <2>2. k + d \in 1..Len(out) /\ Says(out[k + d], "completed", i, TRUE)
    BY <1>3, <1>4, <2>1
  <2>3. PICK l \in 1..Len(out) : k + d < l /\ Says(out[l], "state", i, TRUE)
    BY <1>2, <2>2 DEF AppInv, CommitFollows
  <2>4. l - d \in 1..Len(out') /\ k < l - d /\ (l - d) + d = l
    BY <1>3, <2>1, <2>3
  <2>5. out'[l - d] = out[l]
    BY <1>3, <2>1, <2>4
  <2> QED
    BY <2>3, <2>4, <2>5
<1> QED
  BY <1>1, <1>4

\* Every step of the application's side keeps the invariant.
LEMMA ApplicationKeepsInv ==
    ASSUME AppInv, WorkerStays, Asks, Sends, Receives, BridgeStep, PromiseStep, HandleStep
    PROVE  AppInv'
<1>1. AppTypes' /\ OneSession' /\ EndIsLast' /\ TaskTold' /\ SessionMatched'
  BY ApplicationKeepsTypes, ApplicationKeepsSession, ApplicationKeepsEnd, ApplicationKeepsTask,
     ApplicationKeepsMatch
<1>2. CommandsOnce' /\ CallsTold' /\ HandlesOfCalls' /\ CommitFollows'
  BY ApplicationKeepsCommands, ApplicationKeepsCalls, ApplicationKeepsCommits
<1> QED
  BY <1>1, <1>2 DEF AppInv

\* No request is issued.
LEMMA SameRequests ==
    ASSUME AppInv, issued' = issued, req' = req
    PROVE  Asks
<1>1. issued' \in 0..MaxRequests /\ issued \in Nat
  BY AppAssumption DEF AppInv, AppTypes
<1>2. \A i \in Id : ~(i > issued /\ i <= issued)
  BY <1>1, AppAssumption DEF Id
<1> QED
  BY <1>1, <1>2 DEF Asks, AppInv, AppTypes

\* An answer of the SDK is a letter.
LEMMA SendFacts ==
    ASSUME NEW ok \in BOOLEAN
    PROVE  /\ \A f \in Id : mail' = Send("release", f, ok) => Sends
           /\ \A f \in Id : mail' = Send("rollback", f, ok) => Sends
           /\ \A f \in Id : mail' = Send("localResult", f, ok) => Sends
           /\ mail' = Send("result", 0, ok) => Sends
           /\ mail' = Send("close", 0, ok) => Sends
<1>1. 0 \in Fiber /\ \A f \in Id : f \in Fiber
  BY AppAssumption DEF Id, Fiber
<1>2. ASSUME NEW t \in {"release", "rollback", "localResult"}, NEW f \in Id
      PROVE  mail' = Send(t, f, ok) => Sends
  <2> DEFINE m == [type |-> t, id |-> f, ok |-> ok]
  <2>1. t \in LetterTypes
    BY DEF LetterTypes
  <2>2. m \in Letter
    BY <1>1, <2>1 DEF Letter
  <2>3. Fresh(m)
    BY DEF Fresh
  <2> QED
    BY <2>2, <2>3 DEF Sends, Send
<1>3. ASSUME NEW t \in {"result", "close"} PROVE mail' = Send(t, 0, ok) => Sends
  <2> DEFINE m == [type |-> t, id |-> 0, ok |-> ok]
  <2>1. t \in LetterTypes
    BY DEF LetterTypes
  <2>2. m \in Letter
    BY <1>1, <2>1 DEF Letter
  <2>3. Fresh(m)
    BY DEF Fresh, Addressed
  <2> QED
    BY <2>2, <2>3 DEF Sends, Send
<1> QED
  BY <1>2, <1>3

\* The promise stays as it was, and no answer to it is taken.
LEMMA SamePromise ==
    ASSUME AppInv,
           task' = [promise |-> task.promise, callback |-> task'.callback],
           \A e \in Letters(out) : e \in Letters(out') \/ ~Says(e, "completed", 0, TRUE)
    PROVE  PromiseStep
<1>1. task'.promise = task.promise
  OBVIOUS
<1>2. TaskTold /\ task.promise \in {"pending", "resolved", "rejected"}
  BY DEF AppInv, AppTypes
<1> QED
  BY <1>1, <1>2 DEF PromiseStep, TaskTold, Announced

\* The handles stay as they were, and no commit is taken.
LEMMA SameHandles ==
    ASSUME AppInv, handle' = handle,
           \A e \in Letters(out) : e \in Letters(out') \/ e.type # "state"
    PROVE  HandleStep
<1>1. /\ HandlesOfCalls /\ CallsTold /\ CommitFollows
      /\ handle \in [Id -> {"none", "provisional", "committed", "rolledBack"}]
  BY DEF AppInv, AppTypes
<1>2. ASSUME NEW i \in Id, handle[i] = "provisional", i \in durable.writes, panics = 0
      PROVE  \E e \in Letters(out') : Says(e, "state", i, TRUE)
  <2>1. PICK e \in Letters(out) : Says(e, "state", i, TRUE)
    BY <1>1, <1>2 DEF HandlesOfCalls, CommitFollows, Announced
  <2> QED
    BY <2>1 DEF Says
<1> QED
  BY <1>1, <1>2 DEF HandleStep, HandlesOfCalls, CallsTold

\* The runtime has ended and its events are dispatched: the Calls left are
\* discarded, and none of them is durable.
LEMMA DiscardedHandles ==
    ASSUME AppInv, ~wk.up, \A e \in Letters(out) : e.type # "state",
           handle' = handle \/ handle' = [i \in Id |-> Discard(handle[i])]
    PROVE  HandleStep
<1>1. /\ HandlesOfCalls /\ CallsTold /\ CommitFollows /\ panics \in Nat
      /\ handle \in [Id -> {"none", "provisional", "committed", "rolledBack"}]
  BY DEF AppInv, AppTypes
<1>2. ASSUME NEW i \in Id, handle[i] = "provisional" PROVE i \notin durable.writes \/ panics > 0
  <2>1. ~Announced("state", i, TRUE)
    BY DEF Announced, Says
  <2>2. i \notin durable.writes \/ panics # 0
    BY <1>1, <1>2, <2>1 DEF HandlesOfCalls, CommitFollows
  <2> QED
    BY <1>1, <2>2
<1>3. ASSUME NEW i \in Id, handle[i] = "provisional" PROVE Dead(i) \/ panics > 0
  BY <1>2, <1>3 DEF Dead
<1>4. \A i \in Id : /\ handle'[i] \in {"none", "provisional", "committed", "rolledBack"}
                    /\ handle'[i] = handle[i]
                         \/ (handle[i] = "provisional" /\ handle'[i] = "rolledBack")
  BY <1>1 DEF Discard, Transition
<1>5. handle' \in [Id -> {"none", "provisional", "committed", "rolledBack"}]
  BY <1>1, <1>4
<1>6. panics > 0 => panics # 0
  BY <1>1
<1>7. ASSUME NEW i \in Id
      PROVE  /\ handle'[i] # "none" => i <= issued /\ req[i].kind \in Mutating
             /\ handle'[i] = "committed" => i \in durable.writes
             /\ handle'[i] = "rolledBack" => Dead(i) \/ panics > 0
             /\ ~(handle'[i] = "provisional" /\ i \in durable.writes /\ panics = 0)
  BY <1>1, <1>2, <1>3, <1>4, <1>6 DEF HandlesOfCalls, CallsTold
<1> QED
  BY <1>5, <1>7 DEF HandleStep

\* A step that changes the promise's callback at most, and sends an input or
\* none.
LEMMA QuietKeepsInv ==
    ASSUME AppInv, WorkerStays, Asks, Sends, out' = out, handle' = handle,
           task' = [promise |-> task.promise, callback |-> task'.callback],
           bridge' = "closed" => bridge = "closed"
    PROVE  AppInv'
<1>1. Receives
  BY DEF Receives
<1>2. PromiseStep
  BY SamePromise
<1>3. HandleStep
  BY SameHandles
<1>4. BridgeStep
  BY DEF BridgeStep, AppInv, EndIsLast
<1> QED
  BY <1>1, <1>2, <1>3, <1>4, ApplicationKeepsInv

\* A command is issued with a request of its own; once the bridge is closing
\* it fails unsent.
LEMMA IssueKeepsInv ==
    ASSUME AppInv, NEW f, NEW kind \in Kinds, NEW await, Issue(f, kind, await)
    PROVE  AppInv'
<1>1. PICK i : i = issued + 1
  OBVIOUS
<1>2. /\ issued < MaxRequests /\ issued' = i /\ WorkerStays
      /\ out' = out /\ handle' = handle /\ task' = task /\ bridge' = bridge
  BY <1>1 DEF Issue, WorkerStays, workerVars
<1>3. mail' = mail \/ mail' = Send("command", i, TRUE)
  BY <1>1 DEF Issue
<1>4. issued \in Nat /\ issued \in 0..MaxRequests /\ MaxRequests \in Nat
  BY AppAssumption DEF AppInv, AppTypes
<1>5. i \in Id /\ i \in Fiber /\ i \in 0..MaxRequests
  BY <1>1, <1>2, <1>4 DEF Id, Fiber
<1> DEFINE r == [kind |-> kind, by |-> f, scope |-> ScopeOf(sdk.active),
                 st |-> IF bridge = "open" THEN "sent" ELSE "failed"]
<1>6. req' = [req EXCEPT ![i] = r] /\ IsRequest(r) /\ r.kind = kind
  BY <1>1 DEF Issue, IsRequest
<1> HIDE DEF r
<1>7. DOMAIN req = Id /\ \A j \in Id : IsRequest(req[j])
  BY DEF AppInv, AppTypes
<1>8. \A j \in Id : req'[j] = IF j = i THEN r ELSE req[j]
  BY <1>5, <1>6, <1>7
<1>9. \A j \in Id : (j <= issued => j # i) /\ (j > issued /\ j <= i => j = i)
  BY <1>1, <1>4, AppAssumption DEF Id
<1>10. Asks
  BY <1>1, <1>2, <1>5, <1>6, <1>7, <1>8, <1>9 DEF Asks
<1>11. Sends
  <2> DEFINE m == [type |-> "command", id |-> i, ok |-> TRUE]
  <2>1. m \in Letter
    BY <1>5 DEF Letter, LetterTypes
  <2>2. Fresh(m)
    BY <1>1, <1>2, <1>5 DEF Fresh
  <2> QED
    BY <1>3, <2>1, <2>2 DEF Sends, Send
<1>12. task' = [promise |-> task.promise, callback |-> task'.callback]
  BY <1>2 DEF AppInv, AppTypes
<1> QED
  BY <1>2, <1>10, <1>11, <1>12, QuietKeepsInv

\* The steps of the SDK's own fibers.
LEMMA SdkKeepsInv ==
    ASSUME AppInv,
           \/ \E f \in Fiber : Refused(f) \/ \E ok \in BOOLEAN : End(f, ok)
           \/ SdkStep
    PROVE  AppInv'
<1>1. /\ WorkerStays /\ issued' = issued /\ req' = req /\ out' = out /\ handle' = handle
      /\ bridge' = bridge
  BY DEF Refused, End, SdkStep, Finish, StartBody, FinishLocal, Release, Spoiled, Undo, Closed,
         StartLocal, WorkerStays, workerVars
<1>2. Asks
  BY <1>1, SameRequests
<1>3. task = [promise |-> task.promise, callback |-> task.callback]
  BY DEF AppInv, AppTypes
<1>4. task' = task \/ \E c : task' = [task EXCEPT !.callback = c]
  BY DEF Refused, End, SdkStep, Finish, StartBody, FinishLocal, Release, Spoiled, Undo, Closed,
         StartLocal
<1>5. task' = [promise |-> task.promise, callback |-> task'.callback]
  BY <1>3, <1>4
<1>6. \/ mail' = mail
      \/ mail' = Send("result", 0, Clean)
      \/ \E f \in Id : \/ mail' = Send("release", f, TRUE) \/ mail' = Send("rollback", f, TRUE)
                       \/ \E ok \in BOOLEAN : mail' = Send("localResult", f, ok)
  <2>1. CASE Finish
    BY <2>1 DEF Finish
  <2>2. ASSUME NEW f \in Id, FinishLocal(f)
        PROVE  mail' = mail \/ \E ok \in BOOLEAN : mail' = Send("localResult", f, ok)
    <3>1. PICK ok \in BOOLEAN : ok = (fiber[f].ok /\ ~fiber[f].late /\ fiber[f].failure = 0)
      OBVIOUS
    <3> QED
      BY <2>2, <3>1 DEF FinishLocal
  <2>3. ASSUME NEW f \in Id, Release(f) \/ Undo(f)
        PROVE  mail' = mail \/ mail' = Send("release", f, TRUE) \/ mail' = Send("rollback", f, TRUE)
    BY <2>3 DEF Release, Undo, CloseCommand
  <2>4. (\E f \in Fiber : Refused(f) \/ \E ok \in BOOLEAN : End(f, ok)) => mail' = mail
    BY DEF Refused, End
  <2>5. StartBody \/ (\E f \in Id : Spoiled(f) \/ Closed(f) \/ StartLocal(f)) => mail' = mail
    BY DEF StartBody, Spoiled, Closed, StartLocal
  <2> QED
    BY <2>1, <2>2, <2>3, <2>4, <2>5 DEF SdkStep
<1>7. Clean \in BOOLEAN
  BY DEF Clean
<1>8. Sends
  BY <1>6, <1>7, SendFacts DEF Sends
<1> QED
  BY <1>1, <1>2, <1>5, <1>8, QuietKeepsInv

\* Client.close asks the runtime to end, or discards what is left of one that
\* has.
LEMMA CloseClientKeepsInv == AppInv /\ CloseClient => AppInv'
<1> SUFFICES ASSUME AppInv, CloseClient PROVE AppInv'
  OBVIOUS
<1>1. WorkerStays /\ issued' = issued /\ req' = req /\ out' = out /\ task' = task
  BY DEF CloseClient, WorkerStays, workerVars
<1>2. Asks
  BY <1>1, SameRequests
<1>3. task' = [promise |-> task.promise, callback |-> task'.callback]
  BY <1>1 DEF AppInv, AppTypes
<1>4. CASE bridge = "closed"
  <2>1. /\ handle' = [i \in Id |-> Discard(handle[i])] /\ mail' = mail /\ bridge' = bridge
        /\ ~wk.up /\ out = <<>>
    BY <1>4 DEF CloseClient, AppInv, EndIsLast
  <2>2. Letters(out) = {}
    BY <2>1, ShortQueues
  <2>3. Sends /\ Receives /\ BridgeStep
    BY <1>1, <2>1 DEF Sends, Receives, BridgeStep
  <2>4. HandleStep
    BY <2>1, <2>2, DiscardedHandles
  <2>5. PromiseStep
    BY <1>3, <2>2, SamePromise
  <2> QED
    BY <1>1, <1>2, <2>3, <2>4, <2>5, ApplicationKeepsInv
<1>5. CASE bridge # "closed"
  <2>1. mail' = Send("close", 0, TRUE) /\ handle' = handle /\ bridge' = "closing"
    BY <1>5 DEF CloseClient
  <2>2. Sends
    BY <2>1, SendFacts
  <2> QED
    BY <1>1, <1>2, <1>3, <2>1, <2>2, QuietKeepsInv
<1> QED
  BY <1>4, <1>5

\* The event the bridge takes.
LEMMA DispatchFacts ==
    ASSUME AppInv, Dispatch
    PROVE  /\ WorkerStays /\ issued' = issued /\ Sends /\ Receives
           /\ Head(out) \in Letters(out) /\ Head(out) \in Letter /\ Head(out) = out[1]
           /\ Head(out).type \in Addressed => Head(out).id \in Id
           /\ Queue(out) /\ Len(out) \in Nat /\ 1 \in 1..Len(out) /\ bridge # "closed"
           /\ \A e \in Letters(out) : e \in Letters(out') \/ e = Head(out)
           /\ \A k \in 1..Len(out) : k # 1 => out[k] \in Letters(out')
<1>1. Queue(out) /\ out # <<>> /\ out' = Tail(out) /\ bridge # "closed"
  BY DEF AppInv, AppTypes, Dispatch
<1>2. WorkerStays /\ issued' = issued /\ mail' = mail
  BY DEF Dispatch, WorkerStays, workerVars
<1>3. /\ Head(out) \in Letter /\ Head(out) = out[1]
      /\ Head(out).type \in Addressed => Head(out).id \in Id
      /\ Letters(out) = {Head(out)} \cup Letters(out')
      /\ Len(out) \in Nat /\ 1 \in 1..Len(out)
      /\ \A k \in 1..Len(out) : k # 1 => k - 1 \in 1..Len(out') /\ out'[k - 1] = out[k]
  BY <1>1, TailQueue
<1>4. \A k \in 1..Len(out) : k # 1 => out[k] \in Letters(out')
  BY <1>3 DEF Letters
<1> QED
  BY <1>1, <1>2, <1>3, <1>4 DEF Sends, Receives

\* An event that answers neither the promise nor a Call.
LEMMA IdleDispatch ==
    ASSUME AppInv, Dispatch, req' = req, handle' = handle, bridge' = bridge,
           task' = [promise |-> task.promise, callback |-> task'.callback],
           Head(out).type # "state", ~Says(Head(out), "completed", 0, TRUE)
    PROVE  AppInv'
<1>1. /\ WorkerStays /\ issued' = issued /\ Sends /\ Receives /\ bridge # "closed"
      /\ \A e \in Letters(out) : e \in Letters(out') \/ e = Head(out)
  BY DispatchFacts
<1>2. Asks
  BY <1>1, SameRequests
<1>3. PromiseStep
  BY <1>1, SamePromise
<1>4. HandleStep
  BY <1>1, SameHandles
<1>5. BridgeStep
  BY <1>1 DEF BridgeStep
<1> QED
  BY <1>1, <1>2, <1>3, <1>4, <1>5, ApplicationKeepsInv

\* The promise is answered.
LEMMA PromiseDispatch ==
    ASSUME AppInv, Dispatch, Head(out).type = "completed", Head(out).id = 0
    PROVE  AppInv'
<1>1. /\ WorkerStays /\ issued' = issued /\ Sends /\ Receives /\ bridge # "closed"
      /\ \A e \in Letters(out) : e \in Letters(out') \/ e = Head(out)
      /\ Head(out) \in Letters(out) /\ Head(out).ok \in BOOLEAN
  BY DispatchFacts DEF Letter
<1>2. /\ task' = [task EXCEPT !.promise = IF Head(out).ok THEN "resolved" ELSE "rejected"]
      /\ req' = req /\ handle' = handle /\ bridge' = bridge
  BY DEF Dispatch
<1>3. task = [promise |-> task.promise, callback |-> task.callback]
  BY DEF AppInv, AppTypes
<1>4. /\ task'.promise = IF Head(out).ok THEN "resolved" ELSE "rejected"
      /\ task' = [promise |-> task'.promise, callback |-> task'.callback]
  BY <1>2, <1>3
<1>5. PromiseStep
  <2>1. CASE Head(out).ok
    BY <1>4, <2>1 DEF PromiseStep
  <2>2. CASE ~Head(out).ok
    <3>1. Announced("completed", 0, FALSE)
      BY <1>1, <2>2 DEF Announced, Says
    <3>2. Over /\ (~durable.committed \/ panics > 0) /\ panics \in Nat
      BY <3>1 DEF AppInv, TaskTold, AppTypes
    <3>3. ~(durable.committed /\ panics = 0)
      BY <3>2
    <3>4. task'.promise = "rejected"
      BY <1>4, <2>2
    <3> QED
      BY <1>4, <3>2, <3>3, <3>4 DEF PromiseStep
  <2> QED
    BY <2>1, <2>2
<1>6. Asks
  BY <1>1, <1>2, SameRequests
<1>7. HandleStep
  BY <1>1, <1>2, SameHandles
<1>8. BridgeStep
  BY <1>1, <1>2 DEF BridgeStep
<1> QED
  BY <1>1, <1>5, <1>6, <1>7, <1>8, ApplicationKeepsInv

\* A command is answered; a Mutation accepted becomes a Call.
LEMMA AnswerDispatch ==
    ASSUME AppInv, Dispatch, Head(out).type = "completed", Head(out).id # 0,
           req[Head(out).id].st = "sent"
    PROVE  AppInv'
<1>1. /\ WorkerStays /\ issued' = issued /\ Sends /\ Receives /\ bridge # "closed"
      /\ \A e \in Letters(out) : e \in Letters(out') \/ e = Head(out)
      /\ Head(out) \in Letters(out) /\ Head(out) \in Letter /\ Head(out) = out[1]
      /\ Len(out) \in Nat /\ 1 \in 1..Len(out)
      /\ \A k \in 1..Len(out) : k # 1 => out[k] \in Letters(out')
  BY DispatchFacts
<1>2. PICK i : i = Head(out).id
  OBVIOUS
<1>3. i \in Id /\ i <= issued /\ Head(out).ok \in BOOLEAN
  <2>1. i \in Fiber /\ i # 0 /\ Head(out).ok \in BOOLEAN
    BY <1>1, <1>2 DEF Letter
  <2>2. i <= issued
    BY <1>1, <1>2 DEF AppInv, CommandsOnce
  <2> QED
    BY <2>1, <2>2, AppAssumption DEF Id, Fiber
<1>4. /\ \E st : req' = [req EXCEPT ![i].st = st]
      /\ handle' = IF Head(out).ok /\ req[i].kind \in Mutating
                     THEN [handle EXCEPT ![i] = "provisional"] ELSE handle
      /\ task' = task /\ bridge' = bridge
  BY <1>2 DEF Dispatch, Mutating
<1>5. Asks
  <2>1. PICK st : req' = [req EXCEPT ![i].st = st]
    BY <1>4
  <2>2. issued' \in 0..MaxRequests /\ issued \in Nat /\ DOMAIN req = Id
        /\ \A j \in Id : IsRequest(req[j])
    BY <1>1, AppAssumption DEF AppInv, AppTypes
  <2>3. DOMAIN req' = Id /\ \A j \in Id : j # i => req'[j] = req[j]
    BY <2>1, <2>2
  <2>4. req'[i] = [req[i] EXCEPT !.st = st]
    BY <1>3, <2>1, <2>2
  <2>5. IsRequest(req'[i]) /\ req'[i].kind = req[i].kind
    BY <1>3, <2>2, <2>4 DEF IsRequest
  <2>6. \A j \in Id : ~(j > issued /\ j <= issued)
    BY <2>2, AppAssumption DEF Id
  <2> QED
    BY <1>1, <2>2, <2>3, <2>5, <2>6 DEF Asks
<1>6. PromiseStep
  <2>1. task' = [promise |-> task.promise, callback |-> task'.callback]
    BY <1>4 DEF AppInv, AppTypes
  <2>2. ~Says(Head(out), "completed", 0, TRUE)
    BY DEF Says
  <2> QED
    BY <1>1, <2>1, <2>2, SamePromise
<1>7. HandleStep
  <2>1. CASE handle' = handle
    BY <1>1, <2>1, SameHandles
  <2>2. CASE /\ Head(out).ok /\ req[i].kind \in Mutating
             /\ handle' = [handle EXCEPT ![i] = "provisional"]
    <3>1. /\ HandlesOfCalls /\ CallsTold /\ CommitFollows
          /\ handle \in [Id -> {"none", "provisional", "committed", "rolledBack"}]
      BY DEF AppInv, AppTypes
    <3>2. /\ handle' \in [Id -> {"none", "provisional", "committed", "rolledBack"}]
          /\ handle'[i] = "provisional" /\ \A j \in Id : j # i => handle'[j] = handle[j]
      BY <1>3, <2>2, <3>1
    <3>3. ASSUME i \in durable.writes, panics = 0
          PROVE  \E e \in Letters(out') : Says(e, "state", i, TRUE)
      <4>1. Says(out[1], "completed", i, TRUE)
        BY <1>1, <1>2, <1>3, <2>2 DEF Says
      <4>2. PICK l \in 1..Len(out) : 1 < l /\ Says(out[l], "state", i, TRUE)
        BY <1>1, <1>3, <2>2, <3>1, <3>3, <4>1 DEF CommitFollows
      <4>3. l # 1
        BY <4>2
      <4> QED
        BY <1>1, <4>2, <4>3
    <3>4. ASSUME NEW j \in Id, handle[j] = "provisional", j \in durable.writes, panics = 0
          PROVE  \E e \in Letters(out') : Says(e, "state", j, TRUE)
      <4>1. PICK e \in Letters(out) : Says(e, "state", j, TRUE)
        BY <3>1, <3>4 DEF HandlesOfCalls, CommitFollows, Announced
      <4> QED
        BY <1>1, <4>1 DEF Says
    <3>5. ASSUME NEW j \in Id
          PROVE  /\ handle'[j] # "none" => j <= issued /\ req[j].kind \in Mutating
                 /\ handle'[j] = "committed" => j \in durable.writes
                 /\ handle'[j] = "rolledBack" => Dead(j) \/ panics > 0
                 /\ handle'[j] = "provisional" /\ j \in durable.writes /\ panics = 0 =>
                      \E e \in Letters(out') : Says(e, "state", j, TRUE)
      <4>1. CASE j = i
        BY <1>3, <2>2, <3>2, <3>3, <4>1
      <4>2. CASE j # i
        BY <3>1, <3>2, <3>4, <4>2 DEF HandlesOfCalls, CallsTold
      <4> QED
        BY <4>1, <4>2
    <3> QED
      BY <3>2, <3>5 DEF HandleStep
  <2> QED
    BY <1>4, <2>1, <2>2
<1>8. BridgeStep
  BY <1>1, <1>4 DEF BridgeStep
<1> QED
  BY <1>1, <1>5, <1>6, <1>7, <1>8, ApplicationKeepsInv

\* A Call learns its fate.
LEMMA StateDispatch ==
    ASSUME AppInv, Dispatch, Head(out).type = "state"
    PROVE  AppInv'
<1>1. /\ WorkerStays /\ issued' = issued /\ Sends /\ Receives /\ bridge # "closed"
      /\ \A e \in Letters(out) : e \in Letters(out') \/ e = Head(out)
      /\ Head(out) \in Letters(out) /\ Head(out).id \in Id
  BY DispatchFacts DEF Addressed
<1>2. PICK i \in Id : i = Head(out).id
  BY <1>1
<1>3. /\ handle' = [handle EXCEPT ![i] = Transition(@, IF Head(out).ok THEN "committed"
                                                       ELSE "rolledBack")]
      /\ req' = req /\ task' = task /\ bridge' = bridge
  BY <1>2 DEF Dispatch
<1>4. /\ HandlesOfCalls /\ CallsTold /\ CommitFollows
      /\ handle \in [Id -> {"none", "provisional", "committed", "rolledBack"}]
  BY DEF AppInv, AppTypes
<1>5. /\ Head(out).ok => i \in durable.writes
      /\ ~Head(out).ok => Dead(i) \/ panics > 0
  BY <1>1, <1>2, <1>4 DEF CallsTold
<1>6. /\ \A j \in Id : j # i => handle'[j] = handle[j]
      /\ handle[i] # "provisional" => handle'[i] = handle[i]
      /\ handle[i] = "provisional" => handle'[i] = IF Head(out).ok THEN "committed" ELSE "rolledBack"
  BY <1>3, <1>4 DEF Transition
<1>7. handle' \in [Id -> {"none", "provisional", "committed", "rolledBack"}]
  BY <1>3, <1>4 DEF Transition
<1>8. ASSUME NEW j \in Id
      PROVE  /\ handle'[j] # "none" => j <= issued /\ req[j].kind \in Mutating
             /\ handle'[j] = "committed" => j \in durable.writes
             /\ handle'[j] = "rolledBack" => Dead(j) \/ panics > 0
             /\ handle'[j] = "provisional" /\ j \in durable.writes /\ panics = 0 =>
                  \E e \in Letters(out') : Says(e, "state", j, TRUE)
  <2>1. CASE j = i
    BY <1>4, <1>5, <1>6, <2>1 DEF HandlesOfCalls, CallsTold
  <2>2. CASE j # i
    <3>1. ASSUME handle[j] = "provisional", j \in durable.writes, panics = 0
          PROVE  \E e \in Letters(out') : Says(e, "state", j, TRUE)
      <4>1. PICK e \in Letters(out) : Says(e, "state", j, TRUE)
        BY <1>4, <3>1 DEF HandlesOfCalls, CommitFollows, Announced
      <4> QED
        BY <1>1, <1>2, <2>2, <4>1 DEF Says
    <3> QED
      BY <1>4, <1>6, <2>2, <3>1 DEF HandlesOfCalls, CallsTold
  <2> QED
    BY <2>1, <2>2
<1>9. HandleStep
  BY <1>7, <1>8 DEF HandleStep
<1>10. Asks
  BY <1>1, <1>3, SameRequests
<1>11. PromiseStep
  <2>1. task' = [promise |-> task.promise, callback |-> task'.callback]
    BY <1>3 DEF AppInv, AppTypes
  <2>2. ~Says(Head(out), "completed", 0, TRUE)
    BY DEF Says
  <2> QED
    BY <1>1, <2>1, <2>2, SamePromise
<1>12. BridgeStep
  BY <1>1, <1>3 DEF BridgeStep
<1> QED
  BY <1>1, <1>9, <1>10, <1>11, <1>12, ApplicationKeepsInv

\* The runtime ended: nothing else is on its way, and what still waits is
\* rejected.
LEMMA EndDispatch ==
    ASSUME AppInv, Dispatch, Head(out).type = "end"
    PROVE  AppInv'
<1>1. /\ WorkerStays /\ issued' = issued /\ Sends /\ Receives
      /\ Queue(out) /\ Head(out) = out[1] /\ Len(out) \in Nat /\ 1 \in 1..Len(out)
      /\ out # <<>> /\ out' = Tail(out)
  BY DispatchFacts DEF Dispatch
<1>2. Len(out) = 1 /\ ~wk.up
  BY <1>1 DEF AppInv, EndIsLast
<1>3. Letters(out) = {Head(out)}
  BY <1>1, <1>2 DEF Letters
<1>4. out' = <<>>
  <2>1. Tail(out) \in Seq(Letter) /\ Len(Tail(out)) = Len(out) - 1
    BY <1>1, HeadTailProperties DEF Queue
  <2>2. Len(Tail(out)) = 0
    BY <1>2, <2>1
  <2> QED
    BY <1>1, <2>1, <2>2, EmptySeq
<1>5. /\ bridge' = "closed"
      /\ task' = [task EXCEPT !.promise = IF @ = "pending" THEN "rejected" ELSE @]
      /\ req' = [i \in Id |-> IF req[i].st = "sent"
                                THEN [req[i] EXCEPT !.st = "failed"] ELSE req[i]]
      /\ handle' = handle \/ handle' = [i \in Id |-> Discard(handle[i])]
  BY DEF Dispatch
<1>6. Asks
  <2>1. issued' \in 0..MaxRequests /\ issued \in Nat /\ \A j \in Id : IsRequest(req[j])
    BY <1>1, AppAssumption DEF AppInv, AppTypes
  <2>2. DOMAIN req' = Id
    BY <1>5
  <2>3. ASSUME NEW j \in Id PROVE IsRequest(req'[j]) /\ req'[j].kind = req[j].kind
    <3>1. IsRequest(req[j])
      BY <2>1
    <3>2. req'[j] = [req[j] EXCEPT !.st = "failed"] \/ req'[j] = req[j]
      BY <1>5
    <3> QED
      BY <3>1, <3>2 DEF IsRequest
  <2>4. \A j \in Id : ~(j > issued /\ j <= issued)
    BY <2>1, AppAssumption DEF Id
  <2> QED
    BY <1>1, <2>1, <2>2, <2>3, <2>4 DEF Asks
<1>7. HandleStep
  BY <1>2, <1>3, <1>5, DiscardedHandles
<1>8. PromiseStep
  <2>1. /\ task = [promise |-> task.promise, callback |-> task.callback]
        /\ task.promise \in {"pending", "resolved", "rejected"} /\ panics \in Nat
    BY DEF AppInv, AppTypes
  <2>2. /\ task' = [promise |-> task'.promise, callback |-> task'.callback]
        /\ task'.promise = IF task.promise = "pending" THEN "rejected" ELSE task.promise
    BY <1>5, <2>1
  <2>3. Over
    BY <1>2 DEF AppInv, OneSession, Over
  <2>4. ~Announced("completed", 0, TRUE)
    BY <1>3 DEF Announced, Says
  <2>5. durable.committed /\ panics = 0 => task.promise = "resolved"
    BY <2>4 DEF AppInv, TaskTold
  <2>6. durable.committed => panics = 0 \/ panics > 0
    BY <2>1
  <2>7. task.promise = "rejected" => ~durable.committed \/ panics > 0
    BY DEF AppInv, TaskTold
  <2>8. durable.committed \in BOOLEAN
    BY DEF AppInv, AppTypes, Committed
  <2> QED
    BY <2>1, <2>2, <2>3, <2>5, <2>6, <2>7, <2>8 DEF PromiseStep
<1>9. BridgeStep
  BY <1>2, <1>4 DEF BridgeStep
<1> QED
  BY <1>1, <1>6, <1>7, <1>8, <1>9, ApplicationKeepsInv

\* Every event the bridge takes.
LEMMA DispatchKeepsInv == AppInv /\ Dispatch => AppInv'
<1> SUFFICES ASSUME AppInv, Dispatch PROVE AppInv'
  OBVIOUS
<1>1. task = [promise |-> task.promise, callback |-> task.callback]
  BY DEF AppInv, AppTypes
<1>2. CASE Head(out).type = "completed" /\ Head(out).id = 0
  BY <1>2, PromiseDispatch
<1>3. CASE Head(out).type = "completed" /\ Head(out).id # 0 /\ req[Head(out).id].st = "sent"
  BY <1>3, AnswerDispatch
<1>4. CASE Head(out).type = "state"
  BY <1>4, StateDispatch
<1>5. CASE Head(out).type = "end"
  BY <1>5, EndDispatch
<1>6. CASE /\ ~(Head(out).type = "completed" /\ Head(out).id = 0)
           /\ ~(Head(out).type = "completed" /\ Head(out).id # 0 /\ req[Head(out).id].st = "sent")
           /\ Head(out).type \notin {"state", "end"}
  <2>1. /\ req' = req /\ handle' = handle /\ bridge' = bridge
        /\ task' = task \/ task' = [task EXCEPT !.callback = "asked"]
    <3>1. CASE Head(out).type = "callback"
      BY <3>1 DEF Dispatch
    <3>2. CASE Head(out).type = "local"
      BY <3>2 DEF Dispatch
    <3>3. CASE Head(out).type = "closed" /\ Head(out).id # 0
      BY <3>3 DEF Dispatch
    <3>4. CASE /\ Head(out).type \notin {"callback", "local"}
               /\ ~(Head(out).type = "closed" /\ Head(out).id # 0)
      BY <1>6, <3>4 DEF Dispatch
    <3> QED
      BY <3>1, <3>2, <3>3, <3>4
  <2>2. task' = [promise |-> task.promise, callback |-> task'.callback]
    BY <1>1, <2>1
  <2>3. Head(out).type # "state" /\ ~Says(Head(out), "completed", 0, TRUE)
    BY <1>6 DEF Says
  <2> QED
    BY <2>1, <2>2, <2>3, IdleDispatch
<1> QED
  BY <1>2, <1>3, <1>4, <1>5, <1>6

----------------------------------------------------------------------------
(***************************************************************************)
(* The theorems.                                                           *)
(***************************************************************************)

\* A client that has sent its transaction task and nothing else.
LEMMA InitAppInv == Init => AppInv
<1> SUFFICES ASSUME Init PROVE AppInv
  OBVIOUS
<1> DEFINE m == [type |-> "transaction", id |-> 0, ok |-> TRUE]
<1>1. /\ issued = 0 /\ req = [i \in Id |-> NoRequest] /\ handle = [i \in Id |-> "none"]
      /\ task = [promise |-> "pending", callback |-> "sent"] /\ bridge = "open"
      /\ mail = <<m>> /\ out = <<>> /\ wk = NoWorkerTx
      /\ durable = [committed |-> FALSE, writes |-> {}] /\ panics = 0
  BY DEF Init
<1>2. m \in Letter /\ m.type = "transaction" /\ m.type \notin Addressed
  BY AppAssumption DEF Letter, LetterTypes, Fiber, Addressed
<1> HIDE DEF m
<1>3. /\ Queue(mail) /\ Letters(mail) = {m} /\ Len(mail) = 1 /\ mail[1] = m
      /\ Queue(out) /\ Letters(out) = {} /\ Len(out) = 0
  BY <1>1, <1>2, ShortQueues
<1>4. wk \in Session /\ wk.writes = <<>> /\ wk.local = 0 /\ ~wk.open /\ wk.up
  <2>1. 0 \in Fiber
    BY AppAssumption DEF Fiber
  <2> QED
    BY <1>1, <2>1, EmptySeq DEF NoWorkerTx, Session
<1>5. AppTypes
  <2>1. \A i \in Id : IsRequest(req[i]) /\ ~(i <= issued)
    BY <1>1, AppAssumption DEF IsRequest, NoRequest, Id
  <2>2. durable \in Committed
    BY <1>1 DEF Committed
  <2>3. issued \in 0..MaxRequests /\ panics \in Nat /\ DOMAIN req = Id
    BY <1>1, AppAssumption
  <2>4. handle \in [Id -> {"none", "provisional", "committed", "rolledBack"}]
    BY <1>1
  <2> QED
    BY <1>1, <1>3, <1>4, <2>1, <2>2, <2>3, <2>4 DEF AppTypes
<1>6. OneSession
  <2>1. Unopened
    BY <1>2, <1>3 DEF Unopened
  <2>2. \A k \in 1..Len(mail) : k = 1
    BY <1>3
  <2> QED
    BY <1>1, <1>4, <2>1, <2>2 DEF OneSession
<1>7. EndIsLast /\ TaskTold
  <2>1. \A k \in 1..Len(out) : FALSE
    BY <1>3
  <2> QED
    BY <1>1, <1>3, <2>1 DEF EndIsLast, TaskTold, Announced
<1>8. SessionMatched
  <2>1. /\ NoWorkerTx.writes = <<>> /\ NoWorkerTx.calls = <<>> /\ NoWorkerTx.marks = <<>>
        /\ NoWorkerTx.scopes = <<>> /\ NoWorkerTx.local = 0
    BY DEF NoWorkerTx
  <2> QED
    BY <1>1, <2>1, EmptyOk DEF SessionMatched
<1>9. CommandsOnce
  <2>1. \A i \in Id : Untouched(i)
    BY <1>1, <1>4, AppAssumption DEF Untouched, Written, Id
  <2>2. \A k \in 1..Len(mail) : mail[k].type # "command"
    BY <1>2, <1>3
  <2> QED
    BY <1>2, <1>3, <2>1, <2>2 DEF CommandsOnce
<1>10. CallsTold /\ CommitFollows /\ HandlesOfCalls
  BY <1>1, <1>3 DEF CallsTold, CommitFollows, HandlesOfCalls
<1> QED
  BY <1>5, <1>6, <1>7, <1>8, <1>9, <1>10 DEF AppInv

\* Every step of the client keeps it.
LEMMA NextAppInv == AppInv /\ [Next]_vars => AppInv'
<1> SUFFICES ASSUME AppInv, [Next]_vars PROVE AppInv'
  OBVIOUS
<1>1. CASE \E f \in Fiber : FiberStep(f)
  BY <1>1, IssueKeepsInv, SdkKeepsInv DEF FiberStep
<1>2. CASE SdkStep
  BY <1>2, SdkKeepsInv
<1>3. CASE Dispatch
  BY <1>3, DispatchKeepsInv
<1>4. CASE CloseClient
  BY <1>4, CloseClientKeepsInv
<1>5. CASE WorkerStep
  BY <1>5, OpenTransactionKeepsInv, RunCommandKeepsInv, ReleaseScopeKeepsInv,
     RollbackScopeKeepsInv, FinishLocalCallbackKeepsInv, FinishTransactionKeepsInv,
     CloseRuntimeKeepsInv DEF WorkerStep
<1>6. CASE Panic
  BY <1>6, PanicKeepsInv
<1>7. CASE UNCHANGED vars
  <2>1. WorkerStays /\ issued' = issued /\ req' = req /\ out' = out /\ handle' = handle
        /\ mail' = mail /\ task' = task /\ bridge' = bridge
    BY <1>7 DEF vars, WorkerStays
  <2>2. Asks
    BY <2>1, SameRequests
  <2>3. Sends
    BY <2>1 DEF Sends
  <2>4. task' = [promise |-> task.promise, callback |-> task'.callback]
    BY <2>1 DEF AppInv, AppTypes
  <2> QED
    BY <2>1, <2>2, <2>3, <2>4, QuietKeepsInv
<1> QED
  BY <1>1, <1>2, <1>3, <1>4, <1>5, <1>6, <1>7 DEF Next

\* The account the worker, the two queues and the SDK keep of one transaction
\* (transactions.rs, actor.rs, bridge.mts, actions.mts) agrees in every state.
THEOREM AppInvariant == Spec => []AppInv
<1>1. Init => AppInv
  BY InitAppInv
<1>2. AppInv /\ [Next]_vars => AppInv'
  BY NextAppInv
<1> QED
  BY <1>1, <1>2, PTL DEF Spec

\* A transaction that rejects left nothing behind, whatever closed, failed or
\* was cancelled on the way; only a panic can lose the answer of a commit
\* (transactions.rs finish_transaction, bridge.mts #terminate).
THEOREM RejectionIsUndone == Spec => []RejectedIsUndone
<1>1. AppInv => RejectedIsUndone
  BY DEF AppInv, TaskTold, RejectedIsUndone
<1> QED
  BY <1>1, AppInvariant, PTL

\* A Call handle says committed only of a durable call, and rolledBack only of
\* one that is not and never will be: the announcements follow the SQLite
\* savepoints (transactions.rs call_transitions, actions.mts transition and
\* ended).
THEOREM HandlesTellTheTruth == Spec => []HandlesAgree
<1>1. AppInv => HandlesAgree
  BY DEF AppInv, CallsTold, Dead, HandlesAgree
<1> QED
  BY <1>1, AppInvariant, PTL

============================================================================
