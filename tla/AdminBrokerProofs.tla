------------------------- MODULE AdminBrokerProofs -------------------------
(***************************************************************************)
(* Proofs about AdminBroker, for every set of calls and of sessions. The   *)
(* inductive invariant IInv says how far the worker has come in what was   *)
(* written to its connection, and what the manager's maps say of a request *)
(* that was written or not.                                                *)
(***************************************************************************)
EXTENDS AdminBroker, SequenceTheorems, TLAPS

At(s) == 1 .. Len(written[s])

\* The worker has run what it has taken, but for the last one.
Queued ==
    \A s \in Session :
        /\ taken[s] <= Len(written[s])
        /\ \A i \in At(s) :
              /\ i > taken[s] => effect[written[s][i]] = "none"
              /\ i = taken[s] => effect[written[s][i]] # "none"
              /\ i < taken[s] => effect[written[s][i]] = "done"
              /\ i = taken[s] /\ worker[s] # "dead" => effect[written[s][i]] # "cut"

\* A request is written once, to one session.
WrittenOnce ==
    \A s, t \in Session : \A i \in At(s), j \in At(t) :
        written[s][i] = written[t][j] => s = t /\ i = j

Unsent == {"idle", "waiting", "refused"}
WrittenIsSent ==
    /\ \A s \in Session : \A i \in At(s) : call[written[s][i]] \notin Unsent
    /\ \A r \in Request : call[r] \in Unsent => effect[r] = "none"

WaitingOnce ==
    /\ \A i, j \in 1 .. Len(waiting) : waiting[i] = waiting[j] => i = j
    /\ \A i \in 1 .. Len(waiting) : call[waiting[i]] = "waiting"

Answers ==
    /\ \A s \in Session : \A i \in 1 .. Len(replies[s]) : effect[replies[s][i]] = "done"
    /\ \A r \in Request : call[r] = "answered" => effect[r] = "done"

Pending == \A r \in Request : r \in pending <=> call[r] = "sent"

\* A shutdown leaves nothing pending, and no later event can make it so.
Connections ==
    /\ \A s \in Session : conn[s] = "open" => socket = s
    /\ \A r \in pending : \E s \in Session : /\ r \in Range(written[s])
                                             /\ conn[s] \in {"open", "closing"}
    /\ \A s \in Session : worker[s] \in {"none", "prompt"} => conn[s] = "none"
    /\ shuttingDown => pending = {} /\ status # "ready" /\ sessionId = None

Ledger == Queued /\ WrittenOnce /\ WrittenIsSent /\ Answers
Maps == WaitingOnce /\ Pending /\ Connections
IInv == TypeOK /\ Ledger /\ Maps

-----------------------------------------------------------------------------
\* Every reachable state of the broker has its types.
LEMMA TypeStep == TypeOK /\ Queued /\ [Next]_vars => TypeOK'
<1> SUFFICES ASSUME TypeOK, Queued, [Next]_vars PROVE TypeOK'
  OBVIOUS
<1> USE DEF TypeOK, CallStatus, ConnStatus, WorkerStatus, Unanswered, LostCodes
<1>t. ASSUME NEW c0 \in [Session -> ConnStatus], NEW code \in LostCodes, CloseTransport(c0, code)
      PROVE  /\ socket' \in Session \cup {None} /\ server' \in Session \cup {None}
             /\ sessionId' \in Session \cup {None} /\ pending' \subseteq Request
             /\ call' \in [Request -> CallStatus] /\ conn' \in [Session -> ConnStatus]
             /\ startPromise' \in Session \cup {None} /\ waiting' \in Seq(Request)
  BY <1>t DEF CloseTransport
<1>f. ASSUME NEW c0 \in [Session -> ConnStatus], NEW st \in {"cancelled", "disconnected"}, FinishReject(c0, st)
      PROVE  /\ status' \in {"cancelled", "disconnected"}
             /\ socket' \in Session \cup {None} /\ server' \in Session \cup {None}
             /\ sessionId' \in Session \cup {None} /\ pending' \subseteq Request
             /\ call' \in [Request -> CallStatus] /\ conn' \in [Session -> ConnStatus]
             /\ startPromise' \in Session \cup {None} /\ waiting' \in Seq(Request)
  BY <1>f DEF FinishReject
<1>1. CASE StartTimesOut
  BY <1>1, <1>f DEF StartTimesOut, workerVars
<1>2. ASSUME NEW s \in Session, LaunchFails(s) PROVE TypeOK'
  BY <1>2, <1>f DEF LaunchFails
<1>3. ASSUME NEW s \in Session, GreetingRefused(s) PROVE TypeOK'
  BY <1>3 DEF GreetingRefused, managerVars, workerVars
<1>4. ASSUME NEW s \in Session, Hello(s) PROVE TypeOK'
  BY <1>4 DEF Hello, workerVars, Waiting, Range
<1>5. ASSUME NEW s \in Session, HelloRefused(s) PROVE TypeOK'
  BY <1>5, <1>f, <1>t DEF HelloRefused, workerVars, Disconnected
<1>6. ASSUME NEW s \in Session, StartupError(s) PROVE TypeOK'
  BY <1>6, <1>f DEF StartupError
<1>7. ASSUME NEW s \in Session, CloseEvent(s) PROVE TypeOK'
  BY <1>7, <1>f, <1>t DEF CloseEvent, workerVars, Disconnected
<1>8. ASSUME NEW s \in Session, Response(s) PROVE TypeOK'
  <2>1. Tail(replies[s]) \in Seq(Request)
    BY <1>8 DEF Response
  <2>2. replies' \in [Session -> Seq(Request)]
    BY <1>8, <2>1 DEF Response
  <2>3. pending' \subseteq Request /\ call' \in [Request -> CallStatus]
    BY <1>8 DEF Response
  <2> QED
    BY <1>8, <2>2, <2>3 DEF Response
<1>9. ASSUME NEW s \in Session, PeerGone(s) PROVE TypeOK'
  BY <1>9 DEF PeerGone, managerVars, workerVars
<1>10. ASSUME NEW r \in Request, CallTimesOut(r) PROVE TypeOK'
  BY <1>10 DEF CallTimesOut, workerVars
<1>11. ASSUME NEW s \in Session, Connect(s) \/ SeesClose(s) PROVE TypeOK'
  <2>1. UNCHANGED <<managerVars, written, taken, replies, effect>>
    BY <1>11 DEF Connect, SeesClose
  <2>2. conn' \in [Session -> ConnStatus] /\ worker' \in [Session -> WorkerStatus]
    <3>1. CASE Connect(s)
      <4>1. /\ conn' \in {conn, [conn EXCEPT ![s] = "accepted"]}
            /\ worker' \in {[worker EXCEPT ![s] = "up"], [worker EXCEPT ![s] = "dead"]}
        BY <3>1 DEF Connect
      <4> QED
        BY <4>1
    <3>2. CASE SeesClose(s)
      BY <3>2 DEF SeesClose
    <3> QED
      BY <1>11, <3>1, <3>2
  <2> QED
    BY <2>1, <2>2 DEF managerVars
<1>12. ASSUME NEW s \in Session, Begin(s) \/ End(s) \/ WorkerEnds(s) PROVE TypeOK'
  <2>1. effect' \in [Request -> {"none", "begun", "done", "cut"}]
    <3>1. CASE Begin(s)
      BY <3>1 DEF Begin
    <3>2. CASE End(s)
      BY <3>2 DEF End
    <3>3. CASE WorkerEnds(s)
      BY <3>3 DEF WorkerEnds
    <3> QED
      BY <1>12, <3>1, <3>2, <3>3
  <2>2. taken' \in [Session -> Nat]
    <3>1. taken \in [Session -> Nat]
      OBVIOUS
    <3> HIDE DEF TypeOK
    <3>2. taken' \in {taken, [taken EXCEPT ![s] = @ + 1]}
      BY <1>12 DEF Begin, End, WorkerEnds
    <3> QED
      BY <3>1, <3>2
  <2>3. ASSUME End(s) PROVE replies' \in [Session -> Seq(Request)]
    <3>1. Current(s) \in Request
      <4>1. taken[s] \in 1 .. Len(written[s])
        BY <2>3 DEF End, Busy, Queued
      <4> QED
        BY <4>1 DEF Current
    <3>2. Append(replies[s], Current(s)) \in Seq(Request)
      BY <3>1
    <3> QED
      BY <2>3, <3>2 DEF End
  <2> QED
    BY <1>12, <2>1, <2>2, <2>3 DEF Begin, End, WorkerEnds, managerVars
<1>13. CASE Shutdown
  BY <1>13, <1>t DEF Shutdown, workerVars
<1>14. ASSUME NEW s \in Session, Approve(s) PROVE TypeOK'
  BY <1>14 DEF Approve
<1>15. ASSUME NEW r \in Request, NEW allowPrompt \in BOOLEAN, Call(r, allowPrompt) PROVE TypeOK'
  <2>1. call' \in [Request -> CallStatus] /\ pending' \subseteq Request
    BY <1>15 DEF Call
  <2>2. waiting' \in Seq(Request)
    <3>1. Append(waiting, r) \in Seq(Request)
      OBVIOUS
    <3> QED
      BY <1>15, <3>1 DEF Call
  <2>3. written' \in [Session -> Seq(Request)]
    <3>1. CASE written' = written
      BY <3>1
    <3>2. CASE Ready /\ written' = [written EXCEPT ![socket] = Append(@, r)]
      <4>1. socket \in Session /\ Append(written[socket], r) \in Seq(Request)
        BY <3>2 DEF Ready, SocketAlive
      <4> QED
        BY <4>1, <3>2
    <3> QED
      BY <1>15, <3>1, <3>2 DEF Call
  <2> QED
    BY <1>15, <2>1, <2>2, <2>3 DEF Call, workerVars
<1>16. CASE UNCHANGED vars
  BY <1>16 DEF vars, managerVars, workerVars
<1> QED
  BY <1>1, <1>2, <1>3, <1>4, <1>5, <1>6, <1>7, <1>8, <1>9, <1>10, <1>11, <1>12, <1>13,
     <1>14, <1>15, <1>16 DEF Next, ManagerEvent, WorkerEvent

-----------------------------------------------------------------------------
(***************************************************************************)
(* What is written to a connection, and how far the worker has come        *)
(***************************************************************************)
\* Requests that wait or are new are written behind the others of a session.
LEMMA WriteStep ==
    ASSUME TypeOK, Ledger, NEW s \in Session, NEW q \in Seq(Request),
           \A i, j \in 1 .. Len(q) : q[i] = q[j] => i = j,
           \A i \in 1 .. Len(q) : call[q[i]] \in {"idle", "waiting"},
           written' = [written EXCEPT ![s] = @ \o q],
           call' = [r \in Request |-> IF r \in Range(q) THEN "sent" ELSE call[r]],
           UNCHANGED <<effect, taken, worker, replies>>
    PROVE  Ledger'
<1> DEFINE w == written[s]
           w2 == written'[s]
<1>1. w \in Seq(Request) /\ w2 = w \o q /\ \A t \in Session : t # s => written'[t] = written[t]
  BY DEF TypeOK
<1>2. Len(w2) = Len(w) + Len(q) /\ Len(w) \in Nat /\ Len(q) \in Nat
  BY <1>1
<1>3. \A i \in 1 .. Len(w) : w2[i] = w[i]
  BY <1>1
<1>4. \A i \in 1 .. Len(w2) : i > Len(w) => i - Len(w) \in 1 .. Len(q) /\ w2[i] = q[i - Len(w)]
  BY <1>1, <1>2
<1>5. \A i \in 1 .. Len(q) : q[i] \in Request /\ q[i] \in Range(q) /\ effect[q[i]] = "none"
  BY DEF Range, Ledger, WrittenIsSent, Unsent
<1>6. \A t \in Session : \A i \in 1 .. Len(written[t]) : written[t][i] \in Request /\ written[t][i] \notin Range(q)
  <2> SUFFICES ASSUME NEW t \in Session, NEW i \in 1 .. Len(written[t])
               PROVE  written[t][i] \in Request /\ written[t][i] \notin Range(q)
    OBVIOUS
  <2>1. written[t][i] \in Request
    BY DEF TypeOK
  <2>2. call[written[t][i]] \notin Unsent
    BY DEF At, Ledger, WrittenIsSent
  <2>3. \A x \in Range(q) : call[x] \in Unsent
    BY DEF Range, Unsent
  <2> QED
    BY <2>1, <2>2, <2>3
<1>6a. \A i \in 1 .. Len(w) : w[i] \notin Range(q)
  <2>1. ASSUME NEW i \in 1 .. Len(written[s]) PROVE written[s][i] \notin Range(q)
    BY <1>6
  <2> QED
    BY <2>1
<1> HIDE DEF w, w2
<1>7. Queued'
  <2> DEFINE InQueue(x, k, c, e) ==
                 /\ k <= Len(x)
                 /\ \A i \in 1 .. Len(x) :
                       /\ i > k => e[x[i]] = "none"
                       /\ i = k => e[x[i]] # "none"
                       /\ i < k => e[x[i]] = "done"
                       /\ i = k /\ c # "dead" => e[x[i]] # "cut"
  <2>1. ASSUME NEW t \in Session PROVE InQueue(written[t], taken[t], worker[t], effect)
    BY DEF Ledger, Queued, At
  <2>2. InQueue(w2, taken[s], worker[s], effect)
    <3>1. InQueue(w, taken[s], worker[s], effect)
      BY <2>1 DEF w
    <3>2. taken[s] \in Nat
      BY DEF TypeOK
    <3>3. taken[s] <= Len(w2)
      BY <1>2, <3>1, <3>2
    <3>4. ASSUME NEW i \in 1 .. Len(w2)
          PROVE  /\ i > taken[s] => effect[w2[i]] = "none"
                 /\ i = taken[s] => effect[w2[i]] # "none"
                 /\ i < taken[s] => effect[w2[i]] = "done"
                 /\ i = taken[s] /\ worker[s] # "dead" => effect[w2[i]] # "cut"
      <4>1. CASE i <= Len(w)
        BY <4>1, <3>1, <1>2, <1>3
      <4>2. CASE i > Len(w)
        BY <4>2, <3>1, <3>2, <1>2, <1>4, <1>5
      <4> QED
        BY <4>1, <4>2, <1>2
    <3> QED
      BY <3>3, <3>4
  <2>3. /\ taken'[s] = taken[s] /\ worker'[s] = worker[s] /\ effect' = effect
        /\ written'[s] = w2
    BY DEF w2
  <2>4. ASSUME NEW t \in Session, t # s
        PROVE  /\ taken'[t] = taken[t] /\ worker'[t] = worker[t]
               /\ written'[t] = written[t]
    BY <2>4, <1>1
  <2> SUFFICES \A t \in Session : InQueue(written'[t], taken'[t], worker'[t], effect')
    BY DEF Queued, At
  <2> HIDE DEF InQueue
  <2> QED
    BY <2>1, <2>2, <2>3, <2>4
<1>8. WrittenOnce'
  <2> SUFFICES ASSUME NEW t \in Session, NEW u \in Session,
                      NEW i \in 1 .. Len(written'[t]), NEW j \in 1 .. Len(written'[u]),
                      written'[t][i] = written'[u][j]
               PROVE  t = u /\ i = j
    BY DEF WrittenOnce, At
  <2>1. CASE t # s /\ u # s
    <3>1. written'[t] = written[t] /\ written'[u] = written[u]
      BY <2>1, <1>1
    <3>2. i \in At(t) /\ j \in At(u) /\ written[t][i] = written[u][j]
      BY <3>1 DEF At
    <3> QED
      BY <3>2 DEF Ledger, WrittenOnce
  <2>2. CASE t = s /\ u # s
    <3>1. /\ written'[u] = written[u] /\ written'[t] = w2
          /\ i \in 1 .. Len(w2) /\ j \in 1 .. Len(written[u]) /\ w2[i] = written[u][j]
      BY <2>2, <1>1 DEF w2
    <3>2. w2[i] \notin Range(q)
      BY <3>1, <1>6
    <3>3. i \in 1 .. Len(w) /\ w2[i] = w[i]
      <4>1. ASSUME i > Len(w) PROVE FALSE
        <5>1. i - Len(w) \in 1 .. Len(q) /\ w2[i] = q[i - Len(w)]
          BY <3>1, <4>1, <1>4
        <5> QED
          BY <5>1, <3>2, <1>5
      <4>2. i \in 1 .. Len(w)
        BY <3>1, <4>1, <1>2
      <4> QED
        BY <4>2, <1>3
    <3>4. i \in At(t) /\ j \in At(u) /\ written[t][i] = written[u][j]
      BY <2>2, <3>1, <3>3 DEF At, w
    <3> QED
      BY <3>4 DEF Ledger, WrittenOnce
  <2>3. CASE t # s /\ u = s
    <3>1. /\ written'[t] = written[t] /\ written'[u] = w2
          /\ j \in 1 .. Len(w2) /\ i \in 1 .. Len(written[t]) /\ w2[j] = written[t][i]
      BY <2>3, <1>1 DEF w2
    <3>2. w2[j] \notin Range(q)
      BY <3>1, <1>6
    <3>3. j \in 1 .. Len(w) /\ w2[j] = w[j]
      <4>1. ASSUME j > Len(w) PROVE FALSE
        <5>1. j - Len(w) \in 1 .. Len(q) /\ w2[j] = q[j - Len(w)]
          BY <3>1, <4>1, <1>4
        <5> QED
          BY <5>1, <3>2, <1>5
      <4>2. j \in 1 .. Len(w)
        BY <3>1, <4>1, <1>2
      <4> QED
        BY <4>2, <1>3
    <3>4. i \in At(t) /\ j \in At(u) /\ written[t][i] = written[u][j]
      BY <2>3, <3>1, <3>3 DEF At, w
    <3> QED
      BY <3>4 DEF Ledger, WrittenOnce
  <2>4. CASE t = s /\ u = s
    <3>1. i \in 1 .. Len(w2) /\ j \in 1 .. Len(w2) /\ w2[i] = w2[j]
      BY <2>4 DEF At, w2
    <3>2. CASE i <= Len(w) /\ j <= Len(w)
      BY <3>1, <3>2, <2>4, <1>2, <1>3 DEF At, Ledger, WrittenOnce, w
    <3>3. CASE i > Len(w) /\ j > Len(w)
      <4>1. i - Len(w) = j - Len(w)
        <5>1. i - Len(w) \in 1 .. Len(q) /\ w2[i] = q[i - Len(w)]
          BY <3>1, <3>3, <1>4
        <5>2. j - Len(w) \in 1 .. Len(q) /\ w2[j] = q[j - Len(w)]
          BY <3>1, <3>3, <1>4
        <5> HIDE DEF w
        <5> QED
          BY <3>1, <5>1, <5>2
      <4> QED
        BY <4>1, <2>4, <3>1, <1>2
    <3>4. CASE (i <= Len(w) /\ j > Len(w)) \/ (i > Len(w) /\ j <= Len(w))
      <4>1. ASSUME NEW k \in 1 .. Len(w2), k <= Len(w) PROVE w2[k] \notin Range(q)
        <5>1. k \in 1 .. Len(w)
          BY <4>1, <1>2
        <5> QED
          BY <5>1, <1>3, <1>6a
      <4>2. \A k \in 1 .. Len(w2) : k > Len(w) => w2[k] \in Range(q)
        BY <1>4, <1>5
      <4> QED
        BY <3>1, <3>4, <4>1, <4>2
    <3> QED
      BY <3>1, <3>2, <3>3, <3>4, <1>2
  <2> QED
    BY <2>1, <2>2, <2>3, <2>4
<1>9. WrittenIsSent'
  <2>1. \A r \in Request : call'[r] = IF r \in Range(q) THEN "sent" ELSE call[r]
    OBVIOUS
  <2>2. ASSUME NEW t \in Session, NEW i \in At(t)' PROVE call'[written'[t][i]] \notin Unsent
    <3>1. CASE t # s
      <4>1. /\ i \in 1 .. Len(written[t]) /\ written'[t][i] = written[t][i]
            /\ written[t][i] \in Request /\ written[t][i] \notin Range(q)
        BY <3>1, <1>1, <1>6 DEF At
      <4> QED
        BY <2>1, <4>1 DEF At, Ledger, WrittenIsSent
    <3>2. CASE t = s /\ i <= Len(w)
      <4>1. i \in 1 .. Len(w2) /\ written'[t][i] = w2[i]
        BY <3>2 DEF At, w2
      <4>2. i \in 1 .. Len(w) /\ w2[i] = w[i] /\ w[i] \notin Range(q)
        BY <3>2, <4>1, <1>2, <1>3, <1>6a
      <4>3. w[i] \in Request /\ call[w[i]] \notin Unsent
        BY <4>2, <1>6 DEF At, Ledger, WrittenIsSent, w
      <4> QED
        BY <2>1, <4>1, <4>2, <4>3
    <3>3. CASE t = s /\ ~(i <= Len(w))
      <4>1. i \in 1 .. Len(w2) /\ written'[t][i] = w2[i]
        BY <3>3 DEF At, w2
      <4>2. i - Len(w) \in 1 .. Len(q) /\ w2[i] = q[i - Len(w)]
        BY <3>3, <4>1, <1>2, <1>4
      <4>3. w2[i] \in Request /\ w2[i] \in Range(q)
        BY <4>2, <1>5
      <4>4. call'[w2[i]] = "sent"
        BY <2>1, <4>3
      <4> QED
        BY <4>1, <4>4 DEF Unsent
    <3> QED
      BY <3>1, <3>2, <3>3
  <2>3. ASSUME NEW r \in Request, call'[r] \in Unsent PROVE effect'[r] = "none"
    BY <2>1, <2>3 DEF Ledger, WrittenIsSent, Unsent
  <2> QED
    BY <2>2, <2>3 DEF WrittenIsSent
<1>10. Answers'
  BY <1>5 DEF Ledger, Answers
<1> QED
  BY <1>7, <1>8, <1>9, <1>10 DEF Ledger

\* A call that is settled without an answer of its operation, answered by one
\* that has ended, or refused or made to wait before it is written.
CallMoves(r) ==
    \/ call'[r] = call[r]
    \/ call[r] = "sent" /\ call'[r] \in LostCodes
    \/ call[r] = "sent" /\ call'[r] = "answered" /\ effect[r] = "done"
    \/ call[r] \in {"idle", "waiting"} /\ call'[r] \in {"waiting", "refused"}

\* The manager's callbacks that write nothing leave the ledger as it is.
LEMMA CallsOnly ==
    ASSUME TypeOK, Ledger, UNCHANGED <<written, taken, effect>>,
           \A s \in Session : worker[s] = "dead" => worker'[s] = "dead",
           \A s \in Session : replies'[s] = replies[s] \/ replies'[s] = Tail(replies[s]),
           \A r \in Request : CallMoves(r)
    PROVE  Ledger'
<1>1. Queued'
  BY DEF Ledger, Queued, At
<1>2. WrittenOnce'
  BY DEF Ledger, WrittenOnce, At
<1>3. WrittenIsSent'
  <2>1. ASSUME NEW s \in Session, NEW i \in 1 .. Len(written[s])
        PROVE  call'[written[s][i]] \notin Unsent
    <3>1. written[s][i] \in Request
      BY DEF TypeOK
    <3>2. call[written[s][i]] \notin Unsent
      BY DEF Ledger, WrittenIsSent, At
    <3> QED
      BY <3>1, <3>2 DEF CallMoves, Unsent, LostCodes
  <2>2. ASSUME NEW r \in Request, call'[r] \in Unsent PROVE effect[r] = "none"
    BY <2>2 DEF Ledger, WrittenIsSent, CallMoves, Unsent, LostCodes
  <2> QED
    BY <2>1, <2>2 DEF WrittenIsSent, At
<1>4. Answers'
  <2>1. ASSUME NEW s \in Session, NEW i \in 1 .. Len(replies'[s])
        PROVE  effect'[replies'[s][i]] = "done"
    <3>1. CASE replies'[s] = replies[s]
      BY <3>1 DEF Ledger, Answers
    <3>2. CASE replies'[s] = Tail(replies[s])
      <4>1. replies[s] \in Seq(Request)
        BY DEF TypeOK
      <4>2. CASE replies[s] = <<>>
        BY <4>2, <3>2 
      <4>3. CASE replies[s] # <<>>
        <5>1. i + 1 \in 1 .. Len(replies[s]) /\ replies'[s][i] = replies[s][i + 1]
          BY <4>1, <4>3, <3>2
        <5> QED
          BY <5>1 DEF Ledger, Answers
      <4> QED
        BY <4>2, <4>3
    <3> QED
      BY <3>1, <3>2
  <2>2. ASSUME NEW r \in Request, call'[r] = "answered" PROVE effect'[r] = "done"
    BY <2>2 DEF Ledger, Answers, CallMoves, LostCodes
  <2> QED
    BY <2>1, <2>2 DEF Answers
<1> QED
  BY <1>1, <1>2, <1>3, <1>4 DEF Ledger

\* The worker's steps change the effect of one request, the one it is at.
LEMMA WorkStep ==
    ASSUME TypeOK, Ledger, NEW s \in Session, Begin(s) \/ End(s) \/ WorkerEnds(s)
    PROVE  Ledger'
<1>1. UNCHANGED <<written, call>>
  BY DEF Begin, End, WorkerEnds, managerVars
<1>2. WrittenOnce'
  BY <1>1 DEF Ledger, WrittenOnce, At
<1>3. \A t \in Session : \A i \in 1 .. Len(written[t]) : written[t][i] \in Request
  BY DEF TypeOK
<1>4. CASE Begin(s)
  <2> DEFINE n == taken[s] + 1
             r0 == written[s][n]
  <2>1. n \in 1 .. Len(written[s]) /\ taken[s] \in Nat /\ n > taken[s] /\ r0 \in Request
    BY <1>4, <1>3 DEF Begin, TypeOK
  <2>2. effect[r0] = "none"
    BY <2>1 DEF Ledger, Queued, At
  <2>3. /\ \A r \in Request : effect'[r] = IF r = r0 THEN "begun" ELSE effect[r]
        /\ \A t \in Session : taken'[t] = IF t = s THEN n ELSE taken[t]
        /\ replies' = replies /\ worker' = worker
    BY <1>4 DEF Begin, TypeOK
  <2>4. ASSUME NEW i \in 1 .. Len(written[s]), i < n PROVE effect[written[s][i]] = "done"
    <3>1. CASE i = taken[s]
      <4>1. effect[written[s][i]] \notin {"none", "cut"}
        BY <3>1, <1>4 DEF Begin, Ledger, Queued, At
      <4>2. effect[written[s][i]] # "begun"
        BY <3>1, <2>1, <2>4, <1>4 DEF Begin, Busy, Current
      <4> QED
        BY <4>1, <4>2, <1>3 DEF TypeOK
    <3>2. CASE i < taken[s]
      BY <3>2 DEF Ledger, Queued, At
    <3> QED
      BY <3>1, <3>2, <2>1, <2>4
  <2>5. \A t \in Session : \A i \in 1 .. Len(written[t]) : written[t][i] = r0 <=> t = s /\ i = n
    BY <2>1 DEF Ledger, WrittenOnce, At
  <2> HIDE DEF n, r0
  <2>6. Queued'
    <3>1. ASSUME NEW t \in Session PROVE taken'[t] <= Len(written[t])
      BY <2>1, <2>3 DEF Ledger, Queued
    <3>2. ASSUME NEW t \in Session, NEW i \in 1 .. Len(written[t])
          PROVE  /\ i > taken'[t] => effect'[written[t][i]] = "none"
                 /\ i = taken'[t] => effect'[written[t][i]] # "none"
                 /\ i < taken'[t] => effect'[written[t][i]] = "done"
                 /\ i = taken'[t] /\ worker'[t] # "dead" => effect'[written[t][i]] # "cut"
      <4>1. CASE t # s
        BY <4>1, <1>3, <2>3, <2>5 DEF Ledger, Queued, At
      <4>2. CASE t = s /\ i = n
        BY <4>2, <2>3, <2>5, <1>3
      <4>3. CASE t = s /\ i < n
        BY <4>3, <2>1, <2>3, <2>4, <2>5, <1>3
      <4>4. CASE t = s /\ i > n
        BY <4>4, <2>1, <2>3, <2>5, <1>3 DEF Ledger, Queued, At
      <4> QED
        BY <4>1, <4>2, <4>3, <4>4, <2>1
    <3> QED
      BY <3>1, <3>2, <1>1 DEF Queued, At
  <2>7. WrittenIsSent'
    <3>1. call[r0] \notin Unsent
      BY <2>1 DEF Ledger, WrittenIsSent, At, r0
    <3> QED
      BY <3>1, <1>1, <2>3 DEF Ledger, WrittenIsSent, At
  <2>8. Answers'
    <3>1. ASSUME NEW t \in Session, NEW i \in 1 .. Len(replies[t]) PROVE effect'[replies[t][i]] = "done"
      <4>1. replies[t][i] \in Request
        BY DEF TypeOK
      <4>2. effect[replies[t][i]] = "done"
        BY DEF Ledger, Answers
      <4> QED
        BY <4>1, <4>2, <2>2, <2>3
    <3>2. ASSUME NEW r \in Request, call[r] = "answered" PROVE effect'[r] = "done"
      BY <3>2, <2>2, <2>3 DEF Ledger, Answers
    <3> QED
      BY <3>1, <3>2, <2>3, <1>1 DEF Answers
  <2> QED
    BY <1>2, <2>6, <2>7, <2>8 DEF Ledger
<1>5. CASE ~Begin(s)
  <2> DEFINE r0 == Current(s)
             out == IF End(s) THEN "done" ELSE "cut"
  <2>1. CASE ~Busy(s)
    <3>1. effect' = effect /\ taken' = taken /\ replies' = replies /\ call' = call
      BY <1>5, <2>1 DEF End, WorkerEnds, managerVars
    <3>2. \A t \in Session : worker[t] = "dead" => worker'[t] = "dead"
      BY <1>5, <2>1 DEF End, WorkerEnds, TypeOK
    <3> QED
      BY <3>1, <3>2, <1>1, CallsOnly DEF CallMoves
  <2>2. CASE Busy(s)
    <3>1. taken[s] \in 1 .. Len(written[s]) /\ r0 \in Request /\ effect[r0] = "begun"
      <4>1. taken[s] \in 1 .. Len(written[s])
        BY <2>2 DEF Busy, Ledger, Queued, TypeOK
      <4> QED
        BY <4>1, <2>2, <1>3 DEF Busy, Current
    <3>2. /\ \A r \in Request : effect'[r] = IF r = r0 THEN out ELSE effect[r]
          /\ taken' = taken
      BY <1>5, <2>2, <3>1 DEF End, WorkerEnds, TypeOK
    <3>3. \A t \in Session : \A i \in 1 .. Len(written[t]) : written[t][i] = r0 <=> t = s /\ i = taken[s]
      BY <3>1 DEF Ledger, WrittenOnce, At, Current
    <3>4. /\ \A t \in Session : t # s => worker'[t] = worker[t]
          /\ out = "cut" => worker'[s] = "dead"
      BY <1>5 DEF End, WorkerEnds, TypeOK
    <3>5. out \in {"done", "cut"}
      OBVIOUS
    <3>6. \A t \in Session : \A i \in 1 .. Len(replies'[t]) :
              \/ replies'[t][i] = r0 /\ out = "done"
              \/ i \in 1 .. Len(replies[t]) /\ replies'[t][i] = replies[t][i]
      <4>1. CASE replies' = replies
        BY <4>1
      <4>2. CASE End(s) /\ replies' = [replies EXCEPT ![s] = Append(@, r0)]
        <5>1. replies[s] \in Seq(Request)
          BY DEF TypeOK
        <5>2. Len(Append(replies[s], r0)) = Len(replies[s]) + 1
          BY <5>1, <3>1
        <5>3. \A i \in 1 .. Len(replies[s]) + 1 :
                  Append(replies[s], r0)[i] = IF i = Len(replies[s]) + 1 THEN r0 ELSE replies[s][i]
          BY <5>1, <3>1
        <5>4. \A t \in Session : replies'[t] = IF t = s THEN Append(replies[s], r0) ELSE replies[t]
          BY <4>2 DEF TypeOK
        <5>5. out = "done" /\ Len(replies[s]) \in Nat
          BY <4>2, <5>1
        <5> HIDE DEF r0, out
        <5>6. ASSUME NEW i \in 1 .. Len(replies'[s])
              PROVE  \/ replies'[s][i] = r0
                     \/ i \in 1 .. Len(replies[s]) /\ replies'[s][i] = replies[s][i]
          <6>1. replies'[s] = Append(replies[s], r0)
            BY <5>4
          <6>2. i \in 1 .. Len(replies[s]) + 1
            BY <6>1, <5>2
          <6>3. replies'[s][i] = IF i = Len(replies[s]) + 1 THEN r0 ELSE replies[s][i]
            BY <6>1, <6>2, <5>3
          <6>4. i # Len(replies[s]) + 1 => i \in 1 .. Len(replies[s])
            BY <6>2, <5>5
          <6> QED
            BY <6>3, <6>4
        <5>7. \A t \in Session : t # s => replies'[t] = replies[t]
          BY <5>4
        <5> SUFFICES ASSUME NEW t \in Session, NEW i \in 1 .. Len(replies'[t])
                     PROVE  \/ replies'[t][i] = r0 /\ out = "done"
                            \/ i \in 1 .. Len(replies[t]) /\ replies'[t][i] = replies[t][i]
          OBVIOUS
        <5>8. CASE t = s
          BY <5>8, <5>5, <5>6
        <5>9. CASE t # s
          BY <5>9, <5>7
        <5> QED
          BY <5>8, <5>9
      <4> QED
        BY <1>5, <4>1, <4>2 DEF End, WorkerEnds
    <3> HIDE DEF r0, out
    <3>7. Queued'
      <4>1. ASSUME NEW t \in Session, NEW i \in 1 .. Len(written[t])
            PROVE  /\ i > taken[t] => effect'[written[t][i]] = "none"
                   /\ i = taken[t] => effect'[written[t][i]] # "none"
                   /\ i < taken[t] => effect'[written[t][i]] = "done"
                   /\ i = taken[t] /\ worker'[t] # "dead" => effect'[written[t][i]] # "cut"
        <5>1. CASE t # s
          BY <5>1, <1>3, <3>2, <3>3, <3>4 DEF Ledger, Queued, At
        <5>2. CASE t = s /\ i = taken[s]
          BY <5>2, <3>2, <3>3, <3>4, <3>5, <1>3, <3>1
        <5>3. CASE t = s /\ i # taken[s]
          BY <5>3, <3>2, <3>3, <1>3 DEF Ledger, Queued, At
        <5> QED
          BY <5>1, <5>2, <5>3
      <4> QED
        BY <4>1, <3>2, <1>1 DEF Ledger, Queued, At
    <3>8. WrittenIsSent'
      BY <1>1, <3>1, <3>2 DEF Ledger, WrittenIsSent, At
    <3>9. Answers'
      <4>1. ASSUME NEW t \in Session, NEW i \in 1 .. Len(replies'[t]) PROVE effect'[replies'[t][i]] = "done"
        <5>1. CASE replies'[t][i] = r0 /\ out = "done"
          BY <5>1, <3>1, <3>2
        <5>2. CASE i \in 1 .. Len(replies[t]) /\ replies'[t][i] = replies[t][i]
          <6>1. replies[t][i] \in Request /\ effect[replies[t][i]] = "done"
            BY <5>2 DEF TypeOK, Ledger, Answers
          <6> QED
            BY <5>2, <6>1, <3>1, <3>2
        <5> QED
          BY <5>1, <5>2, <3>6
      <4>2. ASSUME NEW r \in Request, call[r] = "answered" PROVE effect'[r] = "done"
        BY <4>2, <3>1, <3>2 DEF Ledger, Answers
      <4> QED
        BY <4>1, <4>2, <1>1 DEF Answers
    <3> QED
      BY <1>2, <3>7, <3>8, <3>9 DEF Ledger
  <2> QED
    BY <2>1, <2>2
<1> QED
  BY <1>4, <1>5

-----------------------------------------------------------------------------
(***************************************************************************)
(* What the manager's maps say of the calls                                *)
(***************************************************************************)
\* Closing the transport, with or without a start to reject, leaves no call that
\* waits for an answer and no connection in use.
LEMMA GiveUp ==
    ASSUME TypeOK, Maps, NEW c0 \in [Session -> ConnStatus],
           \A t \in Session : c0[t] = "open" => t = socket,
           \A t \in Session : worker'[t] \in {"none", "prompt"} => c0[t] = "none",
           shuttingDown' => status' # "ready",
           \/ \E code \in LostCodes : CloseTransport(c0, code)
           \/ \E st \in {"cancelled", "disconnected"} : FinishReject(c0, st)
    PROVE  Maps' /\ \A r \in Request : CallMoves(r)
<1>1. pending' = {} /\ sessionId' = None
  BY DEF CloseTransport, FinishReject
<1>2. \A t \in Session : conn'[t] # "open" /\ (c0[t] = "none" => conn'[t] = "none")
  BY DEF CloseTransport, FinishReject, ConnStatus
<1>3. \A r \in Request : call'[r] # "sent" /\ CallMoves(r)
  <2>1. \A r \in Request : r \in pending <=> call[r] = "sent"
    BY DEF Maps, Pending
  <2>2. \A r \in Request : r \in Waiting => call[r] = "waiting"
    BY DEF Maps, WaitingOnce, Waiting, Range, TypeOK
  <2>3. CASE \E code \in LostCodes : CloseTransport(c0, code)
    BY <2>1, <2>3 DEF CloseTransport, CallMoves, LostCodes
  <2>4. CASE \E st \in {"cancelled", "disconnected"} : FinishReject(c0, st)
    BY <2>1, <2>2, <2>4 DEF FinishReject, CallMoves, LostCodes
  <2> QED
    BY <2>3, <2>4
<1>4. WaitingOnce'
  <2>1. CASE waiting' = <<>>
    BY <2>1 DEF WaitingOnce
  <2>2. CASE waiting' = waiting /\ \E code \in LostCodes : CloseTransport(c0, code)
    <3>1. ASSUME NEW i \in 1 .. Len(waiting) PROVE call'[waiting[i]] = "waiting"
      <4>1. waiting[i] \in Request
        BY DEF TypeOK
      <4>2. call[waiting[i]] = "waiting"
        BY DEF Maps, WaitingOnce
      <4> QED
        BY <4>1, <4>2, <2>2 DEF CloseTransport, Maps, Pending
    <3> QED
      BY <3>1, <2>2 DEF Maps, WaitingOnce
  <2> QED
    BY <2>1, <2>2 DEF CloseTransport, FinishReject
<1>5. Pending'
  BY <1>1, <1>3 DEF Pending
<1>6. Connections'
  BY <1>1, <1>2 DEF Connections
<1> QED
  BY <1>3, <1>4, <1>5, <1>6 DEF Maps

\* A step that touches only connections and workers.
LEMMA ConnectionsMove ==
    ASSUME Maps,
           UNCHANGED <<pending, waiting, call, written, status, sessionId, shuttingDown>>,
           \A t \in Session : conn'[t] = "open" => socket' = t,
           \A t \in Session : worker'[t] \in {"none", "prompt"} => conn'[t] = "none",
           \/ shuttingDown
           \/ \A t \in Session : conn[t] \in {"open", "closing"} => conn'[t] \in {"open", "closing"}
    PROVE  Maps' /\ \A r \in Request : CallMoves(r)
<1>1. WaitingOnce' /\ Pending'
  BY DEF Maps, WaitingOnce, Pending
<1>2. Connections'
  BY DEF Maps, Connections
<1> QED
  BY <1>1, <1>2 DEF Maps, CallMoves

-----------------------------------------------------------------------------
(***************************************************************************)
(* Every step keeps the invariant, and moves every call as promised        *)
(***************************************************************************)
Moves(r) ==
    \/ effect'[r] = effect[r] /\ CallMoves(r)
    \/ effect'[r] = effect[r] /\ call[r] \in {"idle", "waiting"} /\ call'[r] = "sent"
    \/ /\ call'[r] = call[r] /\ effect[r] = "none" /\ effect'[r] = "begun"
       /\ call[r] \notin Unsent \cup {"answered"}
    \/ call'[r] = call[r] /\ effect[r] = "begun" /\ effect'[r] \in {"done", "cut"}

Kept == Ledger' /\ Maps' /\ \A r \in Request : Moves(r)

\* The callbacks that write nothing need to be looked at for the maps only.
LEMMA Quiet ==
    ASSUME IInv, UNCHANGED <<written, taken, effect>>,
           \A s \in Session : worker[s] = "dead" => worker'[s] = "dead",
           \A s \in Session : replies'[s] = replies[s] \/ replies'[s] = Tail(replies[s]),
           Maps', \A r \in Request : CallMoves(r)
    PROVE  Kept
BY CallsOnly DEF IInv, Kept, Moves

\* The steps of the start of a session, of its greetings and of its end.
LEMMA SessionStep ==
    ASSUME IInv, NEW s \in Session,
           \/ LaunchFails(s) \/ GreetingRefused(s) \/ HelloRefused(s) \/ StartupError(s)
           \/ CloseEvent(s) \/ PeerGone(s) \/ Connect(s) \/ SeesClose(s) \/ Approve(s)
    PROVE  Kept
<1>1. TypeOK /\ Maps /\ Connections
  BY DEF IInv, Maps
<1>2. \A t \in Session : conn[t] = "open" => t = socket /\ socket # None
  BY <1>1, NoneAssumption DEF Connections
<1>3. \A t \in Session : worker[t] \in {"none", "prompt"} => conn[t] = "none"
  BY <1>1 DEF Connections
<1>4. shuttingDown => status # "ready" /\ sessionId = None /\ pending = {}
  BY <1>1 DEF Connections
<1>5. conn \in [Session -> ConnStatus] /\ worker \in [Session -> WorkerStatus]
  BY <1>1 DEF TypeOK
<1>6. CASE LaunchFails(s)
  <2>1. \A t \in Session : worker'[t] = IF t = s THEN "dead" ELSE worker[t]
    BY <1>6, <1>5 DEF LaunchFails
  <2>2. Maps' /\ \A r \in Request : CallMoves(r)
    <3>1. CASE startPromise = s
      BY <1>1, <1>2, <1>3, <1>5, <1>6, <2>1, <3>1, GiveUp DEF LaunchFails, FinishReject
    <3>2. CASE startPromise # s
      BY <1>1, <1>2, <1>3, <1>5, <1>6, <2>1, <3>2, ConnectionsMove DEF LaunchFails
    <3> QED
      BY <3>1, <3>2
  <2> QED
    BY <1>6, <2>1, <2>2, Quiet DEF LaunchFails
<1>7. CASE GreetingRefused(s)
  <2>1. \A t \in Session : conn'[t] = IF t = s THEN "closed" ELSE conn[t]
    BY <1>7, <1>5 DEF GreetingRefused
  <2>2. conn[s] = "accepted" /\ UNCHANGED <<managerVars, written, workerVars>>
    BY <1>7 DEF GreetingRefused
  <2>3. Maps' /\ \A r \in Request : CallMoves(r)
    BY <1>1, <1>2, <1>3, <2>1, <2>2, ConnectionsMove DEF managerVars, workerVars
  <2> QED
    BY <2>2, <2>3, Quiet DEF managerVars, workerVars
<1>8. CASE HelloRefused(s)
  <2> DEFINE c0 == [conn EXCEPT ![s] = "closing"]
  <2>1. /\ c0 \in [Session -> ConnStatus]
        /\ \A t \in Session : c0[t] = IF t = s THEN "closing" ELSE conn[t]
    BY <1>5 DEF ConnStatus
  <2>2. /\ conn[s] = "accepted" /\ UNCHANGED <<shuttingDown, written, workerVars>>
        /\ \/ FinishReject(c0, "disconnected")
           \/ CloseTransport(c0, "disconnected") /\ Disconnected
    BY <1>8 DEF HelloRefused
  <2>3. shuttingDown' => status' # "ready"
    BY <2>2, <1>4 DEF FinishReject, Disconnected
  <2> HIDE DEF c0
  <2>4. Maps' /\ \A r \in Request : CallMoves(r)
    BY <1>1, <1>2, <1>3, <2>1, <2>2, <2>3, GiveUp DEF workerVars, LostCodes
  <2> QED
    BY <2>2, <2>4, Quiet DEF workerVars
<1>9. CASE StartupError(s)
  <2>1. \A t \in Session : worker'[t] = IF t = s THEN "dead" ELSE worker[t]
    BY <1>9, <1>5 DEF StartupError
  <2>2. Maps' /\ \A r \in Request : CallMoves(r)
    <3>1. CASE startPromise = s
      <4> DEFINE c0 == [conn EXCEPT ![s] = "closing"]
      <4>1. /\ c0 \in [Session -> ConnStatus]
            /\ \A t \in Session : c0[t] = IF t = s THEN "closing" ELSE conn[t]
        BY <1>5 DEF ConnStatus
      <4>2. FinishReject(c0, "disconnected")
        BY <1>9, <3>1 DEF StartupError
      <4> HIDE DEF c0
      <4> QED
        BY <1>1, <1>2, <1>3, <1>9, <2>1, <4>1, <4>2, GiveUp DEF FinishReject, StartupError
    <3>2. CASE startPromise # s
      <4>1. /\ \A t \in Session : conn'[t] = IF t = s THEN "open" ELSE conn[t]
            /\ socket' = s /\ conn[s] = "accepted" /\ ~SocketAlive
        BY <1>9, <3>2, <1>5 DEF StartupError
      <4>2. \A t \in Session : conn[t] # "open"
        BY <1>2, <4>1 DEF SocketAlive
      <4> QED
        BY <1>1, <1>3, <1>9, <2>1, <3>2, <4>1, <4>2, ConnectionsMove DEF StartupError
    <3> QED
      BY <3>1, <3>2
  <2> QED
    BY <1>9, <2>1, <2>2, Quiet DEF StartupError
<1>10. CASE CloseEvent(s)
  <2> DEFINE c0 == [conn EXCEPT ![s] = "closed"]
  <2>1. /\ c0 \in [Session -> ConnStatus]
        /\ \A t \in Session : c0[t] = IF t = s THEN "closed" ELSE conn[t]
        /\ conn[s] = "closing" /\ UNCHANGED <<shuttingDown, written, workerVars>>
    BY <1>10, <1>5 DEF ConnStatus, CloseEvent
  <2>2. Maps' /\ \A r \in Request : CallMoves(r)
    <3>1. CASE FinishReject(c0, "disconnected")
      <4> HIDE DEF c0
      <4> QED
        BY <1>1, <1>2, <1>3, <2>1, <3>1, GiveUp DEF FinishReject, workerVars
    <3>2. CASE ~shuttingDown /\ CloseTransport(c0, "disconnected") /\ Disconnected
      <4> HIDE DEF c0
      <4> QED
        BY <1>1, <1>2, <1>3, <2>1, <3>2, GiveUp DEF Disconnected, workerVars, LostCodes
    <3>3. CASE /\ shuttingDown /\ conn' = c0
               /\ UNCHANGED <<status, socket, server, startPromise, sessionId, pending,
                              waiting, call>>
      <4> HIDE DEF c0
      <4> QED
        BY <1>1, <1>2, <1>3, <2>1, <3>3, ConnectionsMove DEF workerVars
    <3> QED
      BY <1>10, <3>1, <3>2, <3>3 DEF CloseEvent
  <2> QED
    BY <2>1, <2>2, Quiet DEF workerVars
<1>11. CASE PeerGone(s)
  <2>1. /\ \A t \in Session : t # s => conn'[t] = conn[t]
        /\ \/ conn[s] = "open" /\ conn'[s] = "closing"
           \/ conn[s] = "accepted" /\ conn'[s] = "closed"
        /\ UNCHANGED <<managerVars, written, workerVars>>
    BY <1>11, <1>5 DEF PeerGone
  <2>2. Maps' /\ \A r \in Request : CallMoves(r)
    BY <1>1, <1>2, <1>3, <2>1, ConnectionsMove DEF managerVars, workerVars
  <2> QED
    BY <2>1, <2>2, Quiet DEF managerVars, workerVars
<1>12. CASE Connect(s)
  <2>1. /\ \A t \in Session : t # s => conn'[t] = conn[t] /\ worker'[t] = worker[t]
        /\ worker[s] = "prompt" /\ worker'[s] \in {"up", "dead"}
        /\ conn'[s] \in {conn[s], "accepted"}
        /\ UNCHANGED <<managerVars, written, taken, replies, effect>>
    BY <1>12, <1>5 DEF Connect
  <2>2. Maps' /\ \A r \in Request : CallMoves(r)
    BY <1>1, <1>2, <1>3, <2>1, ConnectionsMove DEF managerVars
  <2> QED
    BY <2>1, <2>2, Quiet DEF managerVars
<1>13. CASE SeesClose(s)
  <2>1. /\ \A t \in Session : worker'[t] = IF t = s THEN "closing" ELSE worker[t]
        /\ worker[s] = "up"
        /\ UNCHANGED <<managerVars, conn, written, taken, replies, effect>>
    BY <1>13, <1>5 DEF SeesClose
  <2>2. Maps' /\ \A r \in Request : CallMoves(r)
    BY <1>1, <1>2, <1>3, <2>1, ConnectionsMove DEF managerVars
  <2> QED
    BY <2>1, <2>2, Quiet DEF managerVars
<1>14. CASE Approve(s)
  <2>1. /\ \A t \in Session : worker'[t] = IF t = s THEN "prompt" ELSE worker[t]
        /\ worker[s] = "none" /\ shuttingDown' = FALSE
        /\ UNCHANGED <<socket, pending, waiting, call, conn, written, taken, replies, effect>>
    BY <1>14, <1>5 DEF Approve
  <2>2. Maps'
    BY <1>1, <1>3, <2>1 DEF Maps, WaitingOnce, Pending, Connections
  <2> QED
    BY <2>1, <2>2, Quiet DEF CallMoves
<1> QED
  BY <1>6, <1>7, <1>8, <1>9, <1>10, <1>11, <1>12, <1>13, <1>14

\* The steps that settle calls by a timer, an answer or a shutdown.
LEMMA SettleStep ==
    ASSUME IInv, \/ StartTimesOut \/ Shutdown
                 \/ \E r \in Request : CallTimesOut(r)
                 \/ \E s \in Session : Response(s)
    PROVE  Kept
<1>1. TypeOK /\ Maps /\ Connections /\ Ledger
  BY DEF IInv, Maps
<1>2. \A t \in Session : conn[t] = "open" => t = socket
  BY <1>1 DEF Connections
<1>3. \A t \in Session : worker[t] \in {"none", "prompt"} => conn[t] = "none"
  BY <1>1 DEF Connections
<1>4. conn \in [Session -> ConnStatus]
  BY <1>1 DEF TypeOK
<1>5. CASE StartTimesOut
  <2>1. Maps' /\ \A r \in Request : CallMoves(r)
    BY <1>1, <1>2, <1>3, <1>4, <1>5, GiveUp DEF StartTimesOut, FinishReject, workerVars
  <2> QED
    BY <1>5, <2>1, Quiet DEF StartTimesOut, workerVars
<1>6. CASE Shutdown
  <2>1. Maps' /\ \A r \in Request : CallMoves(r)
    BY <1>1, <1>2, <1>3, <1>4, <1>6, GiveUp DEF Shutdown, workerVars, LostCodes
  <2> QED
    BY <1>6, <2>1, Quiet DEF Shutdown, workerVars
<1>7. ASSUME NEW r \in Request, NEW out \in LostCodes \cup {"answered"},
             r \in pending, pending' = pending \ {r},
             call' = [call EXCEPT ![r] = out], out = "answered" => effect[r] = "done",
             UNCHANGED <<status, socket, server, startPromise, sessionId, shuttingDown,
                         waiting, conn, written, worker>>
      PROVE  Maps' /\ \A q \in Request : CallMoves(q)
  <2>1. \A q \in Request : q \in pending <=> call[q] = "sent"
    BY <1>1 DEF Maps, Pending
  <2>2. \A q \in Request : call'[q] = IF q = r THEN out ELSE call[q]
    BY <1>7, <1>1 DEF TypeOK
  <2>3. WaitingOnce'
    <3>1. ASSUME NEW i \in 1 .. Len(waiting) PROVE call'[waiting[i]] = "waiting"
      <4>1. waiting[i] \in Request
        BY <1>1 DEF TypeOK
      <4>2. call[waiting[i]] = "waiting"
        BY <1>1 DEF Maps, WaitingOnce
      <4> QED
        BY <4>1, <4>2, <2>1, <2>2, <1>7
    <3> QED
      BY <3>1, <1>1, <1>7 DEF Maps, WaitingOnce
  <2>4. Pending'
    BY <2>1, <2>2, <1>7 DEF Pending, LostCodes
  <2>5. Connections'
    BY <1>1, <1>7 DEF Connections
  <2> QED
    BY <2>1, <2>2, <2>3, <2>4, <2>5, <1>7 DEF Maps, CallMoves
<1>8. ASSUME NEW r \in Request, CallTimesOut(r) PROVE Kept
  <2>1. Maps' /\ \A q \in Request : CallMoves(q)
    BY <1>7, <1>8 DEF CallTimesOut, workerVars, LostCodes
  <2> QED
    BY <1>8, <2>1, Quiet DEF CallTimesOut, workerVars
<1>9. ASSUME NEW s \in Session, Response(s) PROVE Kept
  <2> DEFINE id == Head(replies[s])
  <2>1. id \in Request /\ effect[id] = "done"
    <3>1. replies[s] \in Seq(Request) /\ replies[s] # <<>>
      BY <1>1, <1>9 DEF TypeOK, Response
    <3>2. 1 \in 1 .. Len(replies[s]) /\ id = replies[s][1]
      BY <3>1
    <3> QED
      BY <3>1, <3>2, <1>1 DEF Ledger, Answers
  <2>2. /\ UNCHANGED <<status, socket, server, startPromise, sessionId, shuttingDown,
                       waiting, conn, written, worker, taken, effect>>
        /\ \/ id \in pending /\ pending' = pending \ {id}
              /\ call' = [call EXCEPT ![id] = "answered"]
           \/ UNCHANGED <<pending, call>>
    BY <1>9 DEF Response
  <2>3. \A t \in Session : replies'[t] = replies[t] \/ replies'[t] = Tail(replies[t])
    BY <1>9, <1>1 DEF Response, TypeOK
  <2>4. Maps' /\ \A q \in Request : CallMoves(q)
    <3>1. CASE UNCHANGED <<pending, call>>
      BY <3>1, <2>2, <1>1 DEF Maps, WaitingOnce, Pending, Connections, CallMoves
    <3>2. CASE id \in pending /\ pending' = pending \ {id}
               /\ call' = [call EXCEPT ![id] = "answered"]
      <4> HIDE DEF id
      <4> QED
        BY <3>2, <2>1, <2>2, <1>7
    <3> QED
      BY <3>1, <3>2, <2>2
  <2> QED
    BY <2>2, <2>3, <2>4, Quiet
<1> QED
  BY <1>5, <1>6, <1>8, <1>9

\* A hello writes the calls that wait, in their order.
LEMMA HelloStep == ASSUME IInv, NEW s \in Session, Hello(s) PROVE Kept
<1>1. TypeOK /\ Maps /\ Ledger /\ Connections /\ WaitingOnce /\ Pending
  BY DEF IInv, Maps
<1>2. \A r \in Request : r \in Waiting => call[r] = "waiting"
  BY <1>1 DEF WaitingOnce, Waiting, Range, TypeOK
<1>3. Waiting \subseteq Request
  BY <1>1 DEF Waiting, Range, TypeOK
<1>4. /\ \A r \in Request : call'[r] = IF r \in Waiting THEN "sent" ELSE call[r]
      /\ pending' = pending \cup Waiting /\ waiting' = <<>> /\ effect' = effect
  BY DEF Hello, workerVars
<1>5. Ledger'
  <2>1. waiting \in Seq(Request)
    BY <1>1 DEF TypeOK
  <2>2. /\ \A i, j \in 1 .. Len(waiting) : waiting[i] = waiting[j] => i = j
        /\ \A i \in 1 .. Len(waiting) : call[waiting[i]] \in {"idle", "waiting"}
    BY <1>1 DEF WaitingOnce
  <2>3. /\ written' = [written EXCEPT ![s] = @ \o waiting]
        /\ call' = [r \in Request |-> IF r \in Range(waiting) THEN "sent" ELSE call[r]]
        /\ UNCHANGED <<effect, taken, worker, replies>>
    BY DEF Hello, workerVars, Waiting
  <2> QED
    BY <1>1, <2>1, <2>2, <2>3, WriteStep
<1>6. WaitingOnce'
  BY <1>4 DEF WaitingOnce
<1>7. Pending'
  BY <1>1, <1>2, <1>3, <1>4 DEF Pending
<1>8. Connections'
  <2>1. /\ \A t \in Session : conn'[t] = IF t = s THEN "open" ELSE conn[t]
        /\ \A t \in Session : written'[t] = IF t = s THEN written[s] \o waiting ELSE written[t]
        /\ conn[s] = "accepted" /\ ~SocketAlive /\ sessionId = s /\ socket' = s
        /\ UNCHANGED <<sessionId, shuttingDown, worker>>
    BY <1>1 DEF Hello, TypeOK, workerVars
  <2>2. \A t \in Session : conn[t] # "open"
    BY <1>1, <2>1, NoneAssumption DEF Connections, SocketAlive
  <2>3. ~shuttingDown
    BY <1>1, <2>1, NoneAssumption DEF Connections
  <2>4. ASSUME NEW r \in pending'
        PROVE  \E t \in Session : r \in Range(written'[t]) /\ conn'[t] \in {"open", "closing"}
    <3>1. CASE r \in pending
      <4>1. PICK t \in Session : r \in Range(written[t]) /\ conn[t] \in {"open", "closing"}
        BY <1>1, <3>1 DEF Connections
      <4> QED
        BY <4>1, <2>1
    <3>2. CASE r \in Waiting
      <4>1. PICK i \in 1 .. Len(waiting) : r = waiting[i]
        BY <3>2, <1>1 DEF Waiting, Range, TypeOK
      <4>2. written[s] \in Seq(Request) /\ waiting \in Seq(Request)
        BY <1>1 DEF TypeOK
      <4>3. Len(written[s]) + i \in DOMAIN written'[s] /\ written'[s][Len(written[s]) + i] = r
        <5>1. written'[s] = written[s] \o waiting
          BY <2>1
        <5>2. Len(written[s]) \in Nat /\ Len(waiting) \in Nat
          BY <4>2
        <5>3. Len(written[s]) + i \in 1 .. Len(written[s] \o waiting)
          BY <4>1, <4>2, <5>2
        <5>4. (written[s] \o waiting)[Len(written[s]) + i] = waiting[i]
          BY <4>1, <4>2, <5>2, <5>3
        <5>5. DOMAIN (written[s] \o waiting) = 1 .. Len(written[s] \o waiting)
          BY <4>2
        <5> QED
          BY <4>1, <5>1, <5>3, <5>4, <5>5
      <4>4. r \in Range(written'[s])
        BY <4>3 DEF Range
      <4> QED
        BY <4>4, <2>1
    <3> QED
      BY <3>1, <3>2, <1>4
  <2> QED
    BY <1>1, <2>1, <2>2, <2>3, <2>4 DEF Connections
<1>9. \A r \in Request : Moves(r)
  BY <1>2, <1>4 DEF Moves, CallMoves
<1> QED
  BY <1>5, <1>6, <1>7, <1>8, <1>9 DEF Kept, Maps

\* A call is refused, written behind the others, or made to wait.
LEMMA CallStepKeeps ==
    ASSUME IInv, NEW r \in Request, NEW allowPrompt \in BOOLEAN, Call(r, allowPrompt)
    PROVE  Kept
<1>1. TypeOK /\ Maps /\ Ledger /\ Connections /\ WaitingOnce /\ Pending
  BY DEF IInv, Maps
<1>2. /\ call[r] = "idle"
      /\ UNCHANGED <<status, socket, server, startPromise, sessionId, shuttingDown, conn>>
      /\ UNCHANGED <<worker, taken, replies, effect>>
  BY DEF Call, workerVars
<1>3. \A i \in 1 .. Len(waiting) : waiting[i] \in Request /\ waiting[i] # r
  BY <1>1, <1>2 DEF WaitingOnce, TypeOK
<1>4. CASE call' = [call EXCEPT ![r] = "refused"] /\ UNCHANGED <<pending, waiting, written>>
  <2>1. \A q \in Request : call'[q] = IF q = r THEN "refused" ELSE call[q]
    BY <1>4, <1>1 DEF TypeOK
  <2>2. WaitingOnce'
    BY <2>1, <1>1, <1>3, <1>4 DEF WaitingOnce
  <2>3. Pending'
    BY <2>1, <1>1, <1>2, <1>4 DEF Pending
  <2>4. Connections'
    BY <1>1, <1>2, <1>4 DEF Connections
  <2>5. \A q \in Request : CallMoves(q)
    BY <2>1, <1>2 DEF CallMoves
  <2> QED
    BY <2>2, <2>3, <2>4, <2>5, <1>2, <1>4, Quiet DEF Maps
<1>5. CASE /\ Ready /\ call' = [call EXCEPT ![r] = "sent"] /\ pending' = pending \cup {r}
           /\ written' = [written EXCEPT ![socket] = Append(@, r)] /\ UNCHANGED waiting
  <2>1. socket \in Session /\ conn[socket] = "open" /\ ~shuttingDown
    BY <1>1, <1>5 DEF Ready, SocketAlive, TypeOK, Connections
  <2>2. \A q \in Request : call'[q] = IF q = r THEN "sent" ELSE call[q]
    BY <1>5, <1>1 DEF TypeOK
  <2>3. Ledger'
    <3> DEFINE q == <<r>>
    <3>1. q \in Seq(Request) /\ Len(q) = 1 /\ q[1] = r
      OBVIOUS
    <3>2. Range(q) = {r}
      BY <3>1 DEF Range
    <3>3. Append(written[socket], r) = written[socket] \o q
      <4>1. written[socket] \in Seq(Request)
        BY <1>1, <2>1 DEF TypeOK
      <4> QED
        BY <4>1, AppendIsConcat
    <3>4. written' = [written EXCEPT ![socket] = @ \o q]
      BY <1>5, <3>3
    <3> HIDE DEF q
    <3>5. call' = [p \in Request |-> IF p \in Range(q) THEN "sent" ELSE call[p]]
      BY <1>1, <1>5, <3>2 DEF TypeOK
    <3>6. \A i, j \in 1 .. Len(q) : q[i] = q[j] => i = j
      BY <3>1
    <3>7. \A i \in 1 .. Len(q) : call[q[i]] \in {"idle", "waiting"}
      BY <3>1, <1>2
    <3> QED
      BY <1>1, <1>2, <2>1, <3>1, <3>4, <3>5, <3>6, <3>7, WriteStep
  <2>4. WaitingOnce'
    BY <2>2, <1>1, <1>3, <1>5 DEF WaitingOnce
  <2>5. Pending'
    BY <2>2, <1>1, <1>5 DEF Pending
  <2>6. Connections'
    <3>1. \A t \in Session : t # socket => written'[t] = written[t]
      BY <1>1, <1>5 DEF TypeOK
    <3>2. r \in Range(written'[socket]) /\ Range(written[socket]) \subseteq Range(written'[socket])
      <4>1. written[socket] \in Seq(Request) /\ written'[socket] = Append(written[socket], r)
        BY <1>1, <1>5, <2>1 DEF TypeOK
      <4> DEFINE w == written[socket]
      <4>2. /\ DOMAIN w = 1 .. Len(w) /\ Len(w) \in Nat
            /\ DOMAIN Append(w, r) = 1 .. Len(w) + 1
            /\ \A i \in 1 .. Len(w) + 1 : Append(w, r)[i] = IF i = Len(w) + 1 THEN r ELSE w[i]
        BY <4>1
      <4> HIDE DEF w
      <4>3. r \in Range(Append(w, r))
        BY <4>2 DEF Range
      <4>4. Range(w) \subseteq Range(Append(w, r))
        BY <4>2 DEF Range
      <4> QED
        BY <4>1, <4>3, <4>4 DEF w
    <3>3. \A p \in pending' : \E t \in Session : p \in Range(written'[t]) /\ conn[t] \in {"open", "closing"}
      BY <3>1, <3>2, <2>1, <1>1, <1>5 DEF Connections
    <3> QED
      BY <3>3, <1>1, <1>2, <2>1 DEF Connections
  <2>7. \A q \in Request : Moves(q)
    BY <2>2, <1>2 DEF Moves, CallMoves
  <2> QED
    BY <2>3, <2>4, <2>5, <2>6, <2>7 DEF Kept, Maps
<1>6. CASE /\ call' = [call EXCEPT ![r] = "waiting"] /\ waiting' = Append(waiting, r)
           /\ UNCHANGED <<pending, written>>
  <2>1. \A q \in Request : call'[q] = IF q = r THEN "waiting" ELSE call[q]
    BY <1>6, <1>1 DEF TypeOK
  <2>2. WaitingOnce'
    <3>1. waiting \in Seq(Request)
      BY <1>1 DEF TypeOK
    <3>2. /\ Len(waiting') = Len(waiting) + 1 /\ Len(waiting) \in Nat
          /\ \A i \in 1 .. Len(waiting) + 1 :
                waiting'[i] = IF i = Len(waiting) + 1 THEN r ELSE waiting[i]
      BY <3>1, <1>6
    <3>3. \A i \in 1 .. Len(waiting') : call'[waiting'[i]] = "waiting"
      BY <3>2, <2>1, <1>1, <1>3 DEF WaitingOnce
    <3>4. \A i, j \in 1 .. Len(waiting') : waiting'[i] = waiting'[j] => i = j
      BY <3>2, <1>1, <1>3 DEF WaitingOnce
    <3> QED
      BY <3>3, <3>4 DEF WaitingOnce
  <2>3. Pending'
    BY <2>1, <1>1, <1>2, <1>6 DEF Pending
  <2>4. Connections'
    BY <1>1, <1>2, <1>6 DEF Connections
  <2>5. \A q \in Request : CallMoves(q)
    BY <2>1, <1>2 DEF CallMoves
  <2> QED
    BY <2>2, <2>3, <2>4, <2>5, <1>2, <1>6, Quiet DEF Maps
<1> QED
  BY <1>4, <1>5, <1>6 DEF Call

LEMMA WorkerStep ==
    ASSUME IInv, NEW s \in Session, Begin(s) \/ End(s) \/ WorkerEnds(s)
    PROVE  Kept
<1>1. TypeOK /\ Maps /\ Ledger /\ Connections
  BY DEF IInv, Maps
<1>2. Ledger'
  BY <1>1, WorkStep
<1>3. Maps'
  <2>1. UNCHANGED <<managerVars, conn, written>>
    BY DEF Begin, End, WorkerEnds
  <2>2. \A t \in Session : worker'[t] = worker[t] \/ worker'[t] = "dead"
    BY <1>1 DEF Begin, End, WorkerEnds, TypeOK
  <2> QED
    BY <1>1, <2>1, <2>2 DEF managerVars, Maps, WaitingOnce, Pending, Connections
<1>4. ASSUME NEW r \in Request PROVE Moves(r)
  <2>1. call' = call
    BY DEF Begin, End, WorkerEnds, managerVars
  <2>2. CASE effect'[r] = effect[r]
    BY <2>1, <2>2 DEF Moves, CallMoves
  <2>3. CASE effect'[r] # effect[r] /\ Begin(s)
    <3> DEFINE n == taken[s] + 1
    <3>1. n \in 1 .. Len(written[s]) /\ n > taken[s]
      <4>1. taken[s] < Len(written[s])
        BY <2>3 DEF Begin
      <4>2. taken[s] \in Nat /\ written[s] \in Seq(Request)
        BY <1>1 DEF TypeOK
      <4>3. Len(written[s]) \in Nat
        BY <4>2
      <4> QED
        BY <4>1, <4>2, <4>3
    <3>2. effect'[r] = "begun" /\ r = written[s][n]
      BY <2>3, <1>1 DEF Begin, TypeOK
    <3>3. effect[r] = "none" /\ call[r] \notin Unsent
      BY <3>1, <3>2, <1>1 DEF Ledger, Queued, WrittenIsSent, At
    <3>4. call[r] # "answered"
      BY <3>3, <1>1 DEF Ledger, Answers
    <3> QED
      BY <2>1, <3>2, <3>3, <3>4 DEF Moves
  <2>4. CASE effect'[r] # effect[r] /\ ~Begin(s)
    <3>1. Busy(s) /\ r = Current(s) /\ effect'[r] \in {"done", "cut"}
      BY <2>4, <1>1 DEF End, WorkerEnds, TypeOK
    <3> QED
      BY <2>1, <3>1 DEF Busy, Moves
  <2> QED
    BY <2>2, <2>3, <2>4
<1> QED
  BY <1>2, <1>3, <1>4 DEF Kept

LEMMA InitInv == Init => IInv
<1> SUFFICES ASSUME Init PROVE IInv
  OBVIOUS
<1>1. TypeOK
  <2>1. <<>> \in Seq(Request)
    OBVIOUS
  <2> QED
    BY <2>1 DEF Init, TypeOK, CallStatus, ConnStatus, WorkerStatus
<1>2. \A s \in Session : Len(written[s]) = 0 /\ Len(replies[s]) = 0 /\ written[s] = <<>>
  BY DEF Init
<1>3. Ledger
  BY <1>2 DEF Init, Ledger, Queued, WrittenOnce, WrittenIsSent, Answers, At
<1>4. Maps
  BY DEF Init, Maps, WaitingOnce, Pending, Connections
<1> QED
  BY <1>1, <1>3, <1>4 DEF IInv

LEMMA StepInv == IInv /\ [Next]_vars => IInv' /\ \A r \in Request : Moves(r)
<1> SUFFICES ASSUME IInv, [Next]_vars PROVE IInv' /\ \A r \in Request : Moves(r)
  OBVIOUS
<1>1. TypeOK'
  BY TypeStep DEF IInv, Ledger
<1>2. Kept
  <2>1. CASE Next
    BY <2>1, SessionStep, SettleStep, HelloStep, CallStepKeeps, WorkerStep
       DEF Next, ManagerEvent, WorkerEvent
  <2>2. CASE UNCHANGED vars
    BY <2>2 DEF vars, managerVars, workerVars, IInv, Ledger, Maps, Queued, WrittenOnce,
       WrittenIsSent, Answers, At, WaitingOnce, Pending, Connections, Kept, Moves, CallMoves
  <2> QED
    BY <2>1, <2>2
<1> QED
  BY <1>1, <1>2 DEF Kept, IInv

LEMMA Invariance == Spec => []IInv
<1>1. IInv /\ [Next]_vars => IInv'
  BY StepInv
<1> QED
  BY InitInv, <1>1, PTL DEF Spec

-----------------------------------------------------------------------------
(***************************************************************************)
(* The theorems                                                            *)
(***************************************************************************)

\* The variables of the broker keep their types.
THEOREM TypeCorrect == Spec => []TypeOK
<1>1. IInv => TypeOK
  BY DEF IInv
<1> QED
  BY Invariance, <1>1, PTL

\* The worker's operations never overlap or overtake each other: an operation
\* begins after the end of all those written before it.
THEOREM LaterCallsRunAfterHolds == Spec => []LaterCallsRunAfter
<1>1. IInv => LaterCallsRunAfter
  <2> SUFFICES ASSUME IInv, NEW s \in Session, NEW i \in DOMAIN written[s],
                      NEW j \in DOMAIN written[s], i < j, effect[written[s][j]] # "none"
               PROVE  effect[written[s][i]] = "done"
    BY DEF LaterCallsRunAfter
  <2>0. i \in 1 .. Len(written[s]) /\ j \in 1 .. Len(written[s])
    <3>1. written[s] \in Seq(Request)
      BY DEF IInv, TypeOK
    <3>2. DOMAIN written[s] = 1 .. Len(written[s])
      BY <3>1
    <3> QED
      BY <3>2
  <2>1. j <= taken[s]
    BY <2>0 DEF IInv, Ledger, Queued, At, TypeOK
  <2>2. i < taken[s]
    BY <2>0, <2>1 DEF IInv, TypeOK
  <2> QED
    BY <2>0, <2>2 DEF IInv, Ledger, Queued, At
<1> QED
  BY Invariance, <1>1, PTL

\* A call that waits for an answer always has a connection whose end will
\* reject it, and every connection in use is the manager's socket.
THEOREM PendingHasConnectionHolds == Spec => []PendingHasConnection
<1>1. IInv => PendingHasConnection
  BY DEF IInv, TypeOK, Maps, Pending, Connections, PendingHasConnection
<1> QED
  BY Invariance, <1>1, PTL

\* The broker implements the promise of a single call, for every number of calls
\* and sessions.
THEOREM Implementation == Spec => ImplementsPrivilegedCall
<1> DEFINE abs == [r \in Request |-> IF call[r] \in Unanswered THEN "open"
                                     ELSE IF call[r] \in LostCodes THEN "lost" ELSE call[r]]
<1>1. Init => Calls!CallInit
  BY DEF Init, Calls!CallInit, Unanswered, LostCodes
<1>2. IInv /\ [Next]_vars => [Calls!CallNext]_(Calls!callVars)
  <2> SUFFICES ASSUME IInv, [Next]_vars PROVE Calls!CallNext
    BY DEF Calls!callVars
  <2> SUFFICES ASSUME NEW r \in Request PROVE Calls!CallStep(r, abs'[r], effect'[r])
    BY DEF Calls!CallNext
  <2>1. Moves(r)
    BY StepInv
  <2>2. /\ abs[r] = (IF call[r] \in Unanswered THEN "open"
                     ELSE IF call[r] \in LostCodes THEN "lost" ELSE call[r])
        /\ abs'[r] = (IF call'[r] \in Unanswered THEN "open"
                      ELSE IF call'[r] \in LostCodes THEN "lost" ELSE call'[r])
    OBVIOUS
  <2>3. /\ call[r] \in CallStatus /\ (call[r] \in Unsent => effect[r] = "none")
    BY DEF IInv, TypeOK, Ledger, WrittenIsSent
  <2> HIDE DEF abs
  <2> QED
    BY <2>1, <2>2, <2>3 DEF Moves, CallMoves, Unsent, Unanswered, LostCodes, CallStatus,
       Calls!CallStep, Calls!Issued, Calls!Refused, Calls!Begun, Calls!Over, Calls!Answer,
       Calls!Lost, Calls!Unchanged
<1> QED
  BY Invariance, <1>1, <1>2, PTL DEF Spec, ImplementsPrivilegedCall, Calls!CallSpec
=============================================================================
