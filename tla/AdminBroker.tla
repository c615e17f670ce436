---------------------------- MODULE AdminBroker ----------------------------
(***************************************************************************)
(* The administrator broker: adminBrokerManager.js in the main process     *)
(* and adminBrokerWorker.js in the elevated process, with the pipe between *)
(* them. One approval starts a session: a pipe server, the UAC prompt, the *)
(* worker's connection and its hello. Calls are written to the session's   *)
(* socket, run by the worker one at a time in that order, and answered by  *)
(* id. Sessions end by time-outs, broken pipes, dying workers or shutdown, *)
(* and the events of an old session may arrive in a new one.               *)
(*                                                                         *)
(* One action is one callback of the main process or of the worker. The    *)
(* promise continuations of a callback run before the next one, and are    *)
(* part of it: the calls that wait for a session are written by its hello. *)
(* The process is not elevated itself, and requires explicit approval, as  *)
(* main.js sets it up.                                                     *)
(***************************************************************************)
EXTENDS Integers, Sequences, Functions

CONSTANTS
    Request,   \* calls of execute()
    Session,   \* sessions an approval can start
    None

ASSUME NoneAssumption == None \notin Session

VARIABLES
    status,        \* what getState() tells the rest of the application
    socket,        \* the session whose connection `socket` holds
    server,        \* the session whose pipe server is listening
    startPromise,  \* the session whose start is not settled yet
    sessionId,     \* the id a hello is compared with
    shuttingDown,
    pending,       \* pendingRequests
    waiting,       \* calls that await startPromise, in their order
    call,          \* call[r]: what the promise of r has come to
    conn,          \* conn[s]: the main process' end of the connection of s
    worker,        \* worker[s]: the elevated process of s
    written,       \* written[s]: the requests written to the socket of s
    taken,         \* taken[s]: how many of them the worker has begun
    replies,       \* replies[s]: responses on their way back
    effect         \* effect[r]: how far the operation of r has come

managerVars == <<status, socket, server, startPromise, sessionId, shuttingDown,
                 pending, waiting, call>>
workerVars == <<worker, taken, replies, effect>>
vars == <<managerVars, conn, written, workerVars>>

Unanswered == {"waiting", "sent"}
LostCodes == {"timeout", "disconnected", "shutdown"}
CallStatus == {"idle", "answered", "refused"} \cup Unanswered \cup LostCodes

\* "accepted": connected, nothing received yet, so not the manager's `socket`;
\* "closing": destroyed or ended, its close event not delivered yet.
ConnStatus == {"none", "accepted", "open", "closing", "closed"}
WorkerStatus == {"none", "prompt", "up", "closing", "dead"}

TypeOK ==
    /\ status \in {"idle", "starting", "ready", "disconnected", "cancelled"}
    /\ socket \in Session \cup {None}
    /\ server \in Session \cup {None}
    /\ startPromise \in Session \cup {None}
    /\ sessionId \in Session \cup {None}
    /\ shuttingDown \in BOOLEAN
    /\ pending \subseteq Request
    /\ waiting \in Seq(Request)
    /\ call \in [Request -> CallStatus]
    /\ conn \in [Session -> ConnStatus]
    /\ worker \in [Session -> WorkerStatus]
    /\ written \in [Session -> Seq(Request)]
    /\ taken \in [Session -> Nat]
    /\ replies \in [Session -> Seq(Request)]
    /\ effect \in [Request -> {"none", "begun", "done", "cut"}]

Init ==
    /\ status = "idle"
    /\ socket = None /\ server = None /\ startPromise = None /\ sessionId = None
    /\ shuttingDown = FALSE
    /\ pending = {} /\ waiting = <<>>
    /\ call = [r \in Request |-> "idle"]
    /\ conn = [s \in Session |-> "none"]
    /\ worker = [s \in Session |-> "none"]
    /\ written = [s \in Session |-> <<>>]
    /\ taken = [s \in Session |-> 0]
    /\ replies = [s \in Session |-> <<>>]
    /\ effect = [r \in Request |-> "none"]

SocketAlive == socket # None /\ conn[socket] = "open"
Ready == status = "ready" /\ SocketAlive
Waiting == Range(waiting)

-----------------------------------------------------------------------------
(***************************************************************************)
(* The manager                                                             *)
(***************************************************************************)

\* Mutant of CloseTransport: the pending calls are not rejected.
CloseTransportSilently(c0, code) ==
    /\ socket' = None
    /\ conn' = [s \in Session |-> IF s = socket /\ c0[s] = "open" THEN "closing" ELSE c0[s]]
    /\ server' = None
    /\ sessionId' = None
    /\ UNCHANGED <<pending, call, startPromise, waiting>>

\* closeTransport() with connections c0: the socket, whose-ever it is, is
\* destroyed, the server closed, and every pending call rejected with `code`.
CloseTransport(c0, code) ==
    /\ socket' = None
    /\ conn' = [s \in Session |-> IF s = socket /\ c0[s] = "open" THEN "closing" ELSE c0[s]]
    /\ server' = None
    /\ pending' = {}
    /\ sessionId' = None
    /\ call' = [r \in Request |-> IF r \in pending THEN code ELSE call[r]]
    /\ UNCHANGED <<startPromise, waiting>>

\* Only a shutdown does not tell the others.
Disconnected == status' = IF shuttingDown THEN status ELSE "disconnected"

\* finishReject() of the session being started: its calls are rejected too.
FinishReject(c0, newStatus) ==
    /\ status' = newStatus
    /\ socket' = None
    /\ conn' = [s \in Session |-> IF s = socket /\ c0[s] = "open" THEN "closing" ELSE c0[s]]
    /\ server' = None
    /\ pending' = {}
    /\ sessionId' = None
    /\ startPromise' = None
    /\ waiting' = <<>>
    /\ call' = [r \in Request |-> IF r \in pending THEN "disconnected"
                                  ELSE IF r \in Waiting THEN "refused" ELSE call[r]]

\* ensureReady({ explicitApproval: true }), the sidebar button or the start-up
\* option: a new session, unless one is ready or being started.
Approve(s) ==
    /\ ~Ready /\ startPromise = None
    /\ worker[s] = "none"
    /\ shuttingDown' = FALSE
    /\ sessionId' = s /\ server' = s /\ startPromise' = s
    /\ status' = "starting"
    /\ worker' = [worker EXCEPT ![s] = "prompt"]
    /\ UNCHANGED <<socket, pending, waiting, call, conn, written, taken, replies, effect>>

\* Mutant of LaunchFails: the error's code is published as the status.
LaunchFailsWithCode(s) ==
    /\ worker[s] = "prompt"
    /\ worker' = [worker EXCEPT ![s] = "dead"]
    /\ IF startPromise = s
       THEN FinishReject(conn, "ADMIN_BROKER_CANCELLED")
       ELSE UNCHANGED <<status, socket, server, startPromise, sessionId, pending,
                        waiting, call, conn>>
    /\ UNCHANGED <<shuttingDown, written, taken, replies, effect>>

\* launchBroker() rejects: the user declines, the host does not start or is not
\* trusted, or the pipe cannot be served.
LaunchFails(s) ==
    /\ worker[s] = "prompt"
    /\ worker' = [worker EXCEPT ![s] = "dead"]
    /\ IF startPromise = s
       THEN \E outcome \in {"cancelled", "disconnected"} : FinishReject(conn, outcome)
       ELSE UNCHANGED <<status, socket, server, startPromise, sessionId, pending,
                        waiting, call, conn>>
    /\ UNCHANGED <<shuttingDown, written, taken, replies, effect>>

\* Mutant of StartTimesOut: a transport that is closed has no timer any more.
StartTimesOutServed ==
    /\ startPromise # None /\ server # None
    /\ FinishReject(conn, "disconnected")
    /\ UNCHANGED <<shuttingDown, written, workerVars>>

StartTimesOut ==
    /\ startPromise # None
    /\ FinishReject(conn, "disconnected")
    /\ UNCHANGED <<shuttingDown, written, workerVars>>

\* The first message of a connection while another one is the socket.
GreetingRefused(s) ==
    /\ conn[s] = "accepted"
    /\ SocketAlive
    /\ conn' = [conn EXCEPT ![s] = "closed"]
    /\ UNCHANGED <<managerVars, written, workerVars>>

\* A hello with the id of the present session: the start is settled and the
\* calls that waited for it are written.
Hello(s) ==
    /\ conn[s] = "accepted" /\ ~SocketAlive
    /\ sessionId = s
    /\ socket' = s
    /\ conn' = [conn EXCEPT ![s] = "open"]
    /\ server' = None
    /\ status' = "ready"
    /\ startPromise' = None
    /\ waiting' = <<>>
    /\ pending' = pending \cup Waiting
    /\ call' = [r \in Request |-> IF r \in Waiting THEN "sent" ELSE call[r]]
    /\ written' = [written EXCEPT ![s] = @ \o waiting]
    /\ UNCHANGED <<sessionId, shuttingDown, workerVars>>

\* Mutant of HelloRefused: the start is rejected, the connection left alone.
HelloIgnored(s) ==
    /\ conn[s] = "accepted" /\ ~SocketAlive
    /\ sessionId # s
    /\ IF startPromise = s
       THEN FinishReject([conn EXCEPT ![s] = "open"], "disconnected")
       ELSE /\ conn' = [conn EXCEPT ![s] = "open"]
            /\ UNCHANGED <<status, socket, server, startPromise, sessionId, pending,
                           waiting, call>>
    /\ UNCHANGED <<shuttingDown, written, workerVars>>

\* A hello of a session that was given up, or whose id the close event of
\* another one has erased.
HelloRefused(s) ==
    /\ conn[s] = "accepted" /\ ~SocketAlive
    /\ sessionId # s
    /\ LET greeted == [conn EXCEPT ![s] = "closing"]
       IN  IF startPromise = s
           THEN FinishReject(greeted, "disconnected")
           ELSE CloseTransport(greeted, "disconnected") /\ Disconnected
    /\ UNCHANGED <<shuttingDown, written, workerVars>>

\* A startup-error: the connection has become the socket, the worker is gone.
StartupError(s) ==
    /\ conn[s] = "accepted" /\ ~SocketAlive
    /\ worker' = [worker EXCEPT ![s] = "dead"]
    /\ IF startPromise = s
       THEN FinishReject([conn EXCEPT ![s] = "closing"], "disconnected")
       ELSE /\ socket' = s
            /\ conn' = [conn EXCEPT ![s] = "open"]
            /\ UNCHANGED <<status, server, startPromise, sessionId, pending, waiting, call>>
    /\ UNCHANGED <<shuttingDown, written, taken, replies, effect>>

\* The close event of a connection that had been the socket. It says nothing
\* of the session it belongs to: closeTransport() closes the present one.
CloseEvent(s) ==
    /\ conn[s] = "closing"
    /\ LET closed == [conn EXCEPT ![s] = "closed"]
       IN  IF startPromise = s
           THEN FinishReject(closed, "disconnected")
           ELSE IF shuttingDown
           THEN /\ conn' = closed
                /\ UNCHANGED <<status, socket, server, startPromise, sessionId, pending,
                               waiting, call>>
           ELSE CloseTransport(closed, "disconnected") /\ Disconnected
    /\ UNCHANGED <<shuttingDown, written, workerVars>>

\* execute(): refused, written at once, or made to wait for the start.
Call(r, allowPrompt) ==
    /\ call[r] = "idle"
    /\ \/ /\ \/ ~allowPrompt /\ status # "ready"
             \/ ~Ready /\ startPromise = None
          /\ call' = [call EXCEPT ![r] = "refused"]
          /\ UNCHANGED <<pending, waiting, written>>
       \/ /\ Ready
          /\ call' = [call EXCEPT ![r] = "sent"]
          /\ pending' = pending \cup {r}
          /\ written' = [written EXCEPT ![socket] = Append(@, r)]
          /\ UNCHANGED waiting
       \/ /\ ~Ready /\ startPromise # None
          /\ allowPrompt \/ status = "ready"
          /\ call' = [call EXCEPT ![r] = "waiting"]
          /\ waiting' = Append(waiting, r)
          /\ UNCHANGED <<pending, written>>
    /\ UNCHANGED <<status, socket, server, startPromise, sessionId, shuttingDown, conn,
                   workerVars>>

\* The timer of a call: the worker is not told.
CallTimesOut(r) ==
    /\ r \in pending
    /\ pending' = pending \ {r}
    /\ call' = [call EXCEPT ![r] = "timeout"]
    /\ UNCHANGED <<status, socket, server, startPromise, sessionId, shuttingDown, waiting,
                   conn, written, workerVars>>

\* Mutant of Response: a response answers the call that waits, not its own.
ResponseUncorrelated(s) ==
    /\ conn[s] = "open"
    /\ replies[s] # <<>>
    /\ IF pending # {}
       THEN \E id \in pending : /\ pending' = pending \ {id}
                                /\ call' = [call EXCEPT ![id] = "answered"]
       ELSE UNCHANGED <<pending, call>>
    /\ replies' = [replies EXCEPT ![s] = Tail(@)]
    /\ UNCHANGED <<status, socket, server, startPromise, sessionId, shuttingDown, waiting,
                   conn, written, worker, taken, effect>>

\* A response, the result of the operation or its error: an id that is not
\* pending any more is ignored.
Response(s) ==
    /\ conn[s] = "open"
    /\ replies[s] # <<>>
    /\ LET id == Head(replies[s])
       IN  IF id \in pending
           THEN /\ pending' = pending \ {id}
                /\ call' = [call EXCEPT ![id] = "answered"]
           ELSE UNCHANGED <<pending, call>>
    /\ replies' = [replies EXCEPT ![s] = Tail(@)]
    /\ UNCHANGED <<status, socket, server, startPromise, sessionId, shuttingDown, waiting,
                   conn, written, worker, taken, effect>>

\* shutdown(). A start in progress is left to its timer, with no server.
Shutdown ==
    /\ shuttingDown' = TRUE
    /\ CloseTransport(conn, "shutdown")
    /\ status' = "idle"
    /\ UNCHANGED <<written, workerVars>>

-----------------------------------------------------------------------------
(***************************************************************************)
(* The elevated process                                                    *)
(***************************************************************************)

\* The prompt is accepted, and the worker the host starts connects and says
\* hello, if the pipe is still served.
Connect(s) ==
    /\ worker[s] = "prompt"
    /\ IF server = s /\ ~SocketAlive
       THEN /\ conn' = [conn EXCEPT ![s] = "accepted"]
            /\ worker' = [worker EXCEPT ![s] = "up"]
       ELSE /\ worker' = [worker EXCEPT ![s] = "dead"]
            /\ UNCHANGED conn
    /\ UNCHANGED <<managerVars, written, taken, replies, effect>>

\* The operation the worker is at, and whether it is still in progress.
Current(s) == written[s][taken[s]]
Busy(s) == taken[s] > 0 /\ effect[Current(s)] = "begun"

\* Mutant of Begin: requests are handled as they arrive.
BeginAtOnce(s) ==
    /\ worker[s] \in {"up", "closing"}
    /\ taken[s] < Len(written[s])
    /\ taken' = [taken EXCEPT ![s] = @ + 1]
    /\ effect' = [effect EXCEPT ![written[s][taken[s] + 1]] = "begun"]
    /\ UNCHANGED <<managerVars, conn, written, worker, replies>>

\* The queue of the worker: the next request begins when the one before is over.
Begin(s) ==
    /\ worker[s] \in {"up", "closing"}
    /\ ~Busy(s)
    /\ taken[s] < Len(written[s])
    /\ taken' = [taken EXCEPT ![s] = @ + 1]
    /\ effect' = [effect EXCEPT ![written[s][taken[s] + 1]] = "begun"]
    /\ UNCHANGED <<managerVars, conn, written, worker, replies>>

\* The operation ends or throws; send() is silent once the worker is closing.
End(s) ==
    /\ worker[s] \in {"up", "closing"}
    /\ Busy(s)
    /\ effect' = [effect EXCEPT ![Current(s)] = "done"]
    /\ replies' = IF worker[s] = "up"
                  THEN [replies EXCEPT ![s] = Append(@, Current(s))]
                  ELSE replies
    /\ UNCHANGED <<managerVars, conn, written, worker, taken>>

SeesClose(s) ==
    /\ worker[s] = "up"
    /\ conn[s] \in {"closing", "closed"}
    /\ worker' = [worker EXCEPT ![s] = "closing"]
    /\ UNCHANGED <<managerVars, conn, written, taken, replies, effect>>

\* process.exit() a turn after the close, or a death at any time: nobody sees
\* the end of the operation in progress.
WorkerEnds(s) ==
    /\ worker[s] \in {"up", "closing"}
    /\ worker' = [worker EXCEPT ![s] = "dead"]
    /\ effect' = IF Busy(s) THEN [effect EXCEPT ![Current(s)] = "cut"] ELSE effect
    /\ UNCHANGED <<managerVars, conn, written, taken, replies>>

\* The main process notices that the other end is gone: what is still in the
\* pipe is lost, and a connection that never spoke goes without a word.
PeerGone(s) ==
    /\ worker[s] = "dead"
    /\ \/ conn[s] = "open" /\ conn' = [conn EXCEPT ![s] = "closing"]
       \/ conn[s] = "accepted" /\ conn' = [conn EXCEPT ![s] = "closed"]
    /\ UNCHANGED <<managerVars, written, workerVars>>

-----------------------------------------------------------------------------
ManagerEvent ==
    \/ StartTimesOut
    \/ \E s \in Session :
          \/ LaunchFails(s) \/ GreetingRefused(s) \/ Hello(s) \/ HelloRefused(s)
          \/ StartupError(s) \/ CloseEvent(s) \/ Response(s) \/ PeerGone(s)
    \/ \E r \in Request : CallTimesOut(r)

WorkerEvent ==
    \E s \in Session :
        \/ Connect(s) \/ Begin(s) \/ End(s) \/ SeesClose(s) \/ WorkerEnds(s)

Next ==
    \/ ManagerEvent \/ WorkerEvent \/ Shutdown
    \/ \E s \in Session : Approve(s)
    \/ \E r \in Request, allowPrompt \in BOOLEAN : Call(r, allowPrompt)

Spec == Init /\ [][Next]_vars

\* The main process handles its events: greetings, close events, its timers.
\* Prompts are answered or withdrawn and a worker whose pipe is closed exits.
\* No operation has to end.
Greeting(s) == GreetingRefused(s) \/ Hello(s) \/ HelloRefused(s) \/ StartupError(s)
Progress ==
    /\ WF_vars(StartTimesOut)
    /\ \A r \in Request : WF_vars(CallTimesOut(r))
    /\ \A s \in Session :
          /\ WF_vars(LaunchFails(s) \/ Connect(s))
          /\ WF_vars(Greeting(s) \/ PeerGone(s))
          /\ WF_vars(CloseEvent(s))
          /\ WF_vars(SeesClose(s))
          /\ WF_vars(worker[s] = "closing" /\ WorkerEnds(s))

FairSpec == Spec /\ Progress

-----------------------------------------------------------------------------
(***************************************************************************)
(* Properties                                                              *)
(***************************************************************************)

\* A call that waits for an answer was written to a connection that is in use or
\* whose close event is still to come, and the only connection in use is the
\* manager's socket: whatever event of whatever session ends a connection, its
\* calls are rejected with it, and no elevated worker keeps a pipe nobody reads.
PendingHasConnection ==
    /\ \A r \in pending : /\ call[r] = "sent"
                          /\ \E s \in Session : /\ r \in Range(written[s])
                                                /\ conn[s] \in {"open", "closing"}
    /\ \A s \in Session : conn[s] = "open" => socket = s

\* The worker runs the requests of its session one at a time in the order they
\* were written, those whose callers have given up included: an operation that
\* has begun finds every earlier one ended, so what a caller reads after a
\* time-out already contains what the call that timed out does.
LaterCallsRunAfter ==
    \A s \in Session : \A i, j \in DOMAIN written[s] :
        (i < j /\ effect[written[s][j]] # "none") => effect[written[s][i]] = "done"

\* The broker implements the promise of a single call: an answer is that of an
\* operation that has ended, a refused call never runs, and nothing runs twice,
\* over all the ways a session can end.
Calls == INSTANCE PrivilegedCall WITH
    outcome <- [r \in Request |-> IF call[r] \in Unanswered THEN "open"
                                  ELSE IF call[r] \in LostCodes THEN "lost" ELSE call[r]]
ImplementsPrivilegedCall == Calls!CallSpec

\* Every call is answered, also one that waits for a start the close event of an
\* earlier session has doomed, or for a worker that hangs.
CallEnds == \A r \in Request : call[r] \in Unanswered ~> call[r] \notin Unanswered

\* An elevated process that belongs to no start and is not the manager's session
\* ends: a late approval, a stale hello or a lost pipe leaves no worker behind.
Abandoned(s) == worker[s] \in {"up", "closing"} /\ startPromise # s /\ socket # s
AbandonedWorkerEnds == \A s \in Session : Abandoned(s) ~> worker[s] = "dead"
=============================================================================
