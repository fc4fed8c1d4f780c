----------------------------- MODULE TCPClient ------------------------------
(***************************************************************************)
(* net::TCPClient with its net::TCPConnector (net/engine/tcp_client.cc,     *)
(* tcp_connector.cc), the socket set-up of CreateTCPConnectedSocket         *)
(* (socket_ops.cc) and the life of the IOHandlers they create.              *)
(*                                                                          *)
(* Connect and DisConnect may be called on any thread: they test            *)
(* connect_state_ and then post to the loop, in two steps.  Everything else *)
(* runs on the loop: the posted tasks, the retry timer, the write event of  *)
(* a connect in progress, and the close of an established connection        *)
(* (IOHandler::Close, seen from here as one step).                          *)
(*                                                                          *)
(* A socket is a number of Fds, 0 is kInvalidSocket; the kernel hands out   *)
(* any free one.  A handler is a number too, 0 is NULL; handlers[h] is its  *)
(* socket_.  style says how the application uses the client: "zengine" as   *)
(* ZNetTCPClient does (one Connect, no DisConnect, OnNewConnection returns  *)
(* 0), "any" as the interface allows.                                       *)
(***************************************************************************)
EXTENDS Integers, Sequences, FiniteSets

CONSTANTS
    Callers,      \* threads that call Connect and DisConnect
    MaxFds,       \* the descriptors the process may open
    MaxHandlers,  \* bound: connections established in a behaviour
    MaxCalls      \* bound: calls of Connect and DisConnect in a behaviour

ASSUME TCPClientConstants ==
    /\ MaxFds \in Nat \ {0}
    /\ MaxHandlers \in Nat \ {0}
    /\ MaxCalls \in Nat \ {0}

VARIABLES
    style,           \* how the application uses the client, fixed
    connect_state_, connector_,
    watcher_,        \* the descriptor the connector watches, or 0
    io_handler_,     \* TCPClient's pointer
    handlers,        \* socket_ of each handler
    created,         \* handlers created so far
    tasks, delayed,  \* the loop's queue; ReConnects waiting for the timer
    pc, calls,       \* callers between their test and their post; calls so far
    fd,              \* kernel: state of each descriptor
    lost             \* history: an established connection was closed

vars == <<style, connect_state_, connector_, watcher_, io_handler_, handlers,
          created, tasks, delayed, pc, calls, fd, lost>>

Fds == 1 .. MaxFds
Handlers == 1 .. MaxHandlers
FdStates == {"free", "connecting", "up", "down"}
\* The states SetConnState is called with; the enum also has ConnectComplete
\* (connected, not initialised yet), which no code sets.
ConnectStates == {"Invalid", "Connecting", "Connected"}

Init ==
    /\ style \in {"zengine", "any"}
    /\ connect_state_ = "Invalid"
    /\ connector_ = 0
    /\ watcher_ = 0
    /\ io_handler_ = 0
    /\ handlers = [h \in Handlers |-> 0]
    /\ created = 0
    /\ tasks = <<>>
    /\ delayed = 0
    /\ pc = [t \in Callers |-> "idle"]
    /\ calls = 0
    /\ fd = [f \in Fds |-> "free"]
    /\ lost = FALSE

-----------------------------------------------------------------------------
(* Connect and DisConnect, on any thread.                                   *)

\* Connect: refused unless the state is Invalid.
ConnectTest(t) ==
    /\ pc[t] = "idle"
    /\ calls < MaxCalls /\ (style = "zengine" => calls = 0)
    /\ calls' = calls + 1
    /\ pc' = [pc EXCEPT ![t] =
                 IF connect_state_ = "Invalid" THEN "connect" ELSE "idle"]
    /\ UNCHANGED <<style, connect_state_, connector_, watcher_, io_handler_,
                   handlers, created, tasks, delayed, fd, lost>>

\* ... then remember the address and DoConnect(0); the state is unchanged.
ConnectPost(t) ==
    /\ pc[t] = "connect"
    /\ pc' = [pc EXCEPT ![t] = "idle"]
    /\ tasks' = Append(tasks, "ReConnect")
    /\ UNCHANGED <<style, connect_state_, connector_, watcher_, io_handler_,
                   handlers, created, delayed, calls, fd, lost>>

\* DisConnect: refused unless the state is Invalid.
DisConnectTest(t) ==
    /\ style = "any"
    /\ pc[t] = "idle"
    /\ calls < MaxCalls
    /\ calls' = calls + 1
    /\ pc' = [pc EXCEPT ![t] =
                 IF connect_state_ = "Invalid" THEN "disconnect" ELSE "idle"]
    /\ UNCHANGED <<style, connect_state_, connector_, watcher_, io_handler_,
                   handlers, created, tasks, delayed, fd, lost>>

DisConnectPost(t) ==
    /\ pc[t] = "disconnect"
    /\ pc' = [pc EXCEPT ![t] = "idle"]
    /\ tasks' = Append(tasks, "DoClose")
    /\ UNCHANGED <<style, connect_state_, connector_, watcher_, io_handler_,
                   handlers, created, delayed, calls, fd, lost>>

-----------------------------------------------------------------------------
(* A new connection.                                                        *)

\* Mutant: OnNewConnection leaves the state at ConnectComplete.
AcceptedIncomplete(s) ==
    /\ created < MaxHandlers
    /\ created' = created + 1
    /\ handlers' = [handlers EXCEPT ![created'] = s]
    /\ io_handler_' = created'
    /\ connect_state_' = "ConnectComplete"
    /\ connector_' = s
    /\ UNCHANGED lost

\* OnNewConnection(s) for a socket in kernel state up: OnCreateConnection
\* makes a handler and creates it on the spot.  When the application accepts
\* it, TCPClient keeps it and the state becomes Connected.
Accepted(s) ==
    /\ created < MaxHandlers
    /\ created' = created + 1
    /\ handlers' = [handlers EXCEPT ![created'] = s]
    /\ io_handler_' = created'
    /\ connect_state_' = "Connected"
    /\ connector_' = s
    /\ UNCHANGED lost

\* When it refuses (non-zero OnNewConnection), IOHandler::Close runs inside
\* Create: OnConnectionClosed clears io_handler_ and calls DoClose(FALSE).
\* Only then does OnCreateConnection store the pointer, and OnNewConnection
\* set the state.
Refused ==
    /\ style = "any"
    /\ created < MaxHandlers
    /\ created' = created + 1
    /\ io_handler_' = created'
    /\ connect_state_' = "Connected"
    /\ connector_' = 0
    /\ lost' = TRUE
    /\ UNCHANGED handlers

\* The connection on s is handed on; fd becomes open when s is kept.
OnNewConnection(s, open) ==
    \/ Accepted(s) /\ fd' = open
    \/ Refused /\ fd' = [open EXCEPT ![s] = "free"]

-----------------------------------------------------------------------------
(* ReConnect.                                                               *)

NextTask(op) == tasks # <<>> /\ Head(tasks) = op /\ tasks' = Tail(tasks)

\* CreateTCPConnectedSocket returns -1: no address, no descriptor, a refused
\* connect (closed again), or a failing setsockopt, which leaves it open.
ReConnectFails ==
    /\ NextTask("ReConnect")
    /\ connector_' = 0
    /\ delayed' = delayed + 1
    /\ \/ UNCHANGED fd
       \/ \E s \in Fds : fd[s] = "free" /\ fd' = [fd EXCEPT ![s] = "down"]
    /\ UNCHANGED <<style, connect_state_, watcher_, io_handler_, handlers,
                   created, pc, calls, lost>>

\* It returns 1: connected at once.
ReConnectSucceeds ==
    /\ NextTask("ReConnect")
    /\ \E s \in Fds :
          /\ fd[s] = "free"
          /\ OnNewConnection(s, [fd EXCEPT ![s] = "up"])
    /\ UNCHANGED <<style, watcher_, delayed, pc, calls>>

\* Mutant: the connect in progress is not watched.
WatchNothing(s) == watcher_

\* WatchFileDescriptor: one controller watches one descriptor; asked for a
\* second it gives up the first, too, and returns false.
Watch(s) == IF watcher_ \in {0, s} THEN s ELSE 0

\* OnConnecting: watch the descriptor; a failure is only logged.
OnConnecting(s) == watcher_' = Watch(s)

\* It returns 0: in progress; watch for its completion.
ReConnectStarts ==
    /\ NextTask("ReConnect")
    /\ \E s \in Fds :
          /\ fd[s] = "free"
          /\ fd' = [fd EXCEPT ![s] = "connecting"]
          /\ connector_' = s
          /\ OnConnecting(s)
    /\ connect_state_' = "Connecting"
    /\ UNCHANGED <<style, io_handler_, handlers, created, delayed, pc, calls,
                   lost>>

\* The retry timer, 10 seconds after DoConnect(reconnect_time).
RetryTimer ==
    /\ delayed > 0
    /\ delayed' = delayed - 1
    /\ tasks' = Append(tasks, "ReConnect")
    /\ UNCHANGED <<style, connect_state_, connector_, watcher_, io_handler_,
                   handlers, created, pc, calls, fd, lost>>

-----------------------------------------------------------------------------
(* Completion and close.                                                    *)

\* TCPClient takes the socket for closed when it has no handler.
OnDestroyConnection == io_handler_ = 0

\* DoClose(TRUE) closes connector_ when OnDestroyConnection returns FALSE.
CloseByConnector ==
    IF ~OnDestroyConnection /\ connector_ # 0
    THEN fd' = [fd EXCEPT ![connector_] = "free"]
    ELSE UNCHANGED fd

DoCloseFromMe ==
    /\ CloseByConnector
    /\ connector_' = 0
    /\ connect_state_' = "Invalid"

\* The posted DoClose(TRUE) of DisConnect.
RunDoClose ==
    /\ NextTask("DoClose")
    /\ DoCloseFromMe
    /\ UNCHANGED <<style, watcher_, io_handler_, handlers, created, delayed, pc,
                   calls, lost>>

\* The write event of the watched descriptor while Connecting (in any other
\* state the event is ignored).
Completed ==
    /\ watcher_ # 0 /\ fd[watcher_] \in {"up", "down"}
    /\ connect_state_ = "Connecting"

\* Mutant: SO_ERROR is not looked at.
ConnectedUnchecked ==
    /\ Completed
    /\ connector_ # 0 /\ fd[connector_] # "free"
    /\ watcher_' = 0
    /\ OnNewConnection(connector_, fd)
    /\ UNCHANGED <<style, tasks, delayed, pc, calls>>

\* OnConnected, SO_ERROR of connector_ is 0 (it is for an unfinished connect).
ConnectedOK ==
    /\ Completed
    /\ connector_ # 0 /\ fd[connector_] \in {"up", "connecting"}
    /\ watcher_' = 0
    /\ OnNewConnection(connector_, fd)
    /\ UNCHANGED <<style, tasks, delayed, pc, calls>>

\* Mutant: no retry is scheduled.
ConnectedErrorGivesUp ==
    /\ Completed
    /\ connector_ = 0 \/ (connector_ # 0 /\ fd[connector_] \in {"down", "free"})
    /\ watcher_' = 0
    /\ DoCloseFromMe
    /\ UNCHANGED <<style, io_handler_, handlers, created, tasks, delayed, pc,
                   calls, lost>>

\* OnConnected with an error: schedule the retry, then DoClose(TRUE).
ConnectedError ==
    /\ Completed
    /\ connector_ = 0 \/ (connector_ # 0 /\ fd[connector_] \in {"down", "free"})
    /\ watcher_' = 0
    /\ delayed' = delayed + 1
    /\ DoCloseFromMe
    /\ UNCHANGED <<style, io_handler_, handlers, created, tasks, pc, calls, lost>>

\* Mutant: OnConnectionClosed forgets to tell the connector.
ConnectionClosesQuietly(h) ==
    /\ handlers[h] # 0
    /\ io_handler_' = 0
    /\ fd' = [fd EXCEPT ![handlers[h]] = "free"]
    /\ handlers' = [handlers EXCEPT ![h] = 0]
    /\ lost' = TRUE
    /\ UNCHANGED <<style, connect_state_, connector_, watcher_, created, tasks,
                   delayed, pc, calls>>

\* IOHandler::Close of an established connection: OnConnectionClosed forgets
\* the handler and calls DoClose(FALSE), then the handler closes its socket.
ConnectionCloses(h) ==
    /\ handlers[h] # 0
    /\ io_handler_' = 0
    /\ connector_' = 0
    /\ connect_state_' = "Invalid"
    /\ fd' = [fd EXCEPT ![handlers[h]] = "free"]
    /\ handlers' = [handlers EXCEPT ![h] = 0]
    /\ lost' = TRUE
    /\ UNCHANGED <<style, watcher_, created, tasks, delayed, pc, calls>>

\* The kernel finishes a connect, external.
Finish(s) ==
    /\ fd[s] = "connecting"
    /\ \E r \in {"up", "down"} : fd' = [fd EXCEPT ![s] = r]
    /\ UNCHANGED <<style, connect_state_, connector_, watcher_, io_handler_,
                   handlers, created, tasks, delayed, pc, calls, lost>>

-----------------------------------------------------------------------------

Next ==
    \/ \E t \in Callers : ConnectTest(t) \/ ConnectPost(t)
    \/ \E t \in Callers : DisConnectTest(t) \/ DisConnectPost(t)
    \/ ReConnectFails \/ ReConnectSucceeds \/ ReConnectStarts
    \/ RetryTimer
    \/ RunDoClose
    \/ ConnectedOK \/ ConnectedError
    \/ \E h \in Handlers : ConnectionCloses(h)
    \/ \E s \in Fds : Finish(s)

\* The loop runs its tasks, timers and events, callers finish their calls,
\* and the kernel decides every connect.
Fairness ==
    /\ WF_vars(ReConnectFails \/ ReConnectSucceeds \/ ReConnectStarts \/ RunDoClose)
    /\ WF_vars(RetryTimer)
    /\ WF_vars(ConnectedOK \/ ConnectedError)
    /\ \A t \in Callers : WF_vars(ConnectPost(t) \/ DisConnectPost(t))
    /\ \A s \in Fds : WF_vars(Finish(s))

Spec == Init /\ [][Next]_vars
FairSpec == Spec /\ Fairness

-----------------------------------------------------------------------------

\* Types of the connector and the client; connect_state_ is never left at the
\* enum's ConnectComplete, which is none of IsConnected, IsConnecting and Invalid.
TypeOK ==
    /\ style \in {"zengine", "any"}
    /\ connect_state_ \in ConnectStates
    /\ connector_ \in Fds \cup {0}
    /\ watcher_ \in Fds \cup {0}
    /\ io_handler_ \in Handlers \cup {0}
    /\ handlers \in [Handlers -> Fds \cup {0}]
    /\ created \in 0 .. MaxHandlers
    /\ tasks \in Seq({"ReConnect", "DoClose"})
    /\ delayed \in Nat
    /\ pc \in [Callers -> {"idle", "connect", "disconnect"}]
    /\ calls \in 0 .. MaxCalls
    /\ fd \in [Fds -> FdStates]
    /\ lost \in BOOLEAN

\* The attempts to connect that are under way.
Posted == Cardinality({i \in DOMAIN tasks : tasks[i] = "ReConnect"})
Attempts ==
    Posted + delayed + Cardinality({t \in Callers : pc[t] = "connect"})
    + (IF connect_state_ = "Connecting" THEN 1 ELSE 0)

\* Used as ZNetTCPClient does, the client tries until it is connected: one
\* attempt is under way, never none and never two chains of retries, until
\* the first connection; afterwards there is none.
OneAttempt ==
    style = "zengine" =>
        Attempts = IF calls = 1 /\ created = 0 THEN 1 ELSE 0

\* Used so, the pieces agree: Connected exactly while io_handler_ serves the
\* connector's socket, Connecting exactly while that socket is watched, and
\* no established connection is ever left without an owner.
StateMatchesSocket ==
    style = "zengine" =>
        /\ connect_state_ = "Connected" <=> io_handler_ # 0
        /\ io_handler_ # 0 => /\ handlers[io_handler_] = connector_
                              /\ connector_ # 0
                              /\ fd[connector_] = "up"
        /\ connect_state_ = "Connecting" <=> watcher_ # 0
        /\ watcher_ # 0 => /\ watcher_ = connector_
                           /\ fd[connector_] # "free"
        /\ \A s \in Fds : fd[s] = "up" => s = connector_

\* However it is used, with any number of overlapping retries and stale
\* watches: a handler is only ever created on a connection that is up.
HandlersStartUp ==
    [][\A h \in Handlers :
          handlers[h] = 0 /\ handlers'[h] # 0 => fd'[handlers'[h]] = "up"]_vars

\* Used as ZNetTCPClient does, a connect in progress ends, one way or the other.
ZEngineConnectingEnds ==
    (style = "zengine" /\ connect_state_ = "Connecting")
        ~> connect_state_ # "Connecting"

\* tcp_connector.h:56 (Connect is thread safe): a connect in progress ends,
\* however many threads call Connect.
ConnectingEnds ==
    connect_state_ = "Connecting" ~> connect_state_ # "Connecting"

\* tcp_connector.cc:131 (the address is kept for reconnecting after a
\* disconnection): a lost connection is tried again.
LostIsRetried == lost ~> Attempts > 0
=============================================================================
