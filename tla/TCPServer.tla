----------------------------- MODULE TCPServer -------------------------------
(***************************************************************************)
(* net::TCPServer (net/engine/tcp_server.cc) with its TCPAcceptor, its      *)
(* ReactorThreadPool and the ReactorThreads (base::Thread) of the pool:     *)
(* creation, which may fail at every step, accepting, handing a connection  *)
(* to the next reactor, and destruction while the reactors still run.       *)
(*                                                                          *)
(* The main thread creates and destroys the server and accepts on its loop; *)
(* each reactor runs its queue, of OnCreated tasks and ThreadQuitHelper,    *)
(* and the connections it was given.  Loop 0 is the main loop, r in         *)
(* 1 .. PoolSize the loop of a reactor.  What a loop does inside is the     *)
(* subject of MessagePumpNet, what a connection does of IOHandler.          *)
(*                                                                          *)
(* The owner destroys the server after the main loop has ended, or, as      *)
(* ModuleNetPlugin does, at once when Create has failed.  Create may also   *)
(* fail for an owner that keeps the server: its acceptor goes on.           *)
(***************************************************************************)
EXTENDS Integers, Sequences

CONSTANTS
    PoolSize,     \* the largest reactor_pool_size
    MaxConns,     \* bound: connections made by peers
    MaxFailures   \* bound: accepts that fail

ASSUME TCPServerConstants ==
    /\ PoolSize \in Nat
    /\ MaxConns \in Nat
    /\ MaxFailures \in Nat

VARIABLES
    server,         \* where the main thread is in Create and the destructor
    reactor_pool_,  \* the vector, as reactor numbers
    next_reactor_,  \* as in the code, from 0
    i,              \* the index of the loops in Start and Shutdown, from 1
    thread,         \* state of each reactor's thread
    quit,           \* ThreadQuitHelper ran in it: quit when idle
    tasks,          \* its incoming queue: connections, or 0 for the quit task
    did_work,       \* it has run a task or an event in this pass of Run
    wait_state_, acceptor_,    \* the acceptor: watching, and listening
    backlog,        \* kernel: connections not accepted yet
    conn,           \* state and loop of each accepted connection
    main_runs,      \* the main loop has not ended
    made, failures  \* uses of the bounds

pool == <<reactor_pool_, next_reactor_>>
threads == <<thread, quit, tasks, did_work>>
listener == <<wait_state_, acceptor_>>
bounds == <<made, failures>>
vars == <<server, pool, i, threads, listener, backlog, conn, main_runs, bounds>>

Reactors == 1 .. PoolSize
Conns == 1 .. MaxConns
QuitTask == 0
MainLoop == 0
ThreadStates == {"unstarted", "running", "ended"}
ConnStates == {"none", "posted", "open", "talked", "closed"}
Elements(s) == {s[k] : k \in DOMAIN s}

\* ReactorThreadPool's constructor makes the reactors, Start starts them.
Init ==
    /\ server = "new"
    /\ \E n \in 0 .. PoolSize : reactor_pool_ = [k \in 1 .. n |-> k]
    /\ next_reactor_ = 0
    /\ i = 1
    /\ thread = [r \in Reactors |-> "unstarted"]
    /\ quit = [r \in Reactors |-> FALSE]
    /\ tasks = [r \in Reactors |-> <<>>]
    /\ did_work = [r \in Reactors |-> FALSE]
    /\ wait_state_ = "NOT_WAITING"
    /\ acceptor_ = FALSE
    /\ backlog = 0
    /\ conn = [c \in Conns |-> [state |-> "none", loop |-> MainLoop]]
    /\ main_runs = TRUE
    /\ made = 0
    /\ failures = 0

-----------------------------------------------------------------------------
(* TCPServer::Create.                                                       *)

\* The acceptor first: CreateTCPListeningSocket, and the watch.  A failure
\* (address, socket, bind, listen) leaves nothing behind.
Create ==
    /\ server = "new"
    /\ \/ /\ server' = "failed"
          /\ UNCHANGED listener
       \/ /\ acceptor_' = TRUE
          /\ wait_state_' = "WAITING_ACCEPT"
          /\ server' = IF reactor_pool_ = <<>> THEN "up" ELSE "starting"
    /\ UNCHANGED <<pool, i, threads, backlog, conn, main_runs, bounds>>

\* Mutant: the pool is left as it is when one thread does not start.
StartFailedKeepsPool == "failed"

\* What a failed Start goes on to.
StartFailed == "shutting_failed"

\* ReactorThreadPool::Start, one ReactorThread::Start per step.  The loop
\* takes tasks from here on; when the thread cannot be created the pool is
\* shut down again, with the acceptor still watching.
Start ==
    /\ server = "starting"
    /\ i <= Len(reactor_pool_)
    /\ \/ /\ thread' = [thread EXCEPT ![reactor_pool_[i]] = "running"]
          /\ i' = i + 1
          /\ UNCHANGED server
       \/ /\ server' = StartFailed
          /\ i' = 1
          /\ UNCHANGED thread
    /\ UNCHANGED <<pool, quit, tasks, did_work, listener, backlog, conn, main_runs,
                   bounds>>

StartReturns ==
    /\ server = "starting"
    /\ i > Len(reactor_pool_)
    /\ server' = "up"
    /\ i' = 1
    /\ UNCHANGED <<pool, threads, listener, backlog, conn, main_runs, bounds>>

-----------------------------------------------------------------------------
(* ReactorThreadPool::Shutdown, from Start and from the destructor.         *)

ShuttingDown == server \in {"shutting_failed", "destroying"}

\* Thread::Stop posts ThreadQuitHelper to a thread that was started.
Stop ==
    /\ ShuttingDown
    /\ i <= Len(reactor_pool_)
    /\ LET r == reactor_pool_[i] IN
         /\ thread[r] = "running"
         /\ ~quit[r]
         /\ QuitTask \notin Elements(tasks[r])
         /\ tasks' = [tasks EXCEPT ![r] = Append(@, QuitTask)]
    /\ UNCHANGED <<server, pool, i, thread, quit, did_work, listener, backlog,
                   conn, main_runs, bounds>>

\* Mutant: StopSoon in place of Stop, nothing is joined.
NotWaited(r) == TRUE

\* Mutant: a thread that was never started is waited for, too.
ExitedOnly(r) == thread[r] = "ended"

\* PlatformThread::Join returns, at once for a thread never started.
Exited(r) == thread[r] \in {"unstarted", "ended"}

\* It returns once the thread is joined, at once for one never started; then
\* the reactor is deleted.
Join ==
    /\ ShuttingDown
    /\ i <= Len(reactor_pool_)
    /\ Exited(reactor_pool_[i])
    /\ i' = i + 1
    /\ UNCHANGED <<server, pool, threads, listener, backlog, conn, main_runs, bounds>>

\* Create returns false; or the destructor goes on to the members, acc_
\* first: its socket is closed and its watch stopped.
ShutdownReturns ==
    /\ ShuttingDown
    /\ i > Len(reactor_pool_)
    /\ reactor_pool_' = <<>>
    /\ i' = 1
    /\ IF server = "destroying"
         THEN /\ server' = "gone"
              /\ acceptor_' = FALSE
              /\ wait_state_' = "NOT_WAITING"
         ELSE server' = "failed" /\ UNCHANGED listener
    /\ UNCHANGED <<next_reactor_, threads, backlog, conn, main_runs, bounds>>

\* The owner destroys the server.
Destroy ==
    /\ \/ server \in {"up", "failed"} /\ ~main_runs
       \/ server = "failed" /\ \A c \in Conns : conn[c].state = "none"
    /\ server' = "destroying"
    /\ UNCHANGED <<pool, i, threads, listener, backlog, conn, main_runs, bounds>>

-----------------------------------------------------------------------------
(* Accepting, on the main loop.                                             *)

\* The main loop dispatches: it runs and the main thread is not in Create or
\* in the destructor.
MainDispatches == main_runs /\ server \in {"up", "failed"}

\* GetNextMessageLoop: round robin over the reactors, wrapping before use.
NextReactor ==
    IF next_reactor_ = Len(reactor_pool_) THEN 0 ELSE next_reactor_

\* Mutant: the pool is asked although it is empty, and returns NULL.
ConnectionLoopUnchecked ==
    IF reactor_pool_ = <<>> THEN -1 ELSE reactor_pool_[NextReactor + 1]

\* The loop of a new connection: a reactor's, or the server's own.
ConnectionLoop ==
    IF reactor_pool_ = <<>> THEN MainLoop ELSE reactor_pool_[NextReactor + 1]

\* Accept, OnCreateConnection and IOHandler::Create: OnCreated runs at once on
\* the main loop and is posted to a reactor's.  answer is what
\* OnNewConnection makes of the connection.
OnCreateConnection(c, answer) ==
    /\ MainDispatches
    /\ wait_state_ = "WAITING_ACCEPT"
    /\ backlog > 0
    /\ conn[c].state = "none"
    /\ backlog' = backlog - 1
    /\ IF reactor_pool_ = <<>>
         THEN /\ conn' = [conn EXCEPT ![c] = [state |-> answer,
                                              loop |-> ConnectionLoop]]
              /\ UNCHANGED <<tasks, next_reactor_>>
         ELSE /\ conn' = [conn EXCEPT ![c] = [state |-> "posted",
                                              loop |-> ConnectionLoop]]
              /\ tasks' = [tasks EXCEPT ![ConnectionLoop] = Append(@, c)]
              /\ next_reactor_' = NextReactor + 1
    /\ UNCHANGED <<server, reactor_pool_, i, thread, quit, did_work, listener,
                   main_runs, bounds>>

\* accept fails, with no descriptor left or the connection aborted; the first
\* leaves the connection in the backlog, to be tried again at once.
AcceptFails ==
    /\ MainDispatches
    /\ wait_state_ = "WAITING_ACCEPT"
    /\ backlog > 0
    /\ failures < MaxFailures
    /\ failures' = failures + 1
    /\ backlog' \in {backlog, backlog - 1}
    /\ UNCHANGED <<server, pool, i, threads, listener, conn, main_runs, made>>

-----------------------------------------------------------------------------
(* The reactors and the connections.                                        *)

\* A reactor's loop runs the task at the head of its queue.
RunTask(r, answer) ==
    /\ thread[r] = "running"
    /\ tasks[r] # <<>>
    /\ LET t == Head(tasks[r]) IN
         IF t = QuitTask
           THEN quit' = [quit EXCEPT ![r] = TRUE] /\ UNCHANGED conn
           ELSE conn' = [conn EXCEPT ![t].state = answer] /\ UNCHANGED quit
    /\ tasks' = [tasks EXCEPT ![r] = Tail(@)]
    /\ did_work' = [did_work EXCEPT ![r] = TRUE]
    /\ UNCHANGED <<server, pool, i, thread, listener, backlog, main_runs, bounds>>

\* A pass of Run that did something ends: Run goes round again.
GoRound(r) ==
    /\ thread[r] = "running"
    /\ did_work[r]
    /\ tasks[r] = <<>>
    /\ did_work' = [did_work EXCEPT ![r] = FALSE]
    /\ UNCHANGED <<server, pool, i, thread, quit, tasks, listener, backlog, conn,
                   main_runs, bounds>>

\* DoIdleWork after QuitWhenIdle, reached only by a pass that did nothing: the
\* thread ends, its connections stay as they are.
EndThread(r) ==
    /\ thread[r] = "running"
    /\ quit[r]
    /\ ~did_work[r]
    /\ tasks[r] = <<>>
    /\ thread' = [thread EXCEPT ![r] = "ended"]
    /\ UNCHANGED <<server, pool, i, quit, tasks, did_work, listener, backlog,
                   conn, main_runs, bounds>>

\* The loop of a connection dispatches its events.
LoopDispatches(c) ==
    IF conn[c].loop = MainLoop THEN main_runs /\ server \notin
                                      {"starting", "shutting_failed", "destroying"}
                               ELSE thread[conn[c].loop] = "running"

\* OnDataReceived, any number of times, and OnConnectionClosed, on the
\* connection's loop.
HandleEvent(c) ==
    /\ LoopDispatches(c)
    /\ conn[c].state \in {"open", "talked"}
    /\ \E next \in {"talked", "closed"} : conn' = [conn EXCEPT ![c].state = next]
    /\ did_work' = [r \in Reactors |-> did_work[r] \/ r = conn[c].loop]
    /\ UNCHANGED <<server, pool, i, thread, quit, tasks, listener, backlog,
                   main_runs, bounds>>

\* A peer connects to a listening socket.
PeerConnects ==
    /\ acceptor_
    /\ made < MaxConns
    /\ made' = made + 1
    /\ backlog' = backlog + 1
    /\ UNCHANGED <<server, pool, i, threads, listener, conn, main_runs, failures>>

\* The main loop quits.
EndMainLoop ==
    /\ MainDispatches
    /\ main_runs' = FALSE
    /\ UNCHANGED <<server, pool, i, threads, listener, backlog, conn, bounds>>

-----------------------------------------------------------------------------
(* The specification.                                                       *)

MainStep == Create \/ Start \/ StartReturns \/ Stop \/ Join \/ ShutdownReturns

\* A connection is accepted into the next unused number.
Accept ==
    \E c \in Conns, answer \in {"open", "closed"} :
        /\ \A d \in 1 .. c - 1 : conn[d].state # "none"
        /\ OnCreateConnection(c, answer)

ReactorStep(r) ==
    \/ \E answer \in {"open", "closed"} : RunTask(r, answer)
    \/ GoRound(r)
    \/ EndThread(r)

Next ==
    \/ MainStep
    \/ Destroy
    \/ Accept \/ AcceptFails
    \/ \E r \in Reactors : ReactorStep(r)
    \/ \E c \in Conns : HandleEvent(c)
    \/ PeerConnects
    \/ EndMainLoop

Spec == Init /\ [][Next]_vars

\* The main thread and the reactors are scheduled.
Fairness == WF_vars(MainStep) /\ \A r \in Reactors : WF_vars(ReactorStep(r))

FairSpec == Spec /\ Fairness

-----------------------------------------------------------------------------
(* Properties.                                                              *)

\* Types of the server, its pool, its threads and its connections.
TypeOK ==
    /\ server \in {"new", "starting", "shutting_failed", "up", "failed",
                   "destroying", "gone"}
    /\ reactor_pool_ \in Seq(Reactors)
    /\ next_reactor_ \in 0 .. PoolSize
    /\ i \in 1 .. PoolSize + 1
    /\ thread \in [Reactors -> ThreadStates]
    /\ quit \in [Reactors -> BOOLEAN]
    /\ tasks \in [Reactors -> Seq(Conns \cup {QuitTask})]
    /\ did_work \in [Reactors -> BOOLEAN]
    /\ wait_state_ \in {"NOT_WAITING", "WAITING_ACCEPT"}
    /\ acceptor_ \in BOOLEAN
    /\ backlog \in 0 .. MaxConns
    /\ conn \in [Conns -> [state : ConnStates, loop : Reactors \cup {MainLoop}]]
    /\ main_runs \in BOOLEAN
    /\ made \in 0 .. MaxConns
    /\ failures \in 0 .. MaxFailures

\* A connection is only ever handed to a loop that will run its OnCreated:
\* while it waits, the task is in the queue of a reactor that runs, whatever
\* part of the pool failed to start (ReactorThreadPool::Start,
\* GetNextMessageLoop).
HandedToRunningLoop ==
    \A c \in Conns : conn[c].state = "posted" =>
        /\ thread[conn[c].loop] = "running"
        /\ c \in Elements(tasks[conn[c].loop])

\* No connection calls back into a destroyed TCPServer: the destructor joins
\* every reactor before the server, their delegate, goes.
CallbacksReachServer ==
    [][(\E c \in Conns : /\ conn'[c].state # conn[c].state
                         /\ conn'[c].state # "posted")
         => server # "gone"]_vars

\* No connection has an event.
Quiet == \A c \in Conns : ~HandleEvent(c)

\* Shutting the pool down ends, from the destructor and from a Start that
\* failed half-way, with some reactors running and others never started:
\* Thread::Stop returns for both.  It needs connections that fall silent:
\* QuitWhenIdle never quits a loop that remains busy (message_loop.h).
PoolShutdownEnds == <>[][Quiet]_vars => (ShuttingDown ~> ~ShuttingDown)

=============================================================================
