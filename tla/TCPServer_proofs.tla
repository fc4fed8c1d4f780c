--------------------------- MODULE TCPServer_proofs ---------------------------
(***************************************************************************)
(* For any size of the pool, any number of connections and any failures: an *)
(* accepted connection is only handed to a reactor that runs and will run   *)
(* its OnCreated, and no connection calls back into a destroyed TCPServer.  *)
(***************************************************************************)
EXTENDS TCPServer, SequenceTheorems, TLAPS

-----------------------------------------------------------------------------
(* The inductive invariant.                                                 *)

\* The cursor and the loop index stay within the vector, which never grows.
PoolIndexed ==
    /\ Len(reactor_pool_) <= PoolSize
    /\ reactor_pool_ # <<>> => next_reactor_ <= Len(reactor_pool_)
    /\ i <= Len(reactor_pool_) + 1
    /\ server \in {"new", "up", "failed", "gone"} => i = 1

\* Only a peer's connect fills the backlog.
BacklogCounted == backlog <= made

\* Every thread that runs is still in the vector, where Shutdown finds it;
\* those it has passed have ended.
RunningInPool ==
    /\ \A r \in Reactors :
          thread[r] = "running" => r \in Elements(reactor_pool_)
    /\ ShuttingDown => \A k \in 1 .. i - 1 : thread[reactor_pool_[k]] # "running"
    /\ server = "gone" => reactor_pool_ = <<>>

\* No thread is told to quit before Shutdown.
NotYetStopped ==
    server \in {"new", "starting", "up"} =>
        \A r \in Reactors : ~quit[r] /\ QuitTask \notin Elements(tasks[r])

\* Where connections can be accepted, the vector holds running reactors only:
\* all of them when Create succeeded, none when Start failed.
AcceptsOntoRunning ==
    /\ server = "starting" =>
          \A k \in 1 .. i - 1 : thread[reactor_pool_[k]] = "running"
    /\ server = "up" =>
          \A k \in 1 .. Len(reactor_pool_) : thread[reactor_pool_[k]] = "running"
    /\ server = "failed" /\ wait_state_ = "WAITING_ACCEPT" => reactor_pool_ = <<>>
    /\ server = "new" => wait_state_ = "NOT_WAITING"

\* A posted connection belongs to a reactor.
PostedToReactor ==
    \A c \in Conns : conn[c].state = "posted" => conn[c].loop \in Reactors

\* Only accepted connections are queued.
QueuedIsAccepted ==
    \A r \in Reactors : \A c \in Elements(tasks[r]) :
        c \in Conns => conn[c].state # "none"

\* While the server is destroyed the main loop has nothing to dispatch.
DestroyedAlone ==
    server \in {"destroying", "gone"} =>
        ~main_runs \/ \A c \in Conns : conn[c].state = "none"

IInv ==
    /\ TypeOK
    /\ PoolIndexed
    /\ BacklogCounted
    /\ RunningInPool
    /\ NotYetStopped
    /\ AcceptsOntoRunning
    /\ PostedToReactor
    /\ HandedToRunningLoop
    /\ QueuedIsAccepted
    /\ DestroyedAlone
-----------------------------------------------------------------------------
(* Queues as sets.                                                          *)

\* What a queue holds after an Append.
LEMMA ElementsAppend ==
    ASSUME NEW S, NEW s \in Seq(S), NEW x \in S
    PROVE  /\ Append(s, x) \in Seq(S)
           /\ Elements(Append(s, x)) = Elements(s) \cup {x}
<1>1. /\ Append(s, x) \in Seq(S)
      /\ Len(Append(s, x)) = Len(s) + 1 /\ Len(s) \in Nat
      /\ \A k \in 1 .. Len(s) : Append(s, x)[k] = s[k]
      /\ Append(s, x)[Len(s) + 1] = x
      /\ DOMAIN Append(s, x) = 1 .. Len(s) + 1 /\ DOMAIN s = 1 .. Len(s)
  OBVIOUS
<1>2. 1 .. Len(s) + 1 = (1 .. Len(s)) \cup {Len(s) + 1}
  BY <1>1
<1> QED  BY <1>1, <1>2 DEF Elements

\* What a queue holds before its head is taken.
LEMMA ElementsTail ==
    ASSUME NEW S, NEW s \in Seq(S), s # <<>>
    PROVE  /\ Head(s) \in S
           /\ Tail(s) \in Seq(S)
           /\ Elements(s) = {Head(s)} \cup Elements(Tail(s))
<1>1. /\ Head(s) = s[1] /\ Tail(s) \in Seq(S) /\ Len(s) \in Nat /\ Len(s) > 0
      /\ Len(Tail(s)) = Len(s) - 1
      /\ \A k \in 1 .. Len(s) - 1 : Tail(s)[k] = s[k + 1]
      /\ DOMAIN s = 1 .. Len(s) /\ DOMAIN Tail(s) = 1 .. Len(s) - 1
  BY HeadTailProperties
<1>2. s[1] \in S  BY <1>1, ElementOfSeq
<1>3. \A k \in 1 .. Len(s) :
         k = 1 \/ (k - 1 \in 1 .. Len(s) - 1 /\ Tail(s)[k - 1] = s[k])
  BY <1>1
<1>4. ASSUME NEW x \in Elements(s) PROVE x \in {Head(s)} \cup Elements(Tail(s))
  <2>1. PICK k \in 1 .. Len(s) : x = s[k]  BY <1>1 DEF Elements
  <2>2. k = 1 \/ (k - 1 \in DOMAIN Tail(s) /\ Tail(s)[k - 1] = x)
    BY <1>1, <1>3, <2>1
  <2> QED  BY <1>1, <2>1, <2>2 DEF Elements
<1>5. {Head(s)} \cup Elements(Tail(s)) \subseteq Elements(s)
  <2>1. \A k \in DOMAIN Tail(s) : k + 1 \in DOMAIN s /\ s[k + 1] = Tail(s)[k]
    BY <1>1
  <2>2. 1 \in DOMAIN s  BY <1>1
  <2> QED  BY <1>1, <2>1, <2>2 DEF Elements
<1> QED  BY <1>1, <1>2, <1>4, <1>5

\* The empty queue holds nothing.
LEMMA ElementsEmpty == Elements(<<>>) = {}
  BY DEF Elements

-----------------------------------------------------------------------------
(* Each action keeps the invariant.                                         *)

\* The invariant holds initially.
LEMMA InitIInv == Init => IInv
<1> SUFFICES ASSUME Init PROVE IInv
  OBVIOUS
<1> USE TCPServerConstants
<1>1. PICK n \in 0 .. PoolSize : reactor_pool_ = [k \in 1 .. n |-> k]
  BY DEF Init
<1>2. /\ reactor_pool_ \in Seq(Reactors) /\ Len(reactor_pool_) = n
      /\ n \in Nat /\ n <= PoolSize
  BY <1>1 DEF Reactors
<1>3. TypeOK
  <2>1. tasks \in [Reactors -> Seq(Conns \cup {QuitTask})]
    BY DEF Init
  <2>2. conn \in [Conns -> [state : ConnStates, loop : Reactors \cup {MainLoop}]]
    BY DEF Init, ConnStates
  <2>3. i \in 1 .. PoolSize + 1 /\ next_reactor_ \in 0 .. PoolSize
    BY DEF Init
  <2>4. /\ thread \in [Reactors -> ThreadStates] /\ quit \in [Reactors -> BOOLEAN]
        /\ backlog \in 0 .. MaxConns /\ made \in 0 .. MaxConns
        /\ failures \in 0 .. MaxFailures
    BY DEF Init, ThreadStates
  <2> QED  BY <1>2, <2>1, <2>2, <2>3, <2>4 DEF Init, TypeOK
<1>4. PoolIndexed  BY <1>2 DEF Init, PoolIndexed
<1>5. RunningInPool /\ BacklogCounted
  BY DEF Init, RunningInPool, BacklogCounted, ShuttingDown
<1>6. NotYetStopped
  BY ElementsEmpty DEF Init, NotYetStopped
<1> QED
  BY <1>3, <1>4, <1>5, <1>6, ElementsEmpty
     DEF IInv, Init, AcceptsOntoRunning, PostedToReactor, HandedToRunningLoop,
         QueuedIsAccepted, DestroyedAlone

\* Creating the acceptor keeps the invariant.
LEMMA CreateIInv == IInv /\ Create => IInv'
<1> SUFFICES ASSUME IInv, Create PROVE IInv'
  OBVIOUS
<1> USE TCPServerConstants DEF pool, threads, listener, bounds
<1>1. TypeOK'
  BY DEF IInv, TypeOK, PoolIndexed, Create
<1>2. PoolIndexed' /\ BacklogCounted'
  BY DEF IInv, TypeOK, PoolIndexed, BacklogCounted, Create
<1>3. RunningInPool'
  BY DEF IInv, TypeOK, PoolIndexed, RunningInPool, ShuttingDown, Create
<1>4. NotYetStopped'
  BY DEF IInv, TypeOK, NotYetStopped, Create
<1>5. AcceptsOntoRunning'
  BY DEF IInv, TypeOK, PoolIndexed, NotYetStopped, AcceptsOntoRunning, Create
<1>6. PostedToReactor' /\ HandedToRunningLoop'
  BY DEF IInv, TypeOK, PostedToReactor, HandedToRunningLoop, Create
<1>7. DestroyedAlone'
  BY DEF IInv, TypeOK, DestroyedAlone, Create
<1>8. QueuedIsAccepted'
  BY DEF IInv, QueuedIsAccepted, Create
<1> QED  BY <1>1, <1>2, <1>3, <1>4, <1>5, <1>6, <1>7, <1>8 DEF IInv

\* Starting a reactor, or failing to, keeps it.
LEMMA StartIInv == IInv /\ Start => IInv'
<1> SUFFICES ASSUME IInv, Start PROVE IInv'
  OBVIOUS
<1> USE TCPServerConstants DEF pool, threads, listener, bounds
<1>1. TypeOK'
  <2>1. i' \in 1 .. PoolSize + 1
    BY DEF IInv, TypeOK, PoolIndexed, Start
  <2>2. thread' \in [Reactors -> ThreadStates]
    BY DEF IInv, TypeOK, Start, ThreadStates
  <2> QED  BY <2>1, <2>2 DEF IInv, TypeOK, Start, StartFailed
<1>2. PoolIndexed' /\ BacklogCounted'
  BY DEF IInv, TypeOK, PoolIndexed, BacklogCounted, Start, StartFailed,
     ThreadStates
<1>3. RunningInPool'
  <2>1. i \in DOMAIN reactor_pool_  BY DEF IInv, TypeOK, Start
  <2>2. reactor_pool_[i] \in Elements(reactor_pool_)  BY <2>1 DEF Elements
  <2>3. \A r \in Reactors : thread'[r] = "running" => r \in Elements(reactor_pool_)
    BY <2>2 DEF IInv, TypeOK, RunningInPool, Start
  <2> QED  BY <2>3 DEF RunningInPool, ShuttingDown, Start, StartFailed
<1>4. NotYetStopped'
  BY DEF IInv, TypeOK, NotYetStopped, Start, StartFailed, ThreadStates
<1>5. AcceptsOntoRunning'
  <2>1. /\ server' \in {"starting", StartFailed}
        /\ server' = "starting" => /\ i' = i + 1
                                   /\ thread' = [thread EXCEPT ![reactor_pool_[i]] = "running"]
        /\ reactor_pool_' = reactor_pool_
    BY DEF Start, StartFailed
  <2>2. server' = "starting" =>
            \A k \in 1 .. i' - 1 : thread'[reactor_pool_'[k]] = "running"
    <3> SUFFICES ASSUME server' = "starting", NEW k \in 1 .. i
                 PROVE  thread'[reactor_pool_[k]] = "running"
      BY <2>1 DEF IInv, TypeOK
    <3>1. /\ thread \in [Reactors -> ThreadStates]
          /\ k \in 1 .. Len(reactor_pool_) /\ reactor_pool_ \in Seq(Reactors)
      BY DEF IInv, TypeOK, Start
    <3>2. reactor_pool_[k] \in Reactors  BY <3>1
    <3>3. k # i => thread[reactor_pool_[k]] = "running"
      BY DEF IInv, TypeOK, AcceptsOntoRunning, Start
    <3> QED  BY <2>1, <3>1, <3>2, <3>3
  <2> QED  BY <2>1, <2>2 DEF AcceptsOntoRunning, StartFailed
<1>6. PostedToReactor' /\ HandedToRunningLoop'
  BY DEF IInv, TypeOK, PostedToReactor, HandedToRunningLoop, Start,
     StartFailed, ThreadStates
<1>7. DestroyedAlone'
  BY DEF IInv, TypeOK, DestroyedAlone, Start, StartFailed, ThreadStates
<1>8. QueuedIsAccepted'
  BY DEF IInv, QueuedIsAccepted, Start
<1> QED  BY <1>1, <1>2, <1>3, <1>4, <1>5, <1>6, <1>7, <1>8 DEF IInv

\* So does the end of Start, when all reactors run,
LEMMA StartReturnsIInv == IInv /\ StartReturns => IInv'
<1> SUFFICES ASSUME IInv, StartReturns PROVE IInv'
  OBVIOUS
<1> USE TCPServerConstants DEF pool, threads, listener, bounds
<1>1. TypeOK'
  BY DEF IInv, TypeOK, PoolIndexed, StartReturns
<1>2. PoolIndexed' /\ BacklogCounted'
  BY DEF IInv, TypeOK, PoolIndexed, BacklogCounted, StartReturns
<1>3. RunningInPool'
  BY DEF IInv, TypeOK, PoolIndexed, RunningInPool, ShuttingDown, StartReturns
<1>4. NotYetStopped'
  BY DEF IInv, TypeOK, NotYetStopped, StartReturns
<1>5. AcceptsOntoRunning'
  BY DEF IInv, TypeOK, PoolIndexed, NotYetStopped, AcceptsOntoRunning,
     StartReturns
<1>6. PostedToReactor' /\ HandedToRunningLoop'
  BY DEF IInv, TypeOK, PostedToReactor, HandedToRunningLoop, StartReturns
<1>7. DestroyedAlone'
  BY DEF IInv, TypeOK, DestroyedAlone, StartReturns
<1>8. QueuedIsAccepted'
  BY DEF IInv, QueuedIsAccepted, StartReturns
<1> QED  BY <1>1, <1>2, <1>3, <1>4, <1>5, <1>6, <1>7, <1>8 DEF IInv

\* posting the quit task to a reactor,
LEMMA StopIInv == IInv /\ Stop => IInv'
<1> SUFFICES ASSUME IInv, Stop PROVE IInv'
  OBVIOUS
<1> USE TCPServerConstants DEF pool, threads, listener, bounds
<1> DEFINE r == reactor_pool_[i]
<1>0. r \in Reactors /\ tasks[r] \in Seq(Conns \cup {QuitTask})
  <2>1. i \in 1 .. Len(reactor_pool_)  BY DEF IInv, TypeOK, Stop
  <2> QED  BY <2>1, ElementOfSeq DEF IInv, TypeOK
<1>a. /\ Append(tasks[r], QuitTask) \in Seq(Conns \cup {QuitTask})
      /\ Elements(Append(tasks[r], QuitTask)) = Elements(tasks[r]) \cup {QuitTask}
  BY <1>0, ElementsAppend
<1>b. /\ tasks' = [tasks EXCEPT ![r] = Append(tasks[r], QuitTask)]
      /\ UNCHANGED <<server, pool, i, thread, quit, did_work, listener, backlog,
                     conn, main_runs, bounds>>
      /\ ShuttingDown
  BY DEF Stop
<1> HIDE DEF r
<1>1. TypeOK'
  <2>1. tasks' \in [Reactors -> Seq(Conns \cup {QuitTask})]
    BY <1>0, <1>a, <1>b DEF IInv, TypeOK
  <2> QED  BY <1>b, <2>1 DEF IInv, TypeOK
<1>2. PoolIndexed' /\ BacklogCounted'
  BY DEF IInv, TypeOK, PoolIndexed, BacklogCounted, Stop, ShuttingDown
<1>3. RunningInPool'
  BY DEF IInv, TypeOK, PoolIndexed, RunningInPool, ShuttingDown, Stop
<1>4. NotYetStopped'
  BY DEF IInv, TypeOK, NotYetStopped, Stop, ShuttingDown
<1>5. AcceptsOntoRunning'
  BY DEF IInv, TypeOK, PoolIndexed, NotYetStopped, AcceptsOntoRunning, Stop,
     ShuttingDown
<1>6. PostedToReactor' /\ HandedToRunningLoop'
  <2>1. \A q \in Reactors : Elements(tasks[q]) \subseteq Elements(tasks'[q])
    BY <1>0, <1>a, <1>b DEF IInv, TypeOK
  <2> QED  BY <1>b, <2>1 DEF IInv, PostedToReactor, HandedToRunningLoop
<1>7. DestroyedAlone'
  BY DEF IInv, TypeOK, DestroyedAlone, Stop, ShuttingDown
<1>8. QueuedIsAccepted'
  BY <1>0, <1>a, <1>b DEF IInv, TypeOK, QueuedIsAccepted, Conns, QuitTask
<1> QED  BY <1>1, <1>2, <1>3, <1>4, <1>5, <1>6, <1>7, <1>8 DEF IInv

\* joining a reactor,
LEMMA JoinIInv == IInv /\ Join => IInv'
<1> SUFFICES ASSUME IInv, Join PROVE IInv'
  OBVIOUS
<1> USE TCPServerConstants DEF pool, threads, listener, bounds
<1>1. TypeOK'
  BY DEF IInv, TypeOK, PoolIndexed, Join, ShuttingDown, Exited
<1>2. PoolIndexed' /\ BacklogCounted'
  BY DEF IInv, TypeOK, PoolIndexed, BacklogCounted, Join, ShuttingDown, Exited
<1>3. RunningInPool'
  BY DEF IInv, TypeOK, PoolIndexed, RunningInPool, ShuttingDown, Join, Exited
<1>4. NotYetStopped'
  BY DEF IInv, TypeOK, NotYetStopped, Join, ShuttingDown, Exited
<1>5. AcceptsOntoRunning'
  BY DEF IInv, TypeOK, PoolIndexed, NotYetStopped, AcceptsOntoRunning, Join,
     ShuttingDown, Exited
<1>6. PostedToReactor' /\ HandedToRunningLoop'
  BY DEF IInv, TypeOK, PostedToReactor, HandedToRunningLoop, Join,
     ShuttingDown, Exited
<1>7. DestroyedAlone'
  BY DEF IInv, TypeOK, DestroyedAlone, Join, ShuttingDown, Exited
<1>8. QueuedIsAccepted'
  BY DEF IInv, QueuedIsAccepted, Join
<1> QED  BY <1>1, <1>2, <1>3, <1>4, <1>5, <1>6, <1>7, <1>8 DEF IInv

\* the end of Shutdown, when none runs,
LEMMA ShutdownReturnsIInv == IInv /\ ShutdownReturns => IInv'
<1> SUFFICES ASSUME IInv, ShutdownReturns PROVE IInv'
  OBVIOUS
<1> USE TCPServerConstants DEF pool, threads, listener, bounds
<1>1. TypeOK'
  <2>1. reactor_pool_' \in Seq(Reactors) /\ i' \in 1 .. PoolSize + 1
    BY DEF ShutdownReturns
  <2> QED  BY <2>1 DEF IInv, TypeOK, ShutdownReturns
<1>2. PoolIndexed' /\ BacklogCounted'
  BY DEF IInv, TypeOK, PoolIndexed, BacklogCounted, ShutdownReturns,
     ShuttingDown
<1>3. RunningInPool'
  <2>1. Len(reactor_pool_) \in Nat /\ DOMAIN reactor_pool_ = 1 .. Len(reactor_pool_)
    BY DEF IInv, TypeOK
  <2>2. \A r \in Elements(reactor_pool_) : thread[r] # "running"
    BY <2>1 DEF IInv, TypeOK, RunningInPool, ShutdownReturns, Elements
  <2>3. \A r \in Reactors : thread[r] # "running"
    BY <2>2 DEF IInv, RunningInPool
  <2> QED  BY <2>3 DEF RunningInPool, ShutdownReturns, ShuttingDown
<1>4. NotYetStopped'
  BY DEF IInv, TypeOK, NotYetStopped, ShutdownReturns, ShuttingDown
<1>5. AcceptsOntoRunning'
  BY DEF IInv, TypeOK, PoolIndexed, NotYetStopped, AcceptsOntoRunning,
     ShutdownReturns, ShuttingDown
<1>6. PostedToReactor' /\ HandedToRunningLoop'
  BY DEF IInv, TypeOK, PostedToReactor, HandedToRunningLoop, ShutdownReturns,
     ShuttingDown
<1>7. DestroyedAlone'
  BY DEF IInv, TypeOK, DestroyedAlone, ShutdownReturns, ShuttingDown
<1>8. QueuedIsAccepted'
  BY DEF IInv, QueuedIsAccepted, ShutdownReturns
<1> QED  BY <1>1, <1>2, <1>3, <1>4, <1>5, <1>6, <1>7, <1>8 DEF IInv

\* the beginning of the destructor,
LEMMA DestroyIInv == IInv /\ Destroy => IInv'
<1> SUFFICES ASSUME IInv, Destroy PROVE IInv'
  OBVIOUS
<1> USE TCPServerConstants DEF pool, threads, listener, bounds
<1>1. TypeOK'
  BY DEF IInv, TypeOK, PoolIndexed, Destroy
<1>2. PoolIndexed' /\ BacklogCounted'
  BY DEF IInv, TypeOK, PoolIndexed, BacklogCounted, Destroy
<1>3. RunningInPool'
  BY DEF IInv, TypeOK, PoolIndexed, RunningInPool, ShuttingDown, Destroy
<1>4. NotYetStopped'
  BY DEF IInv, TypeOK, NotYetStopped, Destroy
<1>5. AcceptsOntoRunning'
  BY DEF IInv, TypeOK, PoolIndexed, NotYetStopped, AcceptsOntoRunning, Destroy
<1>6. PostedToReactor' /\ HandedToRunningLoop'
  BY DEF IInv, TypeOK, PostedToReactor, HandedToRunningLoop, Destroy
<1>7. DestroyedAlone'
  BY DEF IInv, TypeOK, DestroyedAlone, Destroy
<1>8. QueuedIsAccepted'
  BY DEF IInv, QueuedIsAccepted, Destroy
<1> QED  BY <1>1, <1>2, <1>3, <1>4, <1>5, <1>6, <1>7, <1>8 DEF IInv

\* handing a connection to the next reactor,
LEMMA OnCreateConnectionIInv ==
    \A c \in Conns, answer \in {"open", "closed"} :
        IInv /\ OnCreateConnection(c, answer) => IInv'
<1> SUFFICES ASSUME NEW c \in Conns, NEW answer \in {"open", "closed"}, IInv,
                    OnCreateConnection(c, answer)
             PROVE  IInv'
  OBVIOUS
<1> USE TCPServerConstants DEF pool, threads, listener, bounds
<1> DEFINE l == ConnectionLoop
<1>0. /\ backlog - 1 \in 0 .. MaxConns
      /\ reactor_pool_ = <<>> => l = MainLoop
      /\ reactor_pool_ # <<>> =>
            /\ NextReactor + 1 \in 1 .. Len(reactor_pool_)
            /\ l = reactor_pool_[NextReactor + 1]
            /\ l \in Reactors
            /\ NextReactor + 1 \in 0 .. PoolSize
            /\ thread[l] = "running"
  <2>1. backlog - 1 \in 0 .. MaxConns
    BY DEF IInv, TypeOK, OnCreateConnection
  <2>2. Len(reactor_pool_) \in Nat /\ (reactor_pool_ # <<>> => Len(reactor_pool_) > 0)
    BY DEF IInv, TypeOK
  <2>3. reactor_pool_ # <<>> =>
            /\ NextReactor + 1 \in 1 .. Len(reactor_pool_)
            /\ NextReactor + 1 \in 0 .. PoolSize
    BY <2>2 DEF IInv, TypeOK, PoolIndexed, NextReactor
  <2>4. reactor_pool_ # <<>> => \A k \in 1 .. Len(reactor_pool_) :
            thread[reactor_pool_[k]] = "running" /\ reactor_pool_[k] \in Reactors
    BY ElementOfSeq DEF IInv, TypeOK, AcceptsOntoRunning, OnCreateConnection,
       MainDispatches
  <2> QED  BY <2>1, <2>3, <2>4 DEF ConnectionLoop
<1>a. /\ conn' = [conn EXCEPT ![c] =
                     [state |-> IF reactor_pool_ = <<>> THEN answer ELSE "posted",
                      loop |-> l]]
      /\ IF reactor_pool_ = <<>>
           THEN UNCHANGED <<tasks, next_reactor_>>
           ELSE /\ tasks' = [tasks EXCEPT ![l] = Append(tasks[l], c)]
                /\ next_reactor_' = NextReactor + 1
      /\ backlog' = backlog - 1
      /\ UNCHANGED <<server, reactor_pool_, i, thread, quit, did_work, listener,
                     main_runs, bounds>>
      /\ server \in {"up", "failed"}
  BY DEF OnCreateConnection, MainDispatches
<1> HIDE DEF l
<1>b. reactor_pool_ # <<>> =>
         /\ Append(tasks[l], c) \in Seq(Conns \cup {QuitTask})
         /\ Elements(Append(tasks[l], c)) = Elements(tasks[l]) \cup {c}
  <2>1. reactor_pool_ # <<>> => tasks[l] \in Seq(Conns \cup {QuitTask})
    BY <1>0 DEF IInv, TypeOK
  <2> QED  BY <2>1, ElementsAppend
<1>1. TypeOK'
  <2>1. tasks' \in [Reactors -> Seq(Conns \cup {QuitTask})]
    BY <1>0, <1>a, <1>b DEF IInv, TypeOK
  <2>2. conn' \in [Conns -> [state : ConnStates, loop : Reactors \cup {MainLoop}]]
    BY <1>0, <1>a DEF IInv, TypeOK, ConnStates
  <2> QED  BY <1>0, <1>a, <2>1, <2>2 DEF IInv, TypeOK
<1>2. PoolIndexed' /\ BacklogCounted'
  BY DEF IInv, TypeOK, PoolIndexed, BacklogCounted, OnCreateConnection,
     MainDispatches, ConnectionLoop, NextReactor, ConnStates
<1>3. RunningInPool'
  BY DEF IInv, TypeOK, PoolIndexed, RunningInPool, ShuttingDown,
     OnCreateConnection, MainDispatches, ConnectionLoop, NextReactor,
     ConnStates
<1>4. NotYetStopped'
  <2>1. c # QuitTask  BY DEF Conns, QuitTask
  <2>2. ASSUME NEW r \in Reactors, QuitTask \notin Elements(tasks[r])
        PROVE  QuitTask \notin Elements(tasks'[r])
    <3>1. CASE reactor_pool_ = <<>> \/ r # l
      BY <1>0, <1>a, <2>2, <3>1 DEF IInv, TypeOK
    <3>2. CASE reactor_pool_ # <<>> /\ r = l
      <4>1. tasks'[r] = Append(tasks[l], c)
        BY <1>0, <1>a, <3>2 DEF IInv, TypeOK
      <4> QED  BY <1>b, <2>1, <2>2, <3>2, <4>1
    <3> QED  BY <3>1, <3>2
  <2> QED  BY <1>a, <2>2 DEF IInv, NotYetStopped
<1>5. AcceptsOntoRunning'
  BY DEF IInv, TypeOK, PoolIndexed, NotYetStopped, AcceptsOntoRunning,
     OnCreateConnection, MainDispatches, ConnectionLoop, NextReactor,
     ConnStates
<1>6. PostedToReactor' /\ HandedToRunningLoop'
  <2> SUFFICES ASSUME NEW d \in Conns, conn'[d].state = "posted"
               PROVE  /\ conn'[d].loop \in Reactors
                      /\ thread'[conn'[d].loop] = "running"
                      /\ d \in Elements(tasks'[conn'[d].loop])
    BY DEF PostedToReactor, HandedToRunningLoop
  <2>1. CASE d = c
    <3>1. reactor_pool_ # <<>> /\ conn'[c].loop = l
      BY <1>a, <2>1 DEF IInv, TypeOK
    <3> QED  BY <1>0, <1>a, <1>b, <2>1, <3>1 DEF IInv, TypeOK
  <2>2. CASE d # c
    <3>1. conn'[d] = conn[d]  BY <1>a, <2>2 DEF IInv, TypeOK
    <3>2. /\ conn[d].loop \in Reactors /\ thread[conn[d].loop] = "running"
          /\ d \in Elements(tasks[conn[d].loop])
      BY <3>1 DEF IInv, PostedToReactor, HandedToRunningLoop
    <3>3. d \in Elements(tasks'[conn[d].loop])
      BY <1>0, <1>a, <1>b, <3>2 DEF IInv, TypeOK
    <3> QED  BY <1>a, <3>1, <3>2, <3>3
  <2> QED  BY <2>1, <2>2
<1>7. DestroyedAlone'
  BY DEF IInv, TypeOK, DestroyedAlone, OnCreateConnection, MainDispatches,
     ConnectionLoop, NextReactor, ConnStates
<1>8. QueuedIsAccepted'
  BY <1>0, <1>a, <1>b DEF IInv, TypeOK, QueuedIsAccepted
<1> QED  BY <1>1, <1>2, <1>3, <1>4, <1>5, <1>6, <1>7, <1>8 DEF IInv

\* a failing accept,
LEMMA AcceptFailsIInv == IInv /\ AcceptFails => IInv'
<1> SUFFICES ASSUME IInv, AcceptFails PROVE IInv'
  OBVIOUS
<1> USE TCPServerConstants DEF pool, threads, listener, bounds
<1>1. TypeOK'
  BY DEF IInv, TypeOK, PoolIndexed, AcceptFails, MainDispatches
<1>2. PoolIndexed' /\ BacklogCounted'
  BY DEF IInv, TypeOK, PoolIndexed, BacklogCounted, AcceptFails, MainDispatches
<1>3. RunningInPool'
  BY DEF IInv, TypeOK, PoolIndexed, RunningInPool, ShuttingDown, AcceptFails,
     MainDispatches
<1>4. NotYetStopped'
  BY DEF IInv, TypeOK, NotYetStopped, AcceptFails, MainDispatches
<1>5. AcceptsOntoRunning'
  BY DEF IInv, TypeOK, PoolIndexed, NotYetStopped, AcceptsOntoRunning,
     AcceptFails, MainDispatches
<1>6. PostedToReactor' /\ HandedToRunningLoop'
  BY DEF IInv, TypeOK, PostedToReactor, HandedToRunningLoop, AcceptFails,
     MainDispatches
<1>7. DestroyedAlone'
  BY DEF IInv, TypeOK, DestroyedAlone, AcceptFails, MainDispatches
<1>8. QueuedIsAccepted'
  BY DEF IInv, QueuedIsAccepted, AcceptFails
<1> QED  BY <1>1, <1>2, <1>3, <1>4, <1>5, <1>6, <1>7, <1>8 DEF IInv

\* a task on a reactor,
LEMMA RunTaskIInv ==
    \A r \in Reactors, answer \in {"open", "closed"} :
        IInv /\ RunTask(r, answer) => IInv'
<1> SUFFICES ASSUME NEW r \in Reactors, NEW answer \in {"open", "closed"},
                    IInv, RunTask(r, answer)
             PROVE  IInv'
  OBVIOUS
<1> USE TCPServerConstants DEF pool, threads, listener, bounds
<1> DEFINE t == Head(tasks[r])
<1>0. /\ t \in Conns \cup {QuitTask} /\ Tail(tasks[r]) \in Seq(Conns \cup {QuitTask})
      /\ Elements(tasks[r]) = {t} \cup Elements(Tail(tasks[r]))
  <2>1. tasks[r] \in Seq(Conns \cup {QuitTask}) /\ tasks[r] # <<>>
    BY DEF IInv, TypeOK, RunTask
  <2> QED  BY <2>1, ElementsTail
<1>a. /\ tasks' = [tasks EXCEPT ![r] = Tail(tasks[r])]
      /\ t = QuitTask => quit' = [quit EXCEPT ![r] = TRUE] /\ conn' = conn
      /\ t # QuitTask => conn' = [conn EXCEPT ![t].state = answer] /\ quit' = quit
      /\ did_work' = [did_work EXCEPT ![r] = TRUE]
      /\ UNCHANGED <<server, pool, i, thread, listener, backlog, main_runs, bounds>>
  BY DEF RunTask
<1>b. \A c \in Conns : /\ conn'[c].loop = conn[c].loop
                       /\ conn'[c].state \in {conn[c].state, answer}
  <2>1. conn \in [Conns -> [state : ConnStates, loop : Reactors \cup {MainLoop}]]
    BY DEF IInv, TypeOK
  <2> HIDE DEF t
  <2>2. CASE t = QuitTask
    BY <1>a, <2>2
  <2>3. CASE t # QuitTask
    BY <1>a, <2>1, <2>3
  <2> QED  BY <2>2, <2>3
<1>c. t # QuitTask => conn'[t].state = answer
  BY <1>0, <1>a DEF IInv, TypeOK
<1> HIDE DEF t
<1>1. TypeOK'
  <2>1. tasks' \in [Reactors -> Seq(Conns \cup {QuitTask})]
    BY <1>0, <1>a DEF IInv, TypeOK
  <2>2. quit' \in [Reactors -> BOOLEAN] /\ did_work' \in [Reactors -> BOOLEAN]
    BY <1>a DEF IInv, TypeOK
  <2>3. conn' \in [Conns -> [state : ConnStates, loop : Reactors \cup {MainLoop}]]
    <3>1. CASE t = QuitTask  BY <1>a, <3>1 DEF IInv, TypeOK
    <3>2. CASE t \in Conns /\ t # QuitTask
      <4>1. conn[t] \in [state : ConnStates, loop : Reactors \cup {MainLoop}]
        BY <3>2 DEF IInv, TypeOK
      <4>2. [conn[t] EXCEPT !.state = answer] \in
               [state : ConnStates, loop : Reactors \cup {MainLoop}]
        BY <4>1 DEF ConnStates
      <4> QED  BY <1>a, <3>2, <4>2 DEF IInv, TypeOK
    <3> QED  BY <1>0, <3>1, <3>2
  <2> QED  BY <1>a, <2>1, <2>2, <2>3 DEF IInv, TypeOK
<1>2. PoolIndexed' /\ BacklogCounted'
  BY DEF IInv, TypeOK, PoolIndexed, BacklogCounted, RunTask, ConnStates
<1>3. RunningInPool'
  BY DEF IInv, TypeOK, PoolIndexed, RunningInPool, ShuttingDown, RunTask,
     ConnStates
<1>4. NotYetStopped'
  BY <1>0, <1>a DEF IInv, TypeOK, NotYetStopped
<1>5. AcceptsOntoRunning'
  BY DEF IInv, TypeOK, PoolIndexed, NotYetStopped, AcceptsOntoRunning,
     RunTask, ConnStates
<1>6. PostedToReactor' /\ HandedToRunningLoop'
  <2> SUFFICES ASSUME NEW c \in Conns, conn'[c].state = "posted"
               PROVE  /\ conn'[c].loop \in Reactors
                      /\ thread'[conn'[c].loop] = "running"
                      /\ c \in Elements(tasks'[conn'[c].loop])
    BY DEF PostedToReactor, HandedToRunningLoop
  <2>1. conn[c].state = "posted" /\ conn'[c].loop = conn[c].loop /\ c # t
    BY <1>b, <1>c DEF Conns, QuitTask
  <2>2. /\ conn[c].loop \in Reactors /\ thread[conn[c].loop] = "running"
        /\ c \in Elements(tasks[conn[c].loop])
    BY <2>1 DEF IInv, PostedToReactor, HandedToRunningLoop
  <2>3. c \in Elements(tasks'[conn[c].loop])
    BY <1>0, <1>a, <2>1, <2>2 DEF IInv, TypeOK
  <2> QED  BY <1>a, <2>1, <2>2, <2>3
<1>7. DestroyedAlone'
  BY <1>0, <1>a, <1>b DEF IInv, TypeOK, DestroyedAlone, QueuedIsAccepted
<1>8. QueuedIsAccepted'
  BY <1>0, <1>a, <1>b DEF IInv, TypeOK, QueuedIsAccepted
<1> QED  BY <1>1, <1>2, <1>3, <1>4, <1>5, <1>6, <1>7, <1>8 DEF IInv

\* the end of a pass,
LEMMA GoRoundIInv == \A r \in Reactors : IInv /\ GoRound(r) => IInv'
<1> SUFFICES ASSUME NEW r \in Reactors, IInv, GoRound(r) PROVE IInv'
  OBVIOUS
<1> USE DEF pool, listener, bounds
<1>1. TypeOK'  BY DEF IInv, TypeOK, GoRound
<1> QED
  BY <1>1 DEF GoRound, IInv, PoolIndexed, BacklogCounted, RunningInPool,
     NotYetStopped, AcceptsOntoRunning, PostedToReactor, HandedToRunningLoop,
     QueuedIsAccepted, DestroyedAlone, ShuttingDown

\* the end of a reactor, whose queue is empty,
LEMMA EndThreadIInv == \A r \in Reactors : IInv /\ EndThread(r) => IInv'
<1> SUFFICES ASSUME NEW r \in Reactors, IInv, EndThread(r) PROVE IInv'
  OBVIOUS
<1> USE TCPServerConstants DEF pool, threads, listener, bounds
<1>1. TypeOK'
  BY DEF IInv, TypeOK, PoolIndexed, EndThread, ThreadStates
<1>2. PoolIndexed' /\ BacklogCounted'
  BY DEF IInv, TypeOK, PoolIndexed, BacklogCounted, EndThread, ThreadStates
<1>3. RunningInPool'
  BY DEF IInv, TypeOK, PoolIndexed, RunningInPool, ShuttingDown, EndThread,
     ThreadStates
<1>4. NotYetStopped'
  BY DEF IInv, TypeOK, NotYetStopped, EndThread, ThreadStates
<1>5. AcceptsOntoRunning'
  BY DEF IInv, TypeOK, PoolIndexed, NotYetStopped, AcceptsOntoRunning,
     EndThread, ThreadStates
<1>6. PostedToReactor' /\ HandedToRunningLoop'
  <2>1. \A c \in Conns : conn[c].state = "posted" => conn[c].loop # r
    BY ElementsEmpty DEF IInv, HandedToRunningLoop, EndThread
  <2> QED
    BY <2>1 DEF IInv, TypeOK, PostedToReactor, HandedToRunningLoop, EndThread
<1>7. DestroyedAlone'
  BY DEF IInv, TypeOK, DestroyedAlone, EndThread, ThreadStates
<1>8. QueuedIsAccepted'
  BY DEF IInv, QueuedIsAccepted, EndThread
<1> QED  BY <1>1, <1>2, <1>3, <1>4, <1>5, <1>6, <1>7, <1>8 DEF IInv

\* an event of a connection,
LEMMA HandleEventIInv == \A c \in Conns : IInv /\ HandleEvent(c) => IInv'
<1> SUFFICES ASSUME NEW c \in Conns, IInv, HandleEvent(c) PROVE IInv'
  OBVIOUS
<1> USE TCPServerConstants DEF pool, threads, listener, bounds
<1>1. TypeOK'
  BY DEF IInv, TypeOK, PoolIndexed, HandleEvent, LoopDispatches, ConnStates
<1>2. PoolIndexed' /\ BacklogCounted'
  BY DEF IInv, TypeOK, PoolIndexed, BacklogCounted, HandleEvent,
     LoopDispatches, ConnStates
<1>3. RunningInPool'
  BY DEF IInv, TypeOK, PoolIndexed, RunningInPool, ShuttingDown, HandleEvent,
     LoopDispatches, ConnStates
<1>4. NotYetStopped'
  BY DEF IInv, TypeOK, NotYetStopped, HandleEvent, LoopDispatches, ConnStates
<1>5. AcceptsOntoRunning'
  BY DEF IInv, TypeOK, PoolIndexed, NotYetStopped, AcceptsOntoRunning,
     HandleEvent, LoopDispatches, ConnStates
<1>6. PostedToReactor' /\ HandedToRunningLoop'
  BY DEF IInv, TypeOK, PostedToReactor, HandedToRunningLoop, HandleEvent,
     LoopDispatches, ConnStates
<1>7. DestroyedAlone'
  BY DEF IInv, TypeOK, DestroyedAlone, HandleEvent, LoopDispatches, ConnStates
<1>8. QueuedIsAccepted'
  BY DEF IInv, TypeOK, QueuedIsAccepted, HandleEvent
<1> QED  BY <1>1, <1>2, <1>3, <1>4, <1>5, <1>6, <1>7, <1>8 DEF IInv

\* a peer that connects,
LEMMA PeerConnectsIInv == IInv /\ PeerConnects => IInv'
<1> SUFFICES ASSUME IInv, PeerConnects PROVE IInv'
  OBVIOUS
<1> USE TCPServerConstants DEF pool, threads, listener, bounds
<1>1. TypeOK'
  <2>1. backlog + 1 \in 0 .. MaxConns /\ made + 1 \in 0 .. MaxConns
    BY DEF IInv, TypeOK, BacklogCounted, PeerConnects
  <2> QED  BY <2>1 DEF IInv, TypeOK, PeerConnects
<1>2. PoolIndexed' /\ BacklogCounted'
  BY DEF IInv, TypeOK, PoolIndexed, BacklogCounted, PeerConnects
<1>3. RunningInPool'
  BY DEF IInv, TypeOK, PoolIndexed, RunningInPool, ShuttingDown, PeerConnects
<1>4. NotYetStopped'
  BY DEF IInv, TypeOK, NotYetStopped, PeerConnects
<1>5. AcceptsOntoRunning'
  BY DEF IInv, TypeOK, PoolIndexed, NotYetStopped, AcceptsOntoRunning,
     PeerConnects
<1>6. PostedToReactor' /\ HandedToRunningLoop'
  BY DEF IInv, TypeOK, PostedToReactor, HandedToRunningLoop, PeerConnects
<1>7. DestroyedAlone'
  BY DEF IInv, TypeOK, DestroyedAlone, PeerConnects
<1>8. QueuedIsAccepted'
  BY DEF IInv, QueuedIsAccepted, PeerConnects
<1> QED  BY <1>1, <1>2, <1>3, <1>4, <1>5, <1>6, <1>7, <1>8 DEF IInv

\* and the end of the main loop.
LEMMA EndMainLoopIInv == IInv /\ EndMainLoop => IInv'
<1> SUFFICES ASSUME IInv, EndMainLoop PROVE IInv'
  OBVIOUS
<1> USE TCPServerConstants DEF pool, threads, listener, bounds
<1>1. TypeOK'
  BY DEF IInv, TypeOK, PoolIndexed, EndMainLoop, MainDispatches
<1>2. PoolIndexed' /\ BacklogCounted'
  BY DEF IInv, TypeOK, PoolIndexed, BacklogCounted, EndMainLoop, MainDispatches
<1>3. RunningInPool'
  BY DEF IInv, TypeOK, PoolIndexed, RunningInPool, ShuttingDown, EndMainLoop,
     MainDispatches
<1>4. NotYetStopped'
  BY DEF IInv, TypeOK, NotYetStopped, EndMainLoop, MainDispatches
<1>5. AcceptsOntoRunning'
  BY DEF IInv, TypeOK, PoolIndexed, NotYetStopped, AcceptsOntoRunning,
     EndMainLoop, MainDispatches
<1>6. PostedToReactor' /\ HandedToRunningLoop'
  BY DEF IInv, TypeOK, PostedToReactor, HandedToRunningLoop, EndMainLoop,
     MainDispatches
<1>7. DestroyedAlone'
  BY DEF IInv, TypeOK, DestroyedAlone, EndMainLoop, MainDispatches
<1>8. QueuedIsAccepted'
  BY DEF IInv, QueuedIsAccepted, EndMainLoop
<1> QED  BY <1>1, <1>2, <1>3, <1>4, <1>5, <1>6, <1>7, <1>8 DEF IInv

-----------------------------------------------------------------------------
(* The theorems.                                                            *)

\* Every step keeps the invariant.
LEMMA StepIInv == IInv /\ [Next]_vars => IInv'
<1> SUFFICES ASSUME IInv, [Next]_vars PROVE IInv'
  OBVIOUS
<1>1. CASE MainStep
  BY <1>1, CreateIInv, StartIInv, StartReturnsIInv, StopIInv, JoinIInv,
     ShutdownReturnsIInv DEF MainStep
<1>2. CASE Destroy  BY <1>2, DestroyIInv
<1>3. CASE Accept  BY <1>3, OnCreateConnectionIInv DEF Accept
<1>4. CASE AcceptFails  BY <1>4, AcceptFailsIInv
<1>5. ASSUME NEW r \in Reactors, ReactorStep(r) PROVE IInv'
  BY <1>5, RunTaskIInv, GoRoundIInv, EndThreadIInv DEF ReactorStep
<1>6. ASSUME NEW c \in Conns, HandleEvent(c) PROVE IInv'
  BY <1>6, HandleEventIInv
<1>7. CASE PeerConnects  BY <1>7, PeerConnectsIInv
<1>8. CASE EndMainLoop  BY <1>8, EndMainLoopIInv
<1>9. CASE UNCHANGED vars
  BY <1>9 DEF vars, pool, threads, listener, bounds, IInv, TypeOK, PoolIndexed,
     BacklogCounted, RunningInPool, NotYetStopped, AcceptsOntoRunning,
     PostedToReactor, HandedToRunningLoop, QueuedIsAccepted, DestroyedAlone,
     ShuttingDown
<1> QED
  BY <1>1, <1>2, <1>3, <1>4, <1>5, <1>6, <1>7, <1>8, <1>9 DEF Next

\* The invariant holds in every reachable state.
THEOREM Invariance == Spec => []IInv
  BY InitIInv, StepIInv, PTL DEF Spec

\* The variables of the server, its pool and its connections have their types.
THEOREM TypeCorrect == Spec => []TypeOK
<1>1. IInv => TypeOK  BY DEF IInv
<1> QED  BY <1>1, Invariance, PTL

\* Whatever part of the pool starts or fails, a connection that waits for its
\* OnCreated waits in the queue of a reactor that runs.
THEOREM HandedOver == Spec => []HandedToRunningLoop
<1>1. IInv => HandedToRunningLoop  BY DEF IInv
<1> QED  BY <1>1, Invariance, PTL

\* Once the server is gone no connection's state changes.
LEMMA StepSilent ==
    IInv /\ [Next]_vars =>
      ((\E c \in Conns : /\ conn'[c].state # conn[c].state
                         /\ conn'[c].state # "posted")
         => server # "gone")
<1> SUFFICES ASSUME IInv, [Next]_vars, server = "gone",
                    NEW c \in Conns, conn'[c].state # conn[c].state
             PROVE  FALSE
  OBVIOUS
<1>1. \A r \in Reactors : thread[r] # "running"
  BY ElementsEmpty DEF IInv, RunningInPool
<1>2. ~MainStep /\ ~Destroy /\ ~Accept /\ ~AcceptFails /\ ~EndMainLoop
  BY DEF MainStep, Create, Start, StartReturns, Stop, Join, ShutdownReturns,
         ShuttingDown, Destroy, Accept, OnCreateConnection, AcceptFails,
         EndMainLoop, MainDispatches
<1>3. \A r \in Reactors : ~ReactorStep(r)
  BY <1>1 DEF ReactorStep, RunTask, GoRound, EndThread
<1>4. ASSUME NEW d \in Conns, HandleEvent(d) PROVE FALSE
  <2>0. conn[d].loop \in Reactors \cup {MainLoop}
    BY DEF IInv, TypeOK
  <2>1. main_runs \/ \E r \in Reactors : thread[r] = "running"
    BY <1>4, <2>0 DEF HandleEvent, LoopDispatches
  <2>2. \A e \in Conns : conn[e].state = "none"
    BY <1>1, <2>1 DEF IInv, DestroyedAlone
  <2> QED  BY <1>4, <2>2 DEF HandleEvent
<1>5. CASE PeerConnects  BY <1>5 DEF PeerConnects
<1>6. CASE UNCHANGED vars  BY <1>6 DEF vars
<1> QED  BY <1>2, <1>3, <1>4, <1>5, <1>6 DEF Next

\* No connection calls back into a destroyed TCPServer.
THEOREM NoCallbackAfterDestruction == Spec => CallbacksReachServer
  BY Invariance, StepSilent, PTL DEF Spec, CallbacksReachServer
=============================================================================
