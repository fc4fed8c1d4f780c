--------------------------- MODULE TCPClient_proofs ---------------------------
(***************************************************************************)
(* For any number of calling threads, descriptors, connections and calls:   *)
(* used as ZNetTCPClient does, the client keeps exactly one attempt alive   *)
(* until it is connected and its pieces agree on the socket; used in any    *)
(* way, a handler is only created on a connection that is up.               *)
(***************************************************************************)
EXTENDS TCPClient, FiniteSetTheorems, SequenceTheorems, TLAPS

\* The threads between Connect's test and its post.
Connecting == {t \in Callers : pc[t] = "connect"}

\* A watch that can still complete belongs to the current attempt: a second
\* attempt gives up the first one's watch.
WatchIsCurrent ==
    connect_state_ = "Connecting" /\ watcher_ # 0 => connector_ \in {0, watcher_}

\* Used as ZNetTCPClient does, there is one Connect and no DisConnect, ...
OneConnect ==
    style = "zengine" =>
        /\ calls \in {0, 1}
        /\ calls = 0 => connect_state_ = "Invalid" /\ created = 0
        /\ \A i \in 1 .. Len(tasks) : tasks[i] = "ReConnect"
        /\ \A t \in Callers : pc[t] # "disconnect"
        /\ io_handler_ \in 0 .. created

\* ... only the current handler has a socket, and a descriptor is connecting
\* or connected only as the connector's, in the state that says so.
OneSocket ==
    style = "zengine" =>
        /\ \A h \in Handlers : handlers[h] # 0 => h = io_handler_
        /\ \A s \in Fds : fd[s] \in {"up", "connecting"} =>
              s = connector_ /\ connect_state_ # "Invalid"
        /\ \A s \in Fds : fd[s] = "connecting" => connect_state_ = "Connecting"

IInv ==
    /\ TypeOK
    /\ IsFiniteSet(Connecting)
    /\ WatchIsCurrent
    /\ OneConnect
    /\ OneSocket
    /\ OneAttempt
    /\ StateMatchesSocket

-----------------------------------------------------------------------------
(* Types.                                                                   *)

\* A new connection keeps the types, whether the application accepts it.
LEMMA NewConnectionTypes ==
    ASSUME TypeOK, NEW s \in Fds, NEW open \in [Fds -> FdStates],
           OnNewConnection(s, open)
    PROVE  /\ connect_state_' \in ConnectStates
           /\ connector_' \in Fds \cup {0}
           /\ io_handler_' \in Handlers \cup {0}
           /\ handlers' \in [Handlers -> Fds \cup {0}]
           /\ created' \in 0 .. MaxHandlers
           /\ fd' \in [Fds -> FdStates]
           /\ lost' \in BOOLEAN
<1>1. created < MaxHandlers /\ created' = created + 1
  BY DEF OnNewConnection, Accepted, Refused
<1>2. created' \in Handlers /\ created' \in 0 .. MaxHandlers
  BY <1>1, TCPClientConstants DEF TypeOK, Handlers
<1>3. CASE Accepted(s) /\ fd' = open
  BY <1>2, <1>3 DEF Accepted, TypeOK, ConnectStates
<1>4. CASE Refused /\ fd' = [open EXCEPT ![s] = "free"]
  BY <1>2, <1>4 DEF Refused, TypeOK, ConnectStates, FdStates
<1> QED  BY <1>3, <1>4 DEF OnNewConnection

\* Taking a task from the queue keeps its type.
LEMMA TaskTypes ==
    ASSUME TypeOK, NEW op, NextTask(op)
    PROVE  /\ tasks # <<>> /\ Head(tasks) = op
           /\ tasks' \in Seq({"ReConnect", "DoClose"})
           /\ Len(tasks') = Len(tasks) - 1
           /\ Len(tasks) \in Nat \ {0}
           /\ \A i \in 1 .. Len(tasks') :
                 i + 1 \in 1 .. Len(tasks) /\ tasks'[i] = tasks[i + 1]
<1>1. /\ tasks \in Seq({"ReConnect", "DoClose"})
      /\ tasks # <<>> /\ tasks' = Tail(tasks)
  BY DEF TypeOK, NextTask
<1>2. Len(tasks) \in Nat \ {0}  BY <1>1, EmptySeq
<1>3. /\ tasks' \in Seq({"ReConnect", "DoClose"})
      /\ Len(tasks') = Len(tasks) - 1
      /\ \A i \in 1 .. Len(tasks') : tasks'[i] = tasks[i + 1]
  BY <1>1, HeadTailProperties
<1>4. \A i \in 1 .. Len(tasks') : i + 1 \in 1 .. Len(tasks)  BY <1>2, <1>3
<1> QED  BY <1>1, <1>2, <1>3, <1>4 DEF NextTask

\* Posting a task, too.
LEMMA PostTypes ==
    ASSUME TypeOK, NEW op \in {"ReConnect", "DoClose"}, tasks' = Append(tasks, op)
    PROVE  /\ tasks' \in Seq({"ReConnect", "DoClose"})
           /\ Len(tasks') = Len(tasks) + 1 /\ Len(tasks) \in Nat
           /\ \A i \in 1 .. Len(tasks) : tasks'[i] = tasks[i]
           /\ tasks'[Len(tasks) + 1] = op
<1>1. tasks \in Seq({"ReConnect", "DoClose"})  BY DEF TypeOK
<1>2. Len(tasks) \in Nat  BY <1>1
<1> QED  BY <1>1, <1>2, AppendProperties

\* Every step keeps the types.
LEMMA TypeStep ==
    ASSUME TypeOK, [Next]_vars
    PROVE  TypeOK'
<1>1. CASE \E t \in Callers : ConnectTest(t) \/ DisConnectTest(t)
  <2>1. PICK t \in Callers : ConnectTest(t) \/ DisConnectTest(t)  BY <1>1
  <2>2. calls' \in 0 .. MaxCalls
    BY <2>1, TCPClientConstants DEF ConnectTest, DisConnectTest, TypeOK
  <2>3. pc' \in [Callers -> {"idle", "connect", "disconnect"}]
    BY <2>1 DEF ConnectTest, DisConnectTest, TypeOK
  <2> QED  BY <2>1, <2>2, <2>3 DEF ConnectTest, DisConnectTest, TypeOK
<1>2. CASE \E t \in Callers : ConnectPost(t) \/ DisConnectPost(t)
  <2>1. PICK t \in Callers : ConnectPost(t) \/ DisConnectPost(t)  BY <1>2
  <2>2. tasks' \in Seq({"ReConnect", "DoClose"})
    BY <2>1, PostTypes DEF ConnectPost, DisConnectPost
  <2>3. pc' \in [Callers -> {"idle", "connect", "disconnect"}]
    BY <2>1 DEF ConnectPost, DisConnectPost, TypeOK
  <2> QED  BY <2>1, <2>2, <2>3 DEF ConnectPost, DisConnectPost, TypeOK
<1>3. CASE ReConnectFails
  <2>1. tasks' \in Seq({"ReConnect", "DoClose"})
    BY <1>3, TaskTypes DEF ReConnectFails
  <2>2. fd' \in [Fds -> FdStates]  BY <1>3 DEF ReConnectFails, TypeOK, FdStates
  <2>3. delayed' \in Nat  BY <1>3 DEF ReConnectFails, TypeOK
  <2> QED  BY <1>3, <2>1, <2>2, <2>3 DEF ReConnectFails, TypeOK
<1>4. CASE ReConnectSucceeds
  <2>1. tasks' \in Seq({"ReConnect", "DoClose"})
    BY <1>4, TaskTypes DEF ReConnectSucceeds
  <2>2. PICK s \in Fds : OnNewConnection(s, [fd EXCEPT ![s] = "up"])
    BY <1>4 DEF ReConnectSucceeds
  <2>3. [fd EXCEPT ![s] = "up"] \in [Fds -> FdStates]  BY DEF TypeOK, FdStates
  <2>4. /\ connect_state_' \in ConnectStates
        /\ connector_' \in Fds \cup {0}
        /\ io_handler_' \in Handlers \cup {0}
        /\ handlers' \in [Handlers -> Fds \cup {0}]
        /\ created' \in 0 .. MaxHandlers
        /\ fd' \in [Fds -> FdStates]
        /\ lost' \in BOOLEAN
    BY <2>2, <2>3, NewConnectionTypes
  <2> QED  BY <1>4, <2>1, <2>4 DEF ReConnectSucceeds, TypeOK
<1>5. CASE ReConnectStarts
  <2>1. tasks' \in Seq({"ReConnect", "DoClose"})
    BY <1>5, TaskTypes DEF ReConnectStarts
  <2>2. PICK s \in Fds : /\ fd' = [fd EXCEPT ![s] = "connecting"]
                         /\ connector_' = s /\ watcher_' \in {s, 0}
    BY <1>5 DEF ReConnectStarts, OnConnecting, Watch
  <2>3. fd' \in [Fds -> FdStates]  BY <2>2 DEF TypeOK, FdStates
  <2> QED  BY <1>5, <2>1, <2>2, <2>3 DEF ReConnectStarts, TypeOK, ConnectStates
<1>6. CASE RetryTimer
  <2>1. tasks' \in Seq({"ReConnect", "DoClose"})
    BY <1>6, PostTypes DEF RetryTimer
  <2>2. delayed' \in Nat  BY <1>6 DEF RetryTimer, TypeOK
  <2> QED  BY <1>6, <2>1, <2>2 DEF RetryTimer, TypeOK
<1>7. ASSUME CloseByConnector PROVE fd' \in [Fds -> FdStates]
  BY <1>7 DEF CloseByConnector, TypeOK, FdStates
<1>8. CASE RunDoClose
  <2>1. tasks' \in Seq({"ReConnect", "DoClose"})
    BY <1>8, TaskTypes DEF RunDoClose
  <2> QED
    BY <1>7, <1>8, <2>1 DEF RunDoClose, DoCloseFromMe, TypeOK, ConnectStates
<1>9. CASE ConnectedOK
  <2>1. connector_ \in Fds /\ OnNewConnection(connector_, fd)
    BY <1>9 DEF ConnectedOK, TypeOK
  <2>2. fd \in [Fds -> FdStates]  BY DEF TypeOK
  <2>3. /\ connect_state_' \in ConnectStates
        /\ connector_' \in Fds \cup {0}
        /\ io_handler_' \in Handlers \cup {0}
        /\ handlers' \in [Handlers -> Fds \cup {0}]
        /\ created' \in 0 .. MaxHandlers
        /\ fd' \in [Fds -> FdStates]
        /\ lost' \in BOOLEAN
    BY <2>1, <2>2, NewConnectionTypes
  <2> QED  BY <1>9, <2>3 DEF ConnectedOK, TypeOK
<1>10. CASE ConnectedError
  <2>1. delayed' \in Nat  BY <1>10 DEF ConnectedError, TypeOK
  <2> QED
    BY <1>7, <1>10, <2>1 DEF ConnectedError, DoCloseFromMe, TypeOK,
       ConnectStates
<1>11. CASE \E h \in Handlers : ConnectionCloses(h)
  BY <1>11 DEF ConnectionCloses, TypeOK, ConnectStates, FdStates
<1>12. CASE \E s \in Fds : Finish(s)
  BY <1>12 DEF Finish, TypeOK, FdStates
<1>13. CASE UNCHANGED vars
  BY <1>13 DEF vars, TypeOK
<1> QED
  BY <1>1, <1>2, <1>3, <1>4, <1>5, <1>6, <1>8, <1>9, <1>10, <1>11, <1>12, <1>13
     DEF Next

-----------------------------------------------------------------------------
(* The watch, and the handlers.                                             *)

\* Only ReConnectStarts begins a Connecting state, and it takes the watch or
\* leaves none.
LEMMA WatchStep ==
    ASSUME TypeOK, WatchIsCurrent, [Next]_vars
    PROVE  WatchIsCurrent'
<1> USE DEF WatchIsCurrent
<1>1. CASE \E t \in Callers : \/ ConnectTest(t) \/ ConnectPost(t)
                              \/ DisConnectTest(t) \/ DisConnectPost(t)
  BY <1>1 DEF ConnectTest, ConnectPost, DisConnectTest, DisConnectPost
<1>2. CASE ReConnectFails \/ RetryTimer \/ \E s \in Fds : Finish(s)
  BY <1>2 DEF ReConnectFails, RetryTimer, Finish
<1>3. CASE ReConnectSucceeds \/ ConnectedOK
  BY <1>3 DEF ReConnectSucceeds, ConnectedOK, OnNewConnection, Accepted,
     Refused
<1>4. CASE ReConnectStarts
  BY <1>4 DEF ReConnectStarts, OnConnecting, Watch
<1>5. CASE RunDoClose \/ ConnectedError \/ \E h \in Handlers : ConnectionCloses(h)
  BY <1>5 DEF RunDoClose, ConnectedError, DoCloseFromMe, ConnectionCloses
<1>6. CASE UNCHANGED vars  BY <1>6 DEF vars
<1> QED  BY <1>1, <1>2, <1>3, <1>4, <1>5, <1>6 DEF Next

\* So a completed connect is the watched one, and SO_ERROR was its own.
LEMMA HandlerStartsUp ==
    ASSUME TypeOK, WatchIsCurrent, Next,
           NEW h \in Handlers, handlers[h] = 0, handlers'[h] # 0
    PROVE  fd'[handlers'[h]] = "up"
<1>1. ASSUME NEW s \in Fds, NEW open \in [Fds -> FdStates], open[s] = "up",
             OnNewConnection(s, open)
      PROVE  fd'[handlers'[h]] = "up"
  <2>1. Accepted(s) /\ fd' = open  BY <1>1 DEF OnNewConnection, Refused
  <2>2. handlers' = [handlers EXCEPT ![created'] = s]  BY <2>1 DEF Accepted
  <2>3. handlers \in [Handlers -> Fds \cup {0}]  BY DEF TypeOK
  <2>4. handlers'[h] = s  BY <2>2, <2>3
  <2> QED  BY <1>1, <2>1, <2>4
<1>2. CASE ReConnectSucceeds
  <2>1. PICK s \in Fds : OnNewConnection(s, [fd EXCEPT ![s] = "up"])
    BY <1>2 DEF ReConnectSucceeds
  <2>2. /\ [fd EXCEPT ![s] = "up"] \in [Fds -> FdStates]
        /\ [fd EXCEPT ![s] = "up"][s] = "up"
    BY DEF TypeOK, FdStates
  <2> QED  BY <1>1, <2>1, <2>2
<1>3. CASE ConnectedOK
  <2>1. connector_ = watcher_ /\ fd[connector_] = "up"
    BY <1>3 DEF ConnectedOK, Completed, WatchIsCurrent
  <2>2. connector_ \in Fds /\ fd \in [Fds -> FdStates]
    BY <1>3 DEF ConnectedOK, TypeOK
  <2> QED  BY <1>1, <1>3, <2>1, <2>2 DEF ConnectedOK
<1>4. CASE \E g \in Handlers : ConnectionCloses(g)
  BY <1>4 DEF ConnectionCloses, TypeOK
<1> QED
  BY <1>2, <1>3, <1>4
     DEF Next, ConnectTest, ConnectPost, DisConnectTest, DisConnectPost,
         ReConnectFails, ReConnectStarts, RetryTimer, RunDoClose, ConnectedError,
         Finish

-----------------------------------------------------------------------------
(* Counting the attempts of a client used as ZNetTCPClient does.            *)

\* A queue of ReConnects holds as many as it is long.
LEMMA CountPosted ==
    ASSUME NEW q \in Seq({"ReConnect", "DoClose"}),
           \A i \in 1 .. Len(q) : q[i] = "ReConnect"
    PROVE  /\ Len(q) \in Nat
           /\ Cardinality({i \in DOMAIN q : q[i] = "ReConnect"}) = Len(q)
<1>1. Len(q) \in Nat /\ DOMAIN q = 1 .. Len(q)  BY LenProperties
<1>2. {i \in DOMAIN q : q[i] = "ReConnect"} = 1 .. Len(q)  BY <1>1
<1>3. Cardinality(1 .. Len(q)) = IF 1 > Len(q) THEN 0 ELSE Len(q) - 1 + 1
  BY <1>1, FS_Interval
<1>4. (IF 1 > Len(q) THEN 0 ELSE Len(q) - 1 + 1) = Len(q)  BY <1>1
<1> QED  BY <1>1, <1>2, <1>3, <1>4

\* The attempts, counted in the current state ...
LEMMA CountAttempts ==
    ASSUME style = "zengine", TypeOK, OneConnect, IsFiniteSet(Connecting)
    PROVE  /\ Len(tasks) \in Nat /\ delayed \in Nat /\ Cardinality(Connecting) \in Nat
           /\ Attempts = Len(tasks) + delayed + Cardinality(Connecting)
                         + (IF connect_state_ = "Connecting" THEN 1 ELSE 0)
<1>1. /\ Len(tasks) \in Nat
      /\ Cardinality({i \in DOMAIN tasks : tasks[i] = "ReConnect"}) = Len(tasks)
  BY CountPosted DEF TypeOK, OneConnect
<1>2. Cardinality(Connecting) \in Nat  BY FS_CardinalityType
<1> QED  BY <1>1, <1>2 DEF Attempts, Posted, Connecting, TypeOK

\* ... and in the next state.
LEMMA CountAttemptsNext ==
    ASSUME style' = "zengine", TypeOK', OneConnect'
    PROVE  Attempts' = Len(tasks') + delayed' + Cardinality(Connecting')
                       + (IF connect_state_' = "Connecting" THEN 1 ELSE 0)
<1>1. tasks' \in Seq({"ReConnect", "DoClose"})  BY DEF TypeOK
<1>2. \A i \in 1 .. Len(tasks') : tasks'[i] = "ReConnect"  BY DEF OneConnect
<1>3. Cardinality({i \in DOMAIN tasks' : tasks'[i] = "ReConnect"}) = Len(tasks')
  BY <1>1, <1>2, CountPosted
<1> QED  BY <1>3 DEF Attempts, Posted, Connecting

\* The callers' part of a step.
LEMMA CallersCount ==
    ASSUME TypeOK, IsFiniteSet(Connecting), [Next]_vars
    PROVE  /\ IsFiniteSet(Connecting')
           /\ \A t \in Callers : ConnectTest(t) /\ connect_state_ = "Invalid" =>
                 Cardinality(Connecting') = Cardinality(Connecting) + 1
           /\ \A t \in Callers : ConnectPost(t) =>
                 /\ Cardinality(Connecting) # 0
                 /\ Cardinality(Connecting') = Cardinality(Connecting) - 1
           /\ pc' = pc => Connecting' = Connecting
<1>0. pc \in [Callers -> {"idle", "connect", "disconnect"}]  BY DEF TypeOK
<1>1. ASSUME NEW t \in Callers, ConnectTest(t)
      PROVE  /\ IsFiniteSet(Connecting')
             /\ connect_state_ = "Invalid" =>
                   Cardinality(Connecting') = Cardinality(Connecting) + 1
  <2>1. /\ t \notin Connecting
        /\ connect_state_ = "Invalid" => Connecting' = Connecting \cup {t}
        /\ connect_state_ # "Invalid" => Connecting' = Connecting
    BY <1>0, <1>1 DEF ConnectTest, Connecting
  <2> QED  BY <2>1, FS_AddElement
<1>2. ASSUME NEW t \in Callers, ConnectPost(t)
      PROVE  /\ IsFiniteSet(Connecting')
             /\ Cardinality(Connecting) # 0
             /\ Cardinality(Connecting') = Cardinality(Connecting) - 1
  <2>1. t \in Connecting /\ Connecting' = Connecting \ {t}
    BY <1>0, <1>2 DEF ConnectPost, Connecting
  <2> QED  BY <2>1, FS_RemoveElement, FS_EmptySet
<1>3. ASSUME NEW t \in Callers, DisConnectTest(t) \/ DisConnectPost(t)
      PROVE  Connecting' = Connecting
  BY <1>0, <1>3 DEF DisConnectTest, DisConnectPost, Connecting
<1>4. pc' = pc => Connecting' = Connecting  BY DEF Connecting
<1>5. \/ pc' = pc
      \/ \E t \in Callers : \/ ConnectTest(t) \/ ConnectPost(t)
                            \/ DisConnectTest(t) \/ DisConnectPost(t)
  BY DEF Next, ReConnectFails, ReConnectSucceeds, ReConnectStarts, RetryTimer,
         RunDoClose, ConnectedOK, ConnectedError, ConnectionCloses, Finish, vars
<1>6. IsFiniteSet(Connecting')
  BY <1>1, <1>2, <1>3, <1>4, <1>5
<1> QED  BY <1>1, <1>2, <1>4, <1>6

-----------------------------------------------------------------------------
(* The steps of a client used as ZNetTCPClient does.                        *)

\* What holds of such a client.
ZInv == OneConnect /\ OneSocket /\ OneAttempt /\ StateMatchesSocket

\* One attempt under way excludes the others; before the first connection
\* there is no handler.
LEMMA OneAtATime ==
    ASSUME IInv, style = "zengine",
           \/ Len(tasks) # 0 \/ delayed # 0 \/ Cardinality(Connecting) # 0
           \/ connect_state_ = "Connecting"
    PROVE  /\ calls = 1 /\ created = 0 /\ io_handler_ = 0
           /\ connect_state_ # "Connected"
           /\ connect_state_ = "Connecting" <=> watcher_ # 0
           /\ \A h \in Handlers : handlers[h] = 0
           /\ Len(tasks) \in Nat /\ delayed \in Nat /\ Cardinality(Connecting) \in Nat
           /\ Len(tasks) + delayed + Cardinality(Connecting)
                + (IF connect_state_ = "Connecting" THEN 1 ELSE 0) = 1
<1>1. /\ TypeOK /\ OneConnect /\ OneAttempt /\ OneSocket /\ StateMatchesSocket
      /\ IsFiniteSet(Connecting)
  BY DEF IInv
<1>2. /\ Len(tasks) \in Nat /\ delayed \in Nat /\ Cardinality(Connecting) \in Nat
      /\ Attempts = Len(tasks) + delayed + Cardinality(Connecting)
                    + (IF connect_state_ = "Connecting" THEN 1 ELSE 0)
  BY <1>1, CountAttempts
<1>3. Attempts = IF calls = 1 /\ created = 0 THEN 1 ELSE 0
  BY <1>1 DEF OneAttempt
<1>4. Attempts # 0  BY <1>2
<1>5. calls = 1 /\ created = 0 /\ Attempts = 1  BY <1>3, <1>4
<1>6. io_handler_ = 0  BY <1>1, <1>5 DEF OneConnect
<1>7. /\ connect_state_ # "Connected"
      /\ connect_state_ = "Connecting" <=> watcher_ # 0
  BY <1>1, <1>6 DEF StateMatchesSocket
<1>8. \A h \in Handlers : handlers[h] = 0
  BY <1>1, <1>6 DEF OneSocket, Handlers
<1> QED  BY <1>2, <1>5, <1>6, <1>7, <1>8

\* The sum decides OneAttempt in the next state.
LEMMA AttemptsNext ==
    ASSUME style' = "zengine", TypeOK', OneConnect',
           Len(tasks') + delayed' + Cardinality(Connecting')
             + (IF connect_state_' = "Connecting" THEN 1 ELSE 0)
           = IF calls' = 1 /\ created' = 0 THEN 1 ELSE 0
    PROVE  OneAttempt'
  BY CountAttemptsNext DEF OneAttempt

\* Connect's test: the one call finds a new client.
LEMMA ConnectTestZ ==
    ASSUME IInv, TypeOK', style = "zengine", NEW t \in Callers, ConnectTest(t)
    PROVE  ZInv'
<1>1. /\ TypeOK /\ OneConnect /\ OneAttempt /\ OneSocket /\ StateMatchesSocket
      /\ IsFiniteSet(Connecting)
  BY DEF IInv
<1>2. /\ calls = 0 /\ calls' = 1
      /\ UNCHANGED <<style, connect_state_, connector_, watcher_, io_handler_,
                     handlers, created, tasks, delayed, fd, lost>>
  BY DEF ConnectTest
<1>3. connect_state_ = "Invalid" /\ created = 0  BY <1>1, <1>2 DEF OneConnect
<1>4. Cardinality(Connecting') = Cardinality(Connecting) + 1
  <2>1. [Next]_vars  BY DEF Next
  <2> QED  BY <1>1, <1>3, <2>1, CallersCount
<1>5. /\ Len(tasks) \in Nat /\ delayed \in Nat /\ Cardinality(Connecting) \in Nat
      /\ Attempts = Len(tasks) + delayed + Cardinality(Connecting)
                    + (IF connect_state_ = "Connecting" THEN 1 ELSE 0)
  BY <1>1, CountAttempts
<1>6. Attempts = 0  BY <1>1, <1>2 DEF OneAttempt
<1>7. OneConnect'
  <2>1. \A u \in Callers : pc'[u] # "disconnect"
    BY <1>1 DEF ConnectTest, OneConnect, TypeOK
  <2> QED  BY <1>1, <1>2, <1>3, <2>1 DEF OneConnect
<1>8. OneAttempt'  BY <1>2, <1>3, <1>4, <1>5, <1>6, <1>7, AttemptsNext
<1>9. OneSocket' /\ StateMatchesSocket'
  BY <1>1, <1>2 DEF OneSocket, StateMatchesSocket
<1> QED  BY <1>7, <1>8, <1>9 DEF ZInv

\* Connect's post and the retry timer put the attempt into the queue.
LEMMA PostZ ==
    ASSUME IInv, TypeOK', style = "zengine",
           RetryTimer \/ \E t \in Callers : ConnectPost(t)
    PROVE  ZInv'
<1>1. /\ TypeOK /\ OneConnect /\ OneAttempt /\ OneSocket /\ StateMatchesSocket
      /\ IsFiniteSet(Connecting)
  BY DEF IInv
<1>2. /\ tasks' = Append(tasks, "ReConnect")
      /\ UNCHANGED <<style, connect_state_, connector_, watcher_, io_handler_,
                     handlers, created, calls, fd, lost>>
  BY DEF ConnectPost, RetryTimer
<1>3. /\ Len(tasks') = Len(tasks) + 1 /\ Len(tasks) \in Nat
      /\ \A i \in 1 .. Len(tasks) : tasks'[i] = tasks[i]
      /\ tasks'[Len(tasks) + 1] = "ReConnect"
  BY <1>1, <1>2, PostTypes
<1>4. \/ /\ delayed # 0 /\ delayed' = delayed - 1 /\ pc' = pc
         /\ Cardinality(Connecting') = Cardinality(Connecting)
      \/ /\ Cardinality(Connecting) # 0 /\ delayed' = delayed
         /\ Cardinality(Connecting') = Cardinality(Connecting) - 1
         /\ \A u \in Callers : pc'[u] \in {pc[u], "idle"}
  <2>0. [Next]_vars  BY DEF Next
  <2>1. CASE RetryTimer
    <3>1. delayed # 0 /\ delayed' = delayed - 1 /\ pc' = pc
      BY <1>1, <2>1 DEF RetryTimer, TypeOK
    <3> QED  BY <3>1 DEF Connecting
  <2>2. CASE \E t \in Callers : ConnectPost(t)
    <3>1. /\ Cardinality(Connecting) # 0
          /\ Cardinality(Connecting') = Cardinality(Connecting) - 1
      BY <1>1, <2>0, <2>2, CallersCount
    <3>2. delayed' = delayed /\ \A u \in Callers : pc'[u] \in {pc[u], "idle"}
      BY <1>1, <2>2 DEF ConnectPost, TypeOK
    <3> QED  BY <3>1, <3>2
  <2> QED  BY <2>1, <2>2
<1>5. /\ calls = 1 /\ created = 0
      /\ Len(tasks) \in Nat /\ delayed \in Nat /\ Cardinality(Connecting) \in Nat
      /\ Len(tasks) + delayed + Cardinality(Connecting)
           + (IF connect_state_ = "Connecting" THEN 1 ELSE 0) = 1
  BY <1>4, OneAtATime
<1>6. OneConnect'
  <2>1. \A u \in Callers : pc'[u] # "disconnect"  BY <1>1, <1>4 DEF OneConnect
  <2>2. \A i \in 1 .. Len(tasks') : tasks'[i] = "ReConnect"
    <3>1. \A i \in 1 .. Len(tasks) : tasks[i] = "ReConnect"
      BY <1>1 DEF OneConnect
    <3>2. \A i \in 1 .. Len(tasks') : i \in 1 .. Len(tasks) \/ i = Len(tasks) + 1
      BY <1>3
    <3> QED  BY <1>3, <3>1, <3>2
  <2> QED  BY <1>1, <1>2, <1>5, <2>1, <2>2 DEF OneConnect
<1>7. Len(tasks') + delayed' + Cardinality(Connecting')
        + (IF connect_state_' = "Connecting" THEN 1 ELSE 0) = 1
  BY <1>2, <1>3, <1>4, <1>5
<1>8. OneAttempt'  BY <1>2, <1>5, <1>6, <1>7, AttemptsNext
<1>9. OneSocket' /\ StateMatchesSocket'
  BY <1>1, <1>2 DEF OneSocket, StateMatchesSocket
<1> QED  BY <1>6, <1>8, <1>9 DEF ZInv

\* What a posted ReConnect finds, and what taking it leaves.
LEMMA ReConnectFinds ==
    ASSUME IInv, style = "zengine", NextTask("ReConnect"), pc' = pc
    PROVE  /\ calls = 1 /\ created = 0 /\ io_handler_ = 0
           /\ connect_state_ = "Invalid" /\ watcher_ = 0
           /\ \A h \in Handlers : handlers[h] = 0
           /\ \A s \in Fds : fd[s] \notin {"up", "connecting"}
           /\ Len(tasks') = 0 /\ delayed = 0 /\ Cardinality(Connecting') = 0
<1>1. TypeOK /\ OneSocket  BY DEF IInv
<1>2. Len(tasks) \in Nat \ {0} /\ Len(tasks') = Len(tasks) - 1
  BY <1>1, TaskTypes
<1>3. /\ calls = 1 /\ created = 0 /\ io_handler_ = 0
      /\ connect_state_ # "Connected"
      /\ connect_state_ = "Connecting" <=> watcher_ # 0
      /\ \A h \in Handlers : handlers[h] = 0
      /\ Len(tasks) \in Nat /\ delayed \in Nat /\ Cardinality(Connecting) \in Nat
      /\ Len(tasks) + delayed + Cardinality(Connecting)
           + (IF connect_state_ = "Connecting" THEN 1 ELSE 0) = 1
  BY <1>2, OneAtATime
<1>4. /\ Len(tasks') = 0 /\ delayed = 0 /\ Cardinality(Connecting) = 0
      /\ connect_state_ # "Connecting"
  BY <1>2, <1>3
<1>5. connect_state_ = "Invalid"  BY <1>1, <1>3, <1>4 DEF TypeOK, ConnectStates
<1>6. Connecting' = Connecting  BY DEF Connecting
<1> QED  BY <1>1, <1>3, <1>4, <1>5, <1>6 DEF OneSocket

\* ReConnect, with each result of CreateTCPConnectedSocket.
LEMMA ReConnectZ ==
    ASSUME IInv, TypeOK', style = "zengine",
           ReConnectFails \/ ReConnectSucceeds \/ ReConnectStarts
    PROVE  ZInv'
<1>1. TypeOK /\ OneConnect  BY DEF IInv
<1>2. NextTask("ReConnect") /\ pc' = pc /\ calls' = calls /\ style' = style
  BY DEF ReConnectFails, ReConnectSucceeds, ReConnectStarts
<1>3. /\ calls = 1 /\ created = 0 /\ io_handler_ = 0
      /\ connect_state_ = "Invalid" /\ watcher_ = 0
      /\ \A h \in Handlers : handlers[h] = 0
      /\ \A s \in Fds : fd[s] \notin {"up", "connecting"}
      /\ Len(tasks') = 0 /\ delayed = 0 /\ Cardinality(Connecting') = 0
  BY <1>2, ReConnectFinds
<1>4. /\ \A i \in 1 .. Len(tasks') : tasks'[i] = "ReConnect"
      /\ \A t \in Callers : pc'[t] # "disconnect"
  BY <1>1, <1>2, <1>3 DEF OneConnect
<1>5. CASE ReConnectFails
  <2>1. /\ connector_' = 0 /\ delayed' = 1
        /\ UNCHANGED <<connect_state_, watcher_, io_handler_, handlers, created>>
    BY <1>3, <1>5 DEF ReConnectFails
  <2>2. \A s \in Fds : fd'[s] \notin {"up", "connecting"}
    BY <1>1, <1>3, <1>5 DEF ReConnectFails, TypeOK
  <2>3. OneConnect'  BY <1>2, <1>3, <1>4, <2>1 DEF OneConnect
  <2>4. OneAttempt'  BY <1>2, <1>3, <2>1, <2>3, AttemptsNext
  <2>5. OneSocket' /\ StateMatchesSocket'
    BY <1>3, <2>1, <2>2 DEF OneSocket, StateMatchesSocket
  <2> QED  BY <2>3, <2>4, <2>5 DEF ZInv
<1>6. CASE ReConnectSucceeds
  <2>1. PICK s \in Fds : OnNewConnection(s, [fd EXCEPT ![s] = "up"])
    BY <1>6 DEF ReConnectSucceeds
  <2>2. Accepted(s) /\ fd' = [fd EXCEPT ![s] = "up"]
    BY <2>1 DEF OnNewConnection, Refused
  <2>3. /\ watcher_' = 0 /\ delayed' = 0
        /\ created' = 1 /\ io_handler_' = 1
        /\ handlers' = [handlers EXCEPT ![1] = s]
        /\ connect_state_' = "Connected" /\ connector_' = s
    BY <1>3, <1>6, <2>2 DEF ReConnectSucceeds, Accepted
  <2>4. 1 \in Handlers /\ s # 0  BY TCPClientConstants DEF Handlers, Fds
  <2>5. /\ handlers'[1] = s
        /\ \A h \in Handlers : handlers'[h] # 0 => h = 1
    BY <1>1, <1>3, <2>3, <2>4 DEF TypeOK
  <2>6. /\ fd'[s] = "up"
        /\ \A q \in Fds : fd'[q] \in {"up", "connecting"} => q = s
        /\ \A q \in Fds : fd'[q] # "connecting"
    BY <1>1, <1>3, <2>2 DEF TypeOK
  <2>7. OneConnect'  BY <1>2, <1>3, <1>4, <2>3 DEF OneConnect
  <2>8. OneAttempt'  BY <1>2, <1>3, <2>3, <2>7, AttemptsNext
  <2>9. OneSocket' /\ StateMatchesSocket'
    BY <2>3, <2>4, <2>5, <2>6 DEF OneSocket, StateMatchesSocket
  <2> QED  BY <2>7, <2>8, <2>9 DEF ZInv
<1>7. CASE ReConnectStarts
  <2>1. PICK s \in Fds : /\ fd' = [fd EXCEPT ![s] = "connecting"]
                         /\ connector_' = s /\ watcher_' = s
    BY <1>3, <1>7 DEF ReConnectStarts, OnConnecting, Watch
  <2>2. /\ connect_state_' = "Connecting"
        /\ UNCHANGED <<io_handler_, handlers, created, delayed>>
    BY <1>7 DEF ReConnectStarts
  <2>3. /\ s # 0 /\ fd'[s] = "connecting"
        /\ \A q \in Fds : fd'[q] \in {"up", "connecting"} => q = s
        /\ \A q \in Fds : fd'[q] # "up"
    BY <1>1, <1>3, <2>1 DEF TypeOK, Fds
  <2>4. OneConnect'  BY <1>2, <1>3, <1>4, <2>2 DEF OneConnect
  <2>5. OneAttempt'  BY <1>2, <1>3, <2>2, <2>4, AttemptsNext
  <2>6. OneSocket' /\ StateMatchesSocket'
    BY <1>3, <2>1, <2>2, <2>3 DEF OneSocket, StateMatchesSocket
  <2> QED  BY <2>4, <2>5, <2>6 DEF ZInv
<1> QED  BY <1>5, <1>6, <1>7

\* The connect in progress completes: a connection, or the retry's timer.
LEMMA ConnectedZ ==
    ASSUME IInv, TypeOK', style = "zengine", ConnectedOK \/ ConnectedError
    PROVE  ZInv'
<1>1. /\ TypeOK /\ OneConnect /\ OneSocket /\ StateMatchesSocket  BY DEF IInv
<1>2. /\ Completed /\ watcher_' = 0
      /\ UNCHANGED <<style, tasks, pc, calls>>
  BY DEF ConnectedOK, ConnectedError
<1>3. connect_state_ = "Connecting"  BY <1>2 DEF Completed
<1>4. /\ calls = 1 /\ created = 0 /\ io_handler_ = 0
      /\ \A h \in Handlers : handlers[h] = 0
      /\ Len(tasks) = 0 /\ delayed = 0 /\ Cardinality(Connecting) = 0
  <2>1. /\ calls = 1 /\ created = 0 /\ io_handler_ = 0
        /\ \A h \in Handlers : handlers[h] = 0
        /\ Len(tasks) \in Nat /\ delayed \in Nat /\ Cardinality(Connecting) \in Nat
        /\ Len(tasks) + delayed + Cardinality(Connecting)
             + (IF connect_state_ = "Connecting" THEN 1 ELSE 0) = 1
    BY <1>3, OneAtATime
  <2> QED  BY <1>3, <2>1
<1>5. Connecting' = Connecting  BY <1>2 DEF Connecting
<1>6. /\ connector_ = watcher_ /\ connector_ # 0 /\ connector_ \in Fds
      /\ fd[connector_] \in {"up", "down"}
      /\ \A s \in Fds : fd[s] \in {"up", "connecting"} => s = connector_
  BY <1>1, <1>2 DEF Completed, StateMatchesSocket, OneSocket, TypeOK
<1>7. CASE ConnectedOK
  <2>1. Accepted(connector_) /\ fd' = fd /\ fd[connector_] = "up"
    BY <1>6, <1>7 DEF ConnectedOK, OnNewConnection, Refused
  <2>2. /\ delayed' = 0 /\ created' = 1 /\ io_handler_' = 1
        /\ handlers' = [handlers EXCEPT ![1] = connector_]
        /\ connect_state_' = "Connected" /\ connector_' = connector_
    BY <1>4, <1>7, <2>1 DEF ConnectedOK, Accepted
  <2>3. 1 \in Handlers  BY TCPClientConstants DEF Handlers
  <2>4. /\ handlers'[1] = connector_
        /\ \A h \in Handlers : handlers'[h] # 0 => h = 1
    BY <1>1, <1>4, <2>2, <2>3 DEF TypeOK
  <2>5. \A s \in Fds : fd[s] # "connecting"  BY <1>6, <2>1
  <2>6. OneConnect'  BY <1>1, <1>2, <1>4, <2>2 DEF OneConnect
  <2>7. OneAttempt'  BY <1>2, <1>4, <1>5, <2>2, <2>6, AttemptsNext
  <2>8. OneSocket' /\ StateMatchesSocket'
    BY <1>2, <1>6, <2>1, <2>2, <2>4, <2>5 DEF OneSocket, StateMatchesSocket
  <2> QED  BY <2>6, <2>7, <2>8 DEF ZInv
<1>8. CASE ConnectedError
  <2>1. /\ delayed' = 1 /\ connector_' = 0 /\ connect_state_' = "Invalid"
        /\ UNCHANGED <<io_handler_, handlers, created>>
        /\ fd' = fd
    BY <1>4, <1>8
       DEF ConnectedError, DoCloseFromMe, CloseByConnector, OnDestroyConnection
  <2>2. \A s \in Fds : fd[s] \notin {"up", "connecting"}
    BY <1>6, <1>8 DEF ConnectedError
  <2>3. OneConnect'  BY <1>1, <1>2, <1>4, <2>1 DEF OneConnect
  <2>4. OneAttempt'  BY <1>2, <1>4, <1>5, <2>1, <2>3, AttemptsNext
  <2>5. OneSocket' /\ StateMatchesSocket'
    BY <1>2, <1>4, <2>1, <2>2 DEF OneSocket, StateMatchesSocket
  <2> QED  BY <2>3, <2>4, <2>5 DEF ZInv
<1> QED  BY <1>7, <1>8

\* The established connection closes.
LEMMA ConnectionClosesZ ==
    ASSUME IInv, TypeOK', style = "zengine", NEW h \in Handlers, ConnectionCloses(h)
    PROVE  ZInv'
<1>1. /\ TypeOK /\ OneConnect /\ OneSocket /\ OneAttempt /\ StateMatchesSocket
      /\ IsFiniteSet(Connecting)
  BY DEF IInv
<1>2. /\ handlers[h] # 0 /\ io_handler_' = 0 /\ connector_' = 0
      /\ connect_state_' = "Invalid"
      /\ fd' = [fd EXCEPT ![handlers[h]] = "free"]
      /\ handlers' = [handlers EXCEPT ![h] = 0]
      /\ UNCHANGED <<style, watcher_, created, tasks, delayed, pc, calls>>
  BY DEF ConnectionCloses
<1>3. h = io_handler_ /\ h # 0 /\ h \in Nat
  BY <1>1, <1>2 DEF OneSocket, Handlers
<1>4. /\ connect_state_ = "Connected" /\ handlers[h] = connector_
      /\ watcher_ = 0
  BY <1>1, <1>3 DEF StateMatchesSocket
<1>5. created # 0  BY <1>1, <1>3 DEF OneConnect, TypeOK
<1>6. \A s \in Fds : fd'[s] \notin {"up", "connecting"}
  BY <1>1, <1>2, <1>4 DEF OneSocket, TypeOK
<1>7. \A g \in Handlers : handlers'[g] = 0
  BY <1>1, <1>2, <1>3 DEF OneSocket, TypeOK
<1>8. /\ Len(tasks) \in Nat /\ delayed \in Nat /\ Cardinality(Connecting) \in Nat
      /\ Attempts = Len(tasks) + delayed + Cardinality(Connecting)
                    + (IF connect_state_ = "Connecting" THEN 1 ELSE 0)
  BY <1>1, CountAttempts
<1>9. Attempts = 0  BY <1>1, <1>5 DEF OneAttempt
<1>10. Connecting' = Connecting  BY <1>2 DEF Connecting
<1>11. OneConnect'  BY <1>1, <1>2, <1>5 DEF OneConnect, TypeOK
<1>12. Len(tasks') + delayed' + Cardinality(Connecting') = 0
  BY <1>2, <1>4, <1>8, <1>9, <1>10
<1>13. OneAttempt'
  <2>1. Len(tasks') + delayed' + Cardinality(Connecting') + 0 = 0  BY <1>12
  <2> QED  BY <1>2, <1>5, <1>11, <2>1, AttemptsNext
<1>14. OneSocket' /\ StateMatchesSocket'
  BY <1>2, <1>4, <1>6, <1>7 DEF OneSocket, StateMatchesSocket
<1> QED  BY <1>11, <1>13, <1>14 DEF ZInv

\* The kernel decides the connect in progress.
LEMMA FinishZ ==
    ASSUME IInv, TypeOK', style = "zengine", NEW s \in Fds, Finish(s)
    PROVE  ZInv'
<1>1. TypeOK /\ OneConnect /\ OneSocket /\ OneAttempt /\ StateMatchesSocket
  BY DEF IInv
<1>2. /\ fd[s] = "connecting"
      /\ UNCHANGED <<style, connect_state_, connector_, watcher_, io_handler_,
                     handlers, created, tasks, delayed, pc, calls, lost>>
  BY DEF Finish
<1>3. PICK r \in {"up", "down"} : fd' = [fd EXCEPT ![s] = r]  BY DEF Finish
<1>4. s = connector_ /\ connect_state_ = "Connecting"
  BY <1>1, <1>2 DEF OneSocket
<1>5. fd'[s] = r /\ \A q \in Fds : q # s => fd'[q] = fd[q]
  BY <1>1, <1>3 DEF TypeOK
<1>6. OneSocket' /\ StateMatchesSocket'
  BY <1>1, <1>2, <1>3, <1>4, <1>5 DEF OneSocket, StateMatchesSocket
<1>7. OneConnect' /\ OneAttempt'
  BY <1>1, <1>2 DEF OneConnect, OneAttempt, Attempts, Posted
<1> QED  BY <1>6, <1>7 DEF ZInv

-----------------------------------------------------------------------------

\* Used as ZNetTCPClient does, no step breaks the agreement.
LEMMA ZStep ==
    ASSUME IInv, TypeOK', [Next]_vars
    PROVE  ZInv'
<1>1. CASE style = "zengine"
  <2>1. CASE \E t \in Callers : ConnectTest(t)  BY <1>1, <2>1, ConnectTestZ
  <2>2. CASE RetryTimer \/ \E t \in Callers : ConnectPost(t)
    BY <1>1, <2>2, PostZ
  <2>3. CASE \E t \in Callers : DisConnectTest(t) \/ DisConnectPost(t)
    BY <1>1, <2>3 DEF IInv, OneConnect, DisConnectTest, DisConnectPost
  <2>4. CASE ReConnectFails \/ ReConnectSucceeds \/ ReConnectStarts
    BY <1>1, <2>4, ReConnectZ
  <2>5. CASE RunDoClose
    <3>1. /\ tasks # <<>> /\ Head(tasks) = "DoClose"
          /\ tasks \in Seq({"ReConnect", "DoClose"})
      BY <2>5 DEF RunDoClose, NextTask, IInv, TypeOK
    <3>2. 1 \in 1 .. Len(tasks) /\ Head(tasks) = tasks[1]  BY <3>1
    <3> QED  BY <1>1, <3>1, <3>2 DEF IInv, OneConnect
  <2>6. CASE ConnectedOK \/ ConnectedError  BY <1>1, <2>6, ConnectedZ
  <2>7. CASE \E h \in Handlers : ConnectionCloses(h)
    BY <1>1, <2>7, ConnectionClosesZ
  <2>8. CASE \E s \in Fds : Finish(s)  BY <1>1, <2>8, FinishZ
  <2>9. CASE UNCHANGED vars
    BY <2>9
       DEF vars, IInv, ZInv, OneConnect, OneSocket, OneAttempt, StateMatchesSocket,
           Attempts, Posted
  <2> QED
    BY <2>1, <2>2, <2>3, <2>4, <2>5, <2>6, <2>7, <2>8, <2>9 DEF Next
<1>2. CASE style # "zengine"
  <2>1. style' = style
    BY DEF Next, ConnectTest, ConnectPost, DisConnectTest, DisConnectPost,
           ReConnectFails, ReConnectSucceeds, ReConnectStarts, RetryTimer,
           RunDoClose, ConnectedOK, ConnectedError, ConnectionCloses, Finish, vars
  <2> QED
    BY <1>2, <2>1 DEF ZInv, OneConnect, OneSocket, OneAttempt,
       StateMatchesSocket
<1> QED  BY <1>1, <1>2

\* A new client satisfies the invariant.
LEMMA InitIInv == Init => IInv
<1> SUFFICES ASSUME Init PROVE IInv
  OBVIOUS
<1> USE DEF Init
<1>1. TypeOK
  <2>1. 0 \in 0 .. MaxHandlers /\ 0 \in 0 .. MaxCalls /\ 0 \in Nat
    BY TCPClientConstants
  <2>2. fd \in [Fds -> FdStates] /\ handlers \in [Handlers -> Fds \cup {0}]
    BY DEF FdStates
  <2>3. pc \in [Callers -> {"idle", "connect", "disconnect"}]  OBVIOUS
  <2>4. tasks \in Seq({"ReConnect", "DoClose"})  OBVIOUS
  <2>5. lost \in BOOLEAN /\ style \in {"zengine", "any"}
    OBVIOUS
  <2>6. /\ connect_state_ \in ConnectStates
        /\ connector_ \in Fds \cup {0} /\ watcher_ \in Fds \cup {0}
        /\ io_handler_ \in Handlers \cup {0}
    BY DEF ConnectStates
  <2>7. created \in 0 .. MaxHandlers /\ calls \in 0 .. MaxCalls /\ delayed \in Nat
    BY <2>1
  <2> HIDE DEF Init
  <2> QED  BY <2>2, <2>3, <2>4, <2>5, <2>6, <2>7 DEF TypeOK
<1>2. Connecting = {}  BY DEF Connecting
<1>3. IsFiniteSet(Connecting) /\ Cardinality(Connecting) = 0
  BY <1>2, FS_EmptySet
<1>4. WatchIsCurrent  BY DEF WatchIsCurrent
<1>5. OneConnect  BY DEF OneConnect
<1>6. OneSocket  BY DEF OneSocket
<1>7. OneAttempt
  <2>1. Posted = 0
    <3>1. {i \in DOMAIN tasks : tasks[i] = "ReConnect"} = {}  OBVIOUS
    <3> QED  BY <3>1, FS_EmptySet DEF Posted
  <2> QED  BY <1>3, <2>1 DEF OneAttempt, Attempts, Connecting
<1>8. StateMatchesSocket  BY DEF StateMatchesSocket
<1> QED  BY <1>1, <1>3, <1>4, <1>5, <1>6, <1>7, <1>8 DEF IInv

\* The invariant, for the theorems below.
LEMMA Invariance == Spec => []IInv
<1>1. IInv /\ [Next]_vars => IInv'
  <2> SUFFICES ASSUME IInv, [Next]_vars PROVE IInv'
    OBVIOUS
  <2>1. TypeOK'  BY TypeStep DEF IInv
  <2>2. IsFiniteSet(Connecting')  BY CallersCount DEF IInv
  <2>3. WatchIsCurrent'  BY WatchStep DEF IInv
  <2>4. ZInv'  BY <2>1, ZStep
  <2> QED  BY <2>1, <2>2, <2>3, <2>4 DEF IInv, ZInv
<1> QED  BY <1>1, InitIInv, PTL DEF Spec

\* The client's variables keep their types.
THEOREM TypeCorrect == Spec => []TypeOK
<1>1. IInv => TypeOK  BY DEF IInv
<1> QED  BY <1>1, Invariance, PTL

\* Used as ZNetTCPClient does, from the call of Connect to the first
\* connection exactly one attempt is under way: posted, waiting for its timer
\* or in progress.
THEOREM AlwaysOneAttempt == Spec => []OneAttempt
<1>1. IInv => OneAttempt  BY DEF IInv
<1> QED  BY <1>1, Invariance, PTL

\* Used so, connect_state_, the watch, io_handler_ and the connector's socket
\* agree in every state.
THEOREM PiecesAgree == Spec => []StateMatchesSocket
<1>1. IInv => StateMatchesSocket  BY DEF IInv
<1> QED  BY <1>1, Invariance, PTL

\* However the client is used, OnNewConnection makes handlers only on
\* connections that are up: a completion event never stands for another
\* attempt's socket.
THEOREM HandlersOnConnections == Spec => HandlersStartUp
<1>1. IInv /\ [Next]_vars =>
        [\A h \in Handlers :
            handlers[h] = 0 /\ handlers'[h] # 0 => fd'[handlers'[h]] = "up"]_vars
  BY HandlerStartsUp DEF IInv
<1> QED  BY <1>1, Invariance, PTL DEF Spec, HandlersStartUp
=============================================================================
