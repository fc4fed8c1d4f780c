----------------------------- MODULE IOHandler ------------------------------
(***************************************************************************)
(* net::IOHandler (net/engine/io_handler.h, io_handler.cc): one connection  *)
(* served by one message loop, used by the loop's own callbacks and by      *)
(* other threads.                                                           *)
(*                                                                          *)
(* The loop thread runs one thing at a time: a posted task, a read event or *)
(* a write event.  A delegate callback is not atomic: while it runs (cb)    *)
(* the application may send on the loop thread and other threads go on.     *)
(* Other threads hold an IOHandlerPtr, post SendInternal2 with an           *)
(* Unretained pointer, and drop their reference when they like.             *)
(*                                                                          *)
(* The reference count is the set of its owners: "self" (the AddRef of      *)
(* Create), "callback" (the temporary IOHandlerPtr made for a delegate      *)
(* call), "creator" (the local IOHandlerPtr around Create on the loop) and  *)
(* the threads.  write_buf_ is the content of an IOBuffer (module IOBuffer  *)
(* shows that it is a byte queue).  The received bytes are left out: read   *)
(* data is a number of chunks.                                              *)
(*                                                                          *)
(* The kernel's side of the socket is external: room is the free space of   *)
(* the send buffer, wire the bytes accepted for the peer.                   *)
(***************************************************************************)
EXTENDS Integers, Sequences

CONSTANTS
    Threads,    \* threads other than the loop's
    Lengths,    \* the lengths of the strings sent
    SndBuf,     \* size of the kernel's send buffer
    UInt32,     \* number of values of uint32_t
    MaxSends,   \* bound: sends in a behaviour
    MaxInbound  \* bound: received chunks not read yet

ASSUME IOHandlerConstants ==
    /\ Lengths \subseteq Nat \ {0}
    /\ SndBuf \in Nat \ {0}
    /\ UInt32 \in Nat
    /\ \A n \in Lengths : n + 1 < UInt32
    /\ MaxSends \in Nat
    /\ MaxInbound \in Nat

ASSUME ThreadsAreOwners ==
    Threads \cap {"self", "callback", "creator", "loop"} = {}

VARIABLES
    phase,              \* "new" before Create, "live", "freed" after ~IOHandler
    owners,             \* who holds a reference
    socket_,            \* "open" or "invalid" (kInvalidSocket)
    read_wait_state_, write_wait_state_,
    read_watcher_, write_watcher_,  \* is the fd watched?
    write_buf_,
    cb,                 \* the delegate callback being run, or "none"
    tasks,              \* the loop's task queue, this handler's tasks only
    room, wire,         \* kernel: free send space, bytes taken for the peer
    inbound, peer,      \* kernel: chunks to read; "open", "fin" or "reset"
    sender,             \* history: who made the m-th send
    stream,             \* history: bytes accepted by SendInternal, in order
    remaining_ok,       \* history: DCHECK(remaining <= data_len) never failed
    closed_calls,       \* history: OnConnectionClosed notifications
    stale               \* history: methods run on a freed handler

handler == <<phase, owners, socket_, read_wait_state_, write_wait_state_,
             read_watcher_, write_watcher_, write_buf_, cb>>
kernel == <<room, wire, inbound, peer>>
history == <<sender, stream, remaining_ok, closed_calls, stale>>
vars == <<handler, kernel, history, tasks>>

WaitStates == {"NOT_WAITING", "WAITING_READ", "WAITING_WRITE"}
Callbacks == {"none", "OnNewConnection", "OnDataReceived", "OnConnectionClosed"}
Owners == {"self", "callback", "creator"} \cup Threads

\* The k-th byte of the m-th send, and a byte from outside any send.
Data(m, n) == [k \in 1 .. n |-> <<m, k>>]
Junk == <<0, 0>>

CreatedTask == [op |-> "OnCreated", data |-> <<>>]
SendTask(d) == [op |-> "SendInternal2", data |-> d]

IsWriting == write_wait_state_ = "WAITING_WRITE"

\* OnNewConnection has been delivered: the application knows the handler.
Announced == read_wait_state_ = "WAITING_READ"

Init ==
    /\ phase = "new"
    /\ owners = {}
    /\ socket_ = "open"
    /\ read_wait_state_ = "NOT_WAITING"
    /\ write_wait_state_ = "NOT_WAITING"
    /\ read_watcher_ = FALSE
    /\ write_watcher_ = FALSE
    /\ write_buf_ = <<>>
    /\ cb = "none"
    /\ tasks = <<>>
    /\ room = SndBuf
    /\ wire = <<>>
    /\ inbound = 0
    /\ peer = "open"
    /\ sender = <<>>
    /\ stream = <<>>
    /\ remaining_ok = TRUE
    /\ closed_calls = 0
    /\ stale = {}

-----------------------------------------------------------------------------
(* Creation.                                                                *)

\* Watch for reads, then tell the delegate.
OnCreated(holders) ==
    /\ read_watcher_' = TRUE
    /\ read_wait_state_' = "WAITING_READ"
    /\ cb' = "OnNewConnection"
    /\ owners' = holders \cup {"callback"}
    /\ UNCHANGED <<socket_, write_wait_state_, write_watcher_, write_buf_>>

\* Create on the handler's own loop (TCPClient, TCPServer without a pool).
CreateOnLoop ==
    /\ phase = "new"
    /\ phase' = "live"
    /\ OnCreated({"self", "creator"})
    /\ UNCHANGED <<tasks, kernel, history>>

\* Mutant: Create forgets AddRef, only the creator's pointer keeps it alive.
CreateFromWithoutAddRef(t) ==
    /\ phase = "new"
    /\ phase' = "live"
    /\ owners' = {t}
    /\ tasks' = Append(tasks, CreatedTask)
    /\ UNCHANGED <<socket_, read_wait_state_, write_wait_state_, read_watcher_,
                   write_watcher_, write_buf_, cb, kernel, history>>

\* Create on the acceptor's thread for a reactor's loop: OnCreated is posted;
\* the creating thread still holds its local IOHandlerPtr.
CreateFrom(t) ==
    /\ phase = "new"
    /\ phase' = "live"
    /\ owners' = {"self", t}
    /\ tasks' = Append(tasks, CreatedTask)
    /\ UNCHANGED <<socket_, read_wait_state_, write_wait_state_, read_watcher_,
                   write_watcher_, write_buf_, cb, kernel, history>>

RunOnCreated ==
    /\ phase = "live" /\ cb = "none"
    /\ tasks # <<>> /\ Head(tasks).op = "OnCreated"
    /\ tasks' = Tail(tasks)
    /\ OnCreated(owners)
    /\ UNCHANGED <<phase, kernel, history>>

-----------------------------------------------------------------------------
(* Destruction and close.                                                   *)

\* Mutant: the descriptor is closed while libevent still watches it.
CloseSocketWatched == UNCHANGED <<read_watcher_, write_watcher_>>

\* CloseSocket does nothing for an invalid socket; otherwise both watchers
\* are stopped before the descriptor is closed.
CloseSocket ==
    IF socket_ = "open"
    THEN read_watcher_' = FALSE /\ write_watcher_' = FALSE
    ELSE UNCHANGED <<read_watcher_, write_watcher_>>

\* The last Release deletes the handler.
Release(gone) ==
    /\ owners' = owners \ gone
    /\ phase' = IF owners \subseteq gone THEN "freed" ELSE phase

\* Close() up to the delegate's OnConnectionClosed.
BeginClose ==
    /\ cb' = "OnConnectionClosed"
    /\ owners' = owners \cup {"callback"}
    /\ closed_calls' = closed_calls + 1
    /\ UNCHANGED phase

\* Mutant: the close marks the handler as WAITING_CLOSE.
EndCloseMarking ==
    /\ cb = "OnConnectionClosed"
    /\ cb' = "none"
    /\ CloseSocket
    /\ socket_' = "invalid"
    /\ Release({"callback", "creator", "self"})
    /\ write_wait_state_' = "WAITING_CLOSE"
    /\ UNCHANGED <<read_wait_state_, write_buf_, tasks, kernel, history>>

\* The rest of Close() when OnConnectionClosed returns: close the socket and
\* give up the handler's own reference.
EndClose ==
    /\ cb = "OnConnectionClosed"
    /\ cb' = "none"
    /\ CloseSocket
    /\ socket_' = "invalid"
    /\ Release({"callback", "creator", "self"})
    /\ UNCHANGED <<read_wait_state_, write_wait_state_, write_buf_, tasks,
                   kernel, history>>

\* A thread drops its IOHandlerPtr; if it was the last, ~IOHandler runs there.
Drop(t) ==
    /\ t \in owners
    /\ Release({t})
    /\ IF owners = {t}
       THEN CloseSocket
       ELSE UNCHANGED <<read_watcher_, write_watcher_>>
    /\ UNCHANGED <<socket_, read_wait_state_, write_wait_state_, write_buf_,
                   cb, tasks, kernel, history>>

\* A thread obtains an IOHandlerPtr from the application, which knows the
\* handler from OnNewConnection until OnConnectionClosed.
Hold(t) ==
    /\ phase = "live" /\ Announced /\ closed_calls = 0
    /\ t \notin owners
    /\ owners' = owners \cup {t}
    /\ UNCHANGED <<phase, socket_, read_wait_state_, write_wait_state_,
                   read_watcher_, write_watcher_, write_buf_, cb, tasks,
                   kernel, history>>

-----------------------------------------------------------------------------
(* Sending.                                                                 *)

\* What send(2) may return for len bytes: as much as there is room for, or
\* -1 when there is none, when the peer reset, or on an invalid socket.
SendResults(len) ==
    LET most == IF len <= room THEN len ELSE room
    IN  IF socket_ # "open" THEN {-1}
        ELSE (1 .. most) \cup (IF room = 0 \/ peer = "reset" THEN {-1} ELSE {})

\* uint32_t nwrote: -1 becomes the largest value, and is not negative.
AsUInt32(n) == n % UInt32

\* remaining = data_len - nwrote, in uint32_t arithmetic.
Remaining(data_len, nwrote) == (data_len - nwrote) % UInt32

\* What data + nwrote points at, remaining bytes long.  After a failed send
\* that is outside the string: one byte in front of it where pointers wrap
\* at 2^32, only foreign memory otherwise.
Leftovers(d, n) ==
    IF n >= 0 THEN {SubSeq(d, n + 1, Len(d))}
    ELSE {<<Junk>> \o d, [k \in 1 .. Len(d) + 1 |-> Junk]}

\* Mutant: the watch is forgotten, only the state is set.
BufferUnwatched(rest) ==
    /\ write_buf_' = write_buf_ \o rest
    /\ write_wait_state_' = "WAITING_WRITE"
    /\ UNCHANGED write_watcher_

\* write_buf_.Write(rest), and watch for writability unless already writing.
Buffer(rest) ==
    /\ write_buf_' = write_buf_ \o rest
    /\ IF IsWriting
       THEN UNCHANGED <<write_wait_state_, write_watcher_>>
       ELSE /\ write_watcher_' = (socket_ = "open")
            /\ write_wait_state_' = "WAITING_WRITE"

\* Mutant: data is sent directly although older data is buffered.
MaySendOvertaking == TRUE

\* Nothing may overtake what is still buffered.
MaySendDirectly == ~IsWriting /\ write_buf_ = <<>>

\* SendInternal: send at once if nothing is buffered, buffer what is left.
SendInternal(d) ==
    /\ stream' = stream \o d
    /\ IF MaySendDirectly
       THEN \E n \in SendResults(Len(d)) :
              LET nwrote == AsUInt32(n)
                  remaining == Remaining(Len(d), nwrote)
              IN  /\ wire' = IF n > 0 THEN wire \o SubSeq(d, 1, n) ELSE wire
                  /\ room' = IF n > 0 THEN room - n ELSE room
                  /\ remaining_ok' = (remaining_ok /\ remaining <= Len(d))
                  /\ IF remaining > 0
                     THEN \E rest \in Leftovers(d, n) : Buffer(rest)
                     ELSE UNCHANGED <<write_buf_, write_wait_state_,
                                      write_watcher_>>
       ELSE /\ Buffer(d)
            /\ UNCHANGED <<wire, room, remaining_ok>>
    /\ UNCHANGED <<phase, owners, socket_, read_wait_state_, read_watcher_, cb,
                   inbound, peer, closed_calls, stale>>

\* SendData on the loop thread: inside a callback, or from another of the
\* loop's tasks while the application knows the handler.
SendOnLoop ==
    /\ Announced
    /\ closed_calls = 0 \/ cb = "OnConnectionClosed"
    /\ Len(sender) < MaxSends
    /\ sender' = Append(sender, "loop")
    /\ \E n \in Lengths : SendInternal(Data(Len(sender'), n))
    /\ UNCHANGED tasks

\* Mutant: the newest task is run first.
SendFromLifo(t) ==
    /\ t \in owners
    /\ Len(sender) < MaxSends
    /\ sender' = Append(sender, t)
    /\ \E n \in Lengths :
          tasks' = <<SendTask(Data(Len(sender'), n))>> \o tasks
    /\ UNCHANGED <<handler, kernel, stream, remaining_ok, closed_calls, stale>>

\* SendData on another thread: the string is copied into a posted task.
SendFrom(t) ==
    /\ t \in owners
    /\ Len(sender) < MaxSends
    /\ sender' = Append(sender, t)
    /\ \E n \in Lengths :
          tasks' = Append(tasks, SendTask(Data(Len(sender'), n)))
    /\ UNCHANGED <<handler, kernel, stream, remaining_ok, closed_calls, stale>>

RunSendInternal2 ==
    /\ phase = "live" /\ cb = "none"
    /\ tasks # <<>> /\ Head(tasks).op = "SendInternal2"
    /\ tasks' = Tail(tasks)
    /\ SendInternal(Head(tasks).data)
    /\ UNCHANGED sender

\* The bound pointer is Unretained: the task runs on a deleted handler.
RunStaleTask ==
    /\ phase = "freed"
    /\ tasks # <<>>
    /\ tasks' = Tail(tasks)
    /\ stale' = stale \cup {Head(tasks).op}
    /\ UNCHANGED <<handler, kernel, sender, stream, remaining_ok, closed_calls>>

\* Mutant: the watch is dropped after a partial write.
OnWriteOnce ==
    /\ cb = "none" /\ write_watcher_ /\ IsWriting
    /\ room > 0 \/ peer = "reset"
    /\ \E n \in SendResults(Len(write_buf_)) :
          /\ n > 0
          /\ wire' = wire \o SubSeq(write_buf_, 1, n)
          /\ room' = room - n
          /\ write_buf_' = SubSeq(write_buf_, n + 1, Len(write_buf_))
    /\ write_watcher_' = FALSE
    /\ write_wait_state_' = "NOT_WAITING"
    /\ UNCHANGED <<phase, owners, socket_, read_wait_state_, read_watcher_, cb,
                   tasks, inbound, peer, history>>

\* OnFileCanWriteWithoutBlocking, OnWrite: retry what is buffered; a failed
\* send is only logged.
OnWrite ==
    /\ cb = "none" /\ write_watcher_ /\ IsWriting
    /\ room > 0 \/ peer = "reset"
    /\ \E n \in SendResults(Len(write_buf_)) :
          IF n > 0
          THEN /\ wire' = wire \o SubSeq(write_buf_, 1, n)
               /\ room' = room - n
               /\ write_buf_' = SubSeq(write_buf_, n + 1, Len(write_buf_))
               /\ IF n = Len(write_buf_)
                  THEN /\ write_watcher_' = FALSE
                       /\ write_wait_state_' = "NOT_WAITING"
                  ELSE UNCHANGED <<write_watcher_, write_wait_state_>>
          ELSE UNCHANGED <<wire, room, write_buf_, write_watcher_,
                           write_wait_state_>>
    /\ UNCHANGED <<phase, owners, socket_, read_wait_state_, read_watcher_, cb,
                   tasks, inbound, peer, history>>

-----------------------------------------------------------------------------
(* Receiving.                                                               *)

\* OnFileCanReadWithoutBlocking, Read with n > 0: hand the data to the delegate.
ReadData ==
    /\ cb = "none" /\ read_watcher_ /\ read_wait_state_ = "WAITING_READ"
    /\ inbound > 0
    /\ inbound' = inbound - 1
    /\ cb' = "OnDataReceived"
    /\ owners' = owners \cup {"callback"}
    /\ UNCHANGED <<phase, socket_, read_wait_state_, write_wait_state_,
                   read_watcher_, write_watcher_, write_buf_, tasks, room,
                   wire, peer, history>>

\* Mutant: a failed read is only logged.
ReadEndFinOnly ==
    /\ cb = "none" /\ read_watcher_ /\ read_wait_state_ = "WAITING_READ"
    /\ inbound = 0 /\ peer = "fin"
    /\ BeginClose
    /\ UNCHANGED <<socket_, read_wait_state_, write_wait_state_, read_watcher_,
                   write_watcher_, write_buf_, tasks, kernel, sender, stream,
                   remaining_ok, stale>>

\* Read with n = 0 (fin) or n < 0 (reset): close.
ReadEnd ==
    /\ cb = "none" /\ read_watcher_ /\ read_wait_state_ = "WAITING_READ"
    /\ inbound = 0 /\ peer # "open"
    /\ BeginClose
    /\ UNCHANGED <<socket_, read_wait_state_, write_wait_state_, read_watcher_,
                   write_watcher_, write_buf_, tasks, kernel, sender, stream,
                   remaining_ok, stale>>

\* OnNewConnection or OnDataReceived returns 0: back to the loop.
ReturnZero ==
    /\ cb \in {"OnNewConnection", "OnDataReceived"}
    /\ cb' = "none"
    /\ owners' = owners \ {"callback", "creator"}
    /\ UNCHANGED <<phase, socket_, read_wait_state_, write_wait_state_,
                   read_watcher_, write_watcher_, write_buf_, tasks, kernel,
                   history>>

\* It returns anything else: OnCreated or Read calls Close.
ReturnNonZero ==
    /\ cb \in {"OnNewConnection", "OnDataReceived"}
    /\ BeginClose
    /\ UNCHANGED <<socket_, read_wait_state_, write_wait_state_, read_watcher_,
                   write_watcher_, write_buf_, tasks, kernel, sender, stream,
                   remaining_ok, stale>>

-----------------------------------------------------------------------------
(* The peer and the network, external.                                      *)

\* The peer reads a byte.
Drain ==
    /\ peer = "open" /\ room < SndBuf
    /\ room' = room + 1
    /\ UNCHANGED <<handler, tasks, wire, inbound, peer, history>>

PeerSends ==
    /\ peer = "open" /\ socket_ = "open" /\ inbound < MaxInbound
    /\ inbound' = inbound + 1
    /\ UNCHANGED <<handler, tasks, room, wire, peer, history>>

PeerEnds ==
    /\ peer = "open"
    /\ peer' \in {"fin", "reset"}
    /\ UNCHANGED <<handler, tasks, room, wire, inbound, history>>

-----------------------------------------------------------------------------

LoopStep ==
    \/ RunOnCreated \/ RunSendInternal2 \/ RunStaleTask
    \/ OnWrite \/ ReadData \/ ReadEnd
    \/ ReturnZero \/ ReturnNonZero \/ EndClose

Next ==
    \/ CreateOnLoop
    \/ SendOnLoop
    \/ LoopStep
    \/ \E t \in Threads : CreateFrom(t) \/ Hold(t) \/ Drop(t) \/ SendFrom(t)
    \/ Drain \/ PeerSends \/ PeerEnds

Spec == Init /\ [][Next]_vars

\* Every iteration of the loop runs its task queue and dispatches each ready
\* descriptor, so none of the three waits for ever behind the others (strong
\* fairness, because a running callback disables them); callbacks return;
\* the peer keeps reading until it ends the connection.
Fairness ==
    /\ SF_vars(RunOnCreated \/ RunSendInternal2 \/ RunStaleTask)
    /\ SF_vars(OnWrite)
    /\ SF_vars(ReadData \/ ReadEnd)
    /\ WF_vars(ReturnZero \/ ReturnNonZero)
    /\ WF_vars(EndClose)
    /\ WF_vars(Drain)

FairSpec == Spec /\ Fairness

-----------------------------------------------------------------------------

TypeOK ==
    /\ phase \in {"new", "live", "freed"}
    /\ owners \subseteq Owners
    /\ socket_ \in {"open", "invalid"}
    /\ read_wait_state_ \in WaitStates
    /\ write_wait_state_ \in WaitStates
    /\ read_watcher_ \in BOOLEAN
    /\ write_watcher_ \in BOOLEAN
    /\ write_buf_ \in Seq(Nat \X Nat)
    /\ cb \in Callbacks
    /\ tasks \in Seq([op : {"OnCreated", "SendInternal2"},
                      data : Seq(Nat \X Nat)])
    /\ room \in 0 .. SndBuf
    /\ wire \in Seq(Nat \X Nat)
    /\ inbound \in Nat
    /\ peer \in {"open", "fin", "reset"}
    /\ sender \in Seq(Threads \cup {"loop"})
    /\ stream \in Seq(Nat \X Nat)
    /\ remaining_ok \in BOOLEAN
    /\ closed_calls \in Nat
    /\ stale \subseteq {"OnCreated", "SendInternal2"}

\* While the connection is open, the handler waits for writability exactly
\* when it has unsent bytes, and libevent watches exactly then: no stalled
\* buffer (a lost watch) and no busy loop (a watch with nothing to write).
WritingIffBuffered ==
    socket_ = "open" =>
        /\ IsWriting <=> write_buf_ # <<>>
        /\ write_watcher_ <=> IsWriting

\* The bytes taken by the kernel followed by those buffered are exactly the
\* bytes accepted by SendInternal, in order, whichever of them were sent
\* directly and whichever through write_buf_ (as long as no send failed).
StreamIntact ==
    remaining_ok => wire \o write_buf_ = stream

\* The sends of one thread reach the stream in the order it made them, and
\* the bytes of a send stay together, although threads post to the loop's
\* queue and the loop sends directly.
SendsOrdered ==
    \A i, j \in DOMAIN stream :
        i < j =>
            LET a == stream[i]
                b == stream[j]
            IN  /\ sender[a[1]] = sender[b[1]] =>
                      a[1] < b[1] \/ (a[1] = b[1] /\ a[2] < b[2])
                /\ a[1] = b[1] => \A k \in i .. j : stream[k][1] = a[1]

\* A freed handler has closed its socket and is watched by nobody, so no
\* event reaches freed memory; ~IOHandler never closes a live connection.
FreedIsQuiescent ==
    phase = "freed" =>
        /\ socket_ = "invalid"
        /\ ~read_watcher_ /\ ~write_watcher_
        /\ cb = "none"

\* The posted OnCreated always finds its handler alive: of the Unretained
\* pointers only those of posted sends can outlive it.
OnlySendsGoStale == stale \subseteq {"SendInternal2"}

\* The delegate hears of the close at most once, whatever mixture of peer
\* close, failed reads and non-zero callback results leads to it, and the
\* handler keeps its own reference until then.
ClosedOnce ==
    /\ closed_calls <= 1
    /\ phase = "live" /\ socket_ = "open" => "self" \in owners
    /\ socket_ = "invalid" => closed_calls = 1 /\ "self" \notin owners

\* DCHECK(remaining <= data_len) of SendInternal (io_handler.cc:252).
RemainingWithinData == remaining_ok

\* After OnConnectionClosed was called nothing is delivered to the delegate
\* any more.
NothingAfterClosed ==
    [][closed_calls = 1 => cb' \in {cb, "none"}]_vars

\* What is buffered is sent in the end, unless the connection closes: a
\* write event is never lost between SendInternal and OnWrite.
BufferedIsFlushed ==
    write_buf_ # <<>> ~> (write_buf_ = <<>> \/ socket_ = "invalid")

\* When the peer ends a served connection, the handler closes it.
PeerEndIsNoticed ==
    (peer # "open" /\ Announced) ~> socket_ = "invalid"
=============================================================================
