-------------------------- MODULE IOHandler_proofs --------------------------
(***************************************************************************)
(* For any number of threads, strings of any length, any send buffer and    *)
(* any number of sends: the life cycle of an IOHandler is sound (closed at  *)
(* most once, quiescent when freed, only posted sends can go stale), it     *)
(* waits for writability exactly when it has unsent bytes, no byte is lost, *)
(* repeated or reordered between SendInternal and the kernel, and the sends *)
(* of a thread keep their order.                                            *)
(***************************************************************************)
EXTENDS IOHandler, SequenceTheorems, TLAPS

Byte == Nat \X Nat
Task == [op : {"OnCreated", "SendInternal2"}, data : Seq(Byte)]

-----------------------------------------------------------------------------
(* Arithmetic of uint32_t, and strings.                                     *)

\* A value in range is its own remainder; one a modulus below comes back up.
LEMMA ModSmall ==
    ASSUME NEW m \in Nat \ {0}, NEW a \in 0 .. m - 1
    PROVE  a % m = a /\ (a - m) % m = a
  OBVIOUS

\* What SendInternal computes from send's result: the unsent length after a
\* (partial) success, one more than everything after a failure.
LEMMA RemainingValue ==
    ASSUME NEW len \in Lengths, NEW n \in Int, n = -1 \/ n \in 1 .. len
    PROVE  Remaining(len, AsUInt32(n)) = IF n = -1 THEN len + 1 ELSE len - n
<1>0. len \in Nat \ {0} /\ UInt32 \in Nat \ {0} /\ len + 1 < UInt32
  BY IOHandlerConstants
<1>1. CASE n = -1
  <2>1. UInt32 - 1 \in 0 .. UInt32 - 1 /\ (UInt32 - 1) - UInt32 = -1
    BY <1>0
  <2>2. AsUInt32(n) = UInt32 - 1
    BY <1>0, <1>1, <2>1, ModSmall DEF AsUInt32
  <2>3. len + 1 \in 0 .. UInt32 - 1 /\ len - (UInt32 - 1) = (len + 1) - UInt32
    BY <1>0
  <2> QED  BY <1>0, <1>1, <2>2, <2>3, ModSmall DEF Remaining
<1>2. CASE n \in 1 .. len
  <2>1. n \in 0 .. UInt32 - 1 /\ len - n \in 0 .. UInt32 - 1 /\ n # -1
    BY <1>0, <1>2
  <2>2. AsUInt32(n) = n  BY <1>0, <2>1, ModSmall DEF AsUInt32
  <2> QED  BY <1>0, <2>1, <2>2, ModSmall, SMTT(30) DEF Remaining
<1> QED  BY <1>1, <1>2

\* Splitting a string.
LEMMA SplitSeq ==
    ASSUME NEW d \in Seq(Byte), NEW n \in 0 .. Len(d)
    PROVE  /\ SubSeq(d, 1, n) \in Seq(Byte) /\ Len(SubSeq(d, 1, n)) = n
           /\ SubSeq(d, n + 1, Len(d)) \in Seq(Byte)
           /\ Len(SubSeq(d, n + 1, Len(d))) = Len(d) - n
           /\ SubSeq(d, 1, n) \o SubSeq(d, n + 1, Len(d)) = d
<1>1. \A i \in 1 .. Len(d) : d[i] \in Byte
  BY ElementOfSeq
<1>2. Len(d) \in Nat /\ n \in Nat /\ n <= Len(d)
  OBVIOUS
<1>3. /\ SubSeq(d, 1, n) \in Seq(Byte)
      /\ Len(SubSeq(d, 1, n)) = IF 1 <= n THEN n - 1 + 1 ELSE 0
  BY <1>1, <1>2, SubSeqProperties
<1>4. /\ SubSeq(d, n + 1, Len(d)) \in Seq(Byte)
      /\ Len(SubSeq(d, n + 1, Len(d))) =
            IF n + 1 <= Len(d) THEN Len(d) - (n + 1) + 1 ELSE 0
  BY <1>1, <1>2, SubSeqProperties
<1>5. SubSeq(d, 1, n) \o SubSeq(d, n + 1, Len(d)) = SubSeq(d, 1, Len(d))
  <2>1. /\ 1 \in 1 .. Len(d) + 1 /\ n \in 1 - 1 .. Len(d)
        /\ Len(d) \in n .. Len(d)
    BY <1>2
  <2> QED  BY <2>1, ConcatAdjacentSubSeq
<1>6. SubSeq(d, 1, Len(d)) = d
  BY SubSeqFull
<1>7. Len(SubSeq(d, 1, n)) = n  BY <1>2, <1>3
<1>8. Len(SubSeq(d, n + 1, Len(d))) = Len(d) - n  BY <1>2, <1>4
<1> QED  BY <1>3, <1>4, <1>5, <1>6, <1>7, <1>8

\* Joining three strings.
LEMMA JoinAssociative ==
    \A a, b, c \in Seq(Byte) : (a \o b) \o c = a \o (b \o c)
  BY ConcatAssociative

-----------------------------------------------------------------------------
(* Types.                                                                   *)

\* The string of a send.
LEMMA DataType ==
    ASSUME NEW m \in Nat, NEW n \in Lengths
    PROVE  Data(m, n) \in Seq(Byte) /\ Len(Data(m, n)) = n
<1>1. n \in Nat  BY IOHandlerConstants
<1>2. Data(m, n) \in [1 .. n -> Byte]  BY <1>1 DEF Data, Byte
<1>3. Data(m, n) \in Seq(Byte)  BY <1>1, <1>2, SeqDef
<1> QED  BY <1>1, <1>2, <1>3, LenProperties

\* What is buffered after a send that took n bytes, or failed.
LEMMA LeftoversType ==
    ASSUME NEW d \in Seq(Byte), NEW n \in Int, n = -1 \/ n \in 1 .. Len(d),
           NEW rest \in Leftovers(d, n)
    PROVE  /\ rest \in Seq(Byte)
           /\ Len(rest) = IF n = -1 THEN Len(d) + 1 ELSE Len(d) - n
           /\ n # -1 => SubSeq(d, 1, n) \o rest = d
<1>0. Len(d) \in Nat  OBVIOUS
<1>1. CASE n \in 1 .. Len(d)
  <2>1. n >= 0 /\ n \in 0 .. Len(d) /\ n # -1  BY <1>0, <1>1
  <2>2. rest = SubSeq(d, n + 1, Len(d))  BY <2>1 DEF Leftovers
  <2> QED  BY <2>1, <2>2, SplitSeq
<1>2. CASE n = -1
  <2>0. Junk \in Byte  BY DEF Junk, Byte
  <2>1. ~(n >= 0)  BY <1>2
  <2>2. CASE rest = <<Junk>> \o d
    <3>1. <<Junk>> \in Seq(Byte) /\ Len(<<Junk>>) = 1  BY <2>0
    <3>2. rest \in Seq(Byte) /\ Len(rest) = 1 + Len(d)
      BY <2>2, <3>1, ConcatProperties
    <3> QED  BY <1>0, <1>2, <3>2
  <2>3. CASE rest = [k \in 1 .. Len(d) + 1 |-> Junk]
    <3>1. rest \in [1 .. Len(d) + 1 -> Byte] /\ Len(d) + 1 \in Nat
      BY <1>0, <2>0, <2>3
    <3>2. rest \in Seq(Byte)  BY <3>1, SeqDef
    <3>3. Len(rest) = Len(d) + 1  BY <3>1, <3>2, LenProperties
    <3> QED  BY <1>2, <3>2, <3>3
  <2> QED  BY <2>1, <2>2, <2>3 DEF Leftovers
<1> QED  BY <1>1, <1>2

\* send(2) returns -1 or takes at least a byte and no more than fits.
LEMMA SendResultsType ==
    ASSUME NEW len \in Nat, room \in 0 .. SndBuf, NEW n \in SendResults(len)
    PROVE  /\ n \in Int
           /\ n = -1 \/ (n \in 1 .. len /\ n <= room)
  BY IOHandlerConstants DEF SendResults

\* Buffering a string.
LEMMA BufferType ==
    ASSUME TypeOK, NEW rest \in Seq(Byte), Buffer(rest)
    PROVE  /\ write_buf_' \in Seq(Byte)
           /\ write_wait_state_' \in WaitStates
           /\ write_watcher_' \in BOOLEAN
<1>1. write_buf_ \in Seq(Byte)  BY DEF TypeOK, Byte
<1>2. write_buf_' \in Seq(Byte)
  <2>1. write_buf_' = write_buf_ \o rest  BY DEF Buffer
  <2> QED  BY <1>1, <2>1, ConcatProperties
<1>3. CASE IsWriting
  BY <1>2, <1>3 DEF Buffer, TypeOK
<1>4. CASE ~IsWriting
  BY <1>2, <1>4 DEF Buffer, WaitStates
<1> QED  BY <1>3, <1>4

\* SendInternal, whatever send returns.
LEMMA SendInternalType ==
    ASSUME TypeOK, NEW d \in Seq(Byte), SendInternal(d)
    PROVE  /\ write_buf_' \in Seq(Byte) /\ wire' \in Seq(Byte)
           /\ stream' \in Seq(Byte) /\ room' \in 0 .. SndBuf
           /\ remaining_ok' \in BOOLEAN
           /\ write_wait_state_' \in WaitStates
           /\ write_watcher_' \in BOOLEAN
<1>0. /\ write_buf_ \in Seq(Byte) /\ wire \in Seq(Byte) /\ stream \in Seq(Byte)
      /\ room \in 0 .. SndBuf /\ Len(d) \in Nat /\ SndBuf \in Nat
  BY IOHandlerConstants DEF TypeOK, Byte
<1>1. stream' \in Seq(Byte)
  <2>1. stream' = stream \o d  BY DEF SendInternal
  <2> QED  BY <1>0, <2>1, ConcatProperties
<1>2. CASE MaySendDirectly
  <2>1. PICK n \in SendResults(Len(d)) :
          LET remaining == Remaining(Len(d), AsUInt32(n))
          IN  /\ wire' = IF n > 0 THEN wire \o SubSeq(d, 1, n) ELSE wire
              /\ room' = IF n > 0 THEN room - n ELSE room
              /\ remaining_ok' = (remaining_ok /\ remaining <= Len(d))
              /\ IF remaining > 0
                 THEN \E rest \in Leftovers(d, n) : Buffer(rest)
                 ELSE UNCHANGED <<write_buf_, write_wait_state_, write_watcher_>>
    BY <1>2 DEF SendInternal
  <2>2. n \in Int /\ (n = -1 \/ (n \in 1 .. Len(d) /\ n <= room))
    BY <1>0, SendResultsType
  <2>3. /\ write_buf_' \in Seq(Byte) /\ write_wait_state_' \in WaitStates
        /\ write_watcher_' \in BOOLEAN
    <3>1. CASE \E rest \in Leftovers(d, n) : Buffer(rest)
      <4>1. PICK rest \in Leftovers(d, n) : Buffer(rest)  BY <3>1
      <4>2. rest \in Seq(Byte)  BY <2>2, LeftoversType
      <4> QED  BY <4>1, <4>2, BufferType
    <3>2. CASE UNCHANGED <<write_buf_, write_wait_state_, write_watcher_>>
      BY <1>0, <3>2 DEF TypeOK
    <3> QED  BY <2>1, <3>1, <3>2
  <2>4. room' \in 0 .. SndBuf
    BY <1>0, <2>1, <2>2
  <2>5. wire' \in Seq(Byte)
    <3>1. CASE n \in 1 .. Len(d)
      <4>1. n \in 0 .. Len(d) /\ n > 0  BY <1>0, <3>1
      <4>2. SubSeq(d, 1, n) \in Seq(Byte)  BY <4>1, SplitSeq
      <4>3. wire' = wire \o SubSeq(d, 1, n)  BY <2>1, <4>1
      <4> QED  BY <1>0, <4>2, <4>3, ConcatProperties
    <3>2. CASE n = -1
      BY <1>0, <2>1, <3>2
    <3> QED  BY <2>2, <3>1, <3>2
  <2>6. remaining_ok' \in BOOLEAN  BY <2>1
  <2> QED  BY <1>1, <2>3, <2>4, <2>5, <2>6
<1>3. CASE ~MaySendDirectly
  <2>1. Buffer(d) /\ UNCHANGED <<wire, room, remaining_ok>>
    BY <1>3 DEF SendInternal
  <2>2. remaining_ok \in BOOLEAN  BY DEF TypeOK
  <2> QED  BY <1>0, <1>1, <2>1, <2>2, BufferType
<1> QED  BY <1>2, <1>3

\* OnWrite: what is left of write_buf_.
LEMMA OnWriteType ==
    ASSUME TypeOK, OnWrite
    PROVE  /\ write_buf_' \in Seq(Byte) /\ wire' \in Seq(Byte)
           /\ room' \in 0 .. SndBuf
           /\ write_wait_state_' \in WaitStates
           /\ write_watcher_' \in BOOLEAN
<1>0. /\ write_buf_ \in Seq(Byte) /\ wire \in Seq(Byte)
      /\ room \in 0 .. SndBuf /\ Len(write_buf_) \in Nat /\ SndBuf \in Nat
      /\ write_wait_state_ \in WaitStates /\ write_watcher_ \in BOOLEAN
  BY IOHandlerConstants DEF TypeOK, Byte
<1>1. PICK n \in SendResults(Len(write_buf_)) :
        IF n > 0
        THEN /\ wire' = wire \o SubSeq(write_buf_, 1, n)
             /\ room' = room - n
             /\ write_buf_' = SubSeq(write_buf_, n + 1, Len(write_buf_))
             /\ IF n = Len(write_buf_)
                THEN /\ write_watcher_' = FALSE
                     /\ write_wait_state_' = "NOT_WAITING"
                ELSE UNCHANGED <<write_watcher_, write_wait_state_>>
        ELSE UNCHANGED <<wire, room, write_buf_, write_watcher_,
                         write_wait_state_>>
  BY DEF OnWrite
<1>2. n \in Int /\ (n = -1 \/ (n \in 1 .. Len(write_buf_) /\ n <= room))
  BY <1>0, SendResultsType
<1>3. CASE n = -1
  BY <1>0, <1>1, <1>3
<1>4. CASE n \in 1 .. Len(write_buf_)
  <2>1. n \in 0 .. Len(write_buf_) /\ n > 0 /\ n # -1  BY <1>0, <1>4
  <2>2. /\ SubSeq(write_buf_, 1, n) \in Seq(Byte)
        /\ SubSeq(write_buf_, n + 1, Len(write_buf_)) \in Seq(Byte)
    BY <1>0, <2>1, SplitSeq
  <2>3. wire' \in Seq(Byte)
    <3>1. wire' = wire \o SubSeq(write_buf_, 1, n)  BY <1>1, <2>1
    <3> QED  BY <1>0, <2>2, <3>1, ConcatProperties
  <2>4. room' \in 0 .. SndBuf  BY <1>0, <1>1, <1>2, <2>1
  <2>5. write_wait_state_' \in WaitStates /\ write_watcher_' \in BOOLEAN
    BY <1>0, <1>1, <2>1 DEF WaitStates
  <2> QED  BY <1>1, <2>1, <2>2, <2>3, <2>4, <2>5
<1> QED  BY <1>2, <1>3, <1>4

\* Initial states are typed.
LEMMA InitType == Init => TypeOK
<1> SUFFICES ASSUME Init PROVE TypeOK
  OBVIOUS
<1>1. room \in 0 .. SndBuf  BY IOHandlerConstants DEF Init
<1>2. /\ write_buf_ \in Seq(Byte) /\ wire \in Seq(Byte) /\ stream \in Seq(Byte)
      /\ tasks \in Seq(Task) /\ sender \in Seq(Threads \cup {"loop"})
  BY EmptySeq DEF Init
<1>3. /\ phase \in {"new", "live", "freed"} /\ owners \subseteq Owners
      /\ socket_ \in {"open", "invalid"} /\ peer \in {"open", "fin", "reset"}
      /\ inbound \in Nat /\ closed_calls \in Nat
      /\ read_wait_state_ \in WaitStates /\ write_wait_state_ \in WaitStates
      /\ cb \in Callbacks /\ stale \subseteq {"OnCreated", "SendInternal2"}
  BY DEF Init, WaitStates, Callbacks
<1>4. read_watcher_ \in BOOLEAN /\ write_watcher_ \in BOOLEAN
      /\ remaining_ok \in BOOLEAN
  BY DEF Init
<1> QED  BY <1>1, <1>2, <1>3, <1>4 DEF TypeOK, Byte, Task

\* What SendInternal leaves alone.
LEMMA SendInternalFrame ==
    ASSUME NEW d, SendInternal(d)
    PROVE  UNCHANGED <<phase, owners, socket_, read_wait_state_, read_watcher_,
                       cb, inbound, peer, closed_calls, stale>>
  BY DEF SendInternal

\* Every step keeps the types.
LEMMA StepType == TypeOK /\ [Next]_vars => TypeOK'
<1> SUFFICES ASSUME TypeOK, [Next]_vars PROVE TypeOK'
  OBVIOUS
<1> USE DEF handler, kernel, history
<1>0. tasks \in Seq(Task) /\ "self" \in Owners /\ "callback" \in Owners
      /\ "creator" \in Owners /\ \A t \in Threads : t \in Owners
  BY DEF TypeOK, Task, Byte, Owners
<1>1. CASE CreateOnLoop
  BY <1>0, <1>1 DEF CreateOnLoop, OnCreated, TypeOK, WaitStates, Callbacks
<1>2. CASE SendOnLoop
  <2>1. PICK n \in Lengths : SendInternal(Data(Len(sender'), n))
    BY <1>2 DEF SendOnLoop
  <2>2. sender' = Append(sender, "loop") /\ UNCHANGED tasks
    BY <1>2 DEF SendOnLoop
  <2>3. sender' \in Seq(Threads \cup {"loop"})
    BY <2>2 DEF TypeOK
  <2>4. Len(sender') \in Nat  BY <2>3
  <2>5. Data(Len(sender'), n) \in Seq(Byte)  BY <2>4, DataType
  <2> DEFINE d == Data(Len(sender'), n)
  <2> HIDE DEF d
  <2>6. /\ SendInternal(d) /\ d \in Seq(Byte)  BY <2>1, <2>5 DEF d
  <2>7. /\ write_buf_' \in Seq(Byte) /\ wire' \in Seq(Byte)
        /\ stream' \in Seq(Byte) /\ room' \in 0 .. SndBuf
        /\ remaining_ok' \in BOOLEAN
        /\ write_wait_state_' \in WaitStates
        /\ write_watcher_' \in BOOLEAN
    BY <2>6, SendInternalType
  <2>8. UNCHANGED <<phase, owners, socket_, read_wait_state_, read_watcher_,
                    cb, inbound, peer, closed_calls, stale>>
    BY <2>6, SendInternalFrame
  <2> QED  BY <2>2, <2>3, <2>7, <2>8 DEF TypeOK, Byte
<1>3. CASE RunOnCreated
  <2>1. tasks' \in Seq(Task)
    BY <1>0, <1>3, HeadTailProperties DEF RunOnCreated
  <2> QED  BY <1>0, <1>3, <2>1 DEF RunOnCreated, OnCreated, TypeOK, WaitStates,
                                   Callbacks, Task, Byte
<1>4. CASE RunSendInternal2
  <2>1. tasks' \in Seq(Task) /\ Head(tasks) \in Task
    BY <1>0, <1>4, HeadTailProperties DEF RunSendInternal2
  <2>2. Head(tasks).data \in Seq(Byte)  BY <2>1 DEF Task
  <2> DEFINE d == Head(tasks).data
  <2> HIDE DEF d
  <2>3. SendInternal(d) /\ d \in Seq(Byte) /\ UNCHANGED sender
    BY <1>4, <2>2 DEF RunSendInternal2, d
  <2>4. /\ write_buf_' \in Seq(Byte) /\ wire' \in Seq(Byte)
        /\ stream' \in Seq(Byte) /\ room' \in 0 .. SndBuf
        /\ remaining_ok' \in BOOLEAN
        /\ write_wait_state_' \in WaitStates
        /\ write_watcher_' \in BOOLEAN
    BY <2>3, SendInternalType
  <2>5. UNCHANGED <<phase, owners, socket_, read_wait_state_, read_watcher_,
                    cb, inbound, peer, closed_calls, stale>>
    BY <2>3, SendInternalFrame
  <2> QED  BY <2>1, <2>3, <2>4, <2>5 DEF TypeOK, Task, Byte
<1>5. CASE RunStaleTask
  <2>1. tasks' \in Seq(Task) /\ Head(tasks) \in Task
    BY <1>0, <1>5, HeadTailProperties DEF RunStaleTask
  <2>2. Head(tasks).op \in {"OnCreated", "SendInternal2"}  BY <2>1 DEF Task
  <2> QED  BY <1>5, <2>1, <2>2 DEF RunStaleTask, TypeOK, Task, Byte
<1>6. CASE OnWrite
  BY <1>6, OnWriteType DEF OnWrite, TypeOK, Byte
<1>7. CASE ReadData
  BY <1>0, <1>7 DEF ReadData, TypeOK, Callbacks
<1>8. CASE ReadEnd
  BY <1>0, <1>8 DEF ReadEnd, BeginClose, TypeOK, Callbacks
<1>9. CASE ReturnZero
  BY <1>9 DEF ReturnZero, TypeOK, Callbacks
<1>10. CASE ReturnNonZero
  BY <1>0, <1>10 DEF ReturnNonZero, BeginClose, TypeOK, Callbacks
<1>11. CASE EndClose
  BY <1>11 DEF EndClose, CloseSocket, Release, TypeOK, Callbacks
<1>12. ASSUME NEW t \in Threads, CreateFrom(t) PROVE TypeOK'
  <2>1. CreatedTask \in Task  BY DEF CreatedTask, Task
  <2>2. tasks' \in Seq(Task)
    BY <1>0, <1>12, <2>1 DEF CreateFrom
  <2> QED  BY <1>0, <1>12, <2>2 DEF CreateFrom, TypeOK, Task, Byte
<1>13. ASSUME NEW t \in Threads, Hold(t) PROVE TypeOK'
  BY <1>0, <1>13 DEF Hold, TypeOK
<1>14. ASSUME NEW t \in Threads, Drop(t) PROVE TypeOK'
  BY <1>14 DEF Drop, CloseSocket, Release, TypeOK
<1>15. ASSUME NEW t \in Threads, SendFrom(t) PROVE TypeOK'
  <2>1. sender' \in Seq(Threads \cup {"loop"})
    BY <1>15 DEF SendFrom, TypeOK
  <2>2. PICK n \in Lengths : tasks' = Append(tasks, SendTask(Data(Len(sender'), n)))
    BY <1>15 DEF SendFrom
  <2>3. Data(Len(sender'), n) \in Seq(Byte)
    <3>1. Len(sender') \in Nat  BY <2>1
    <3> QED  BY <3>1, DataType
  <2>4. SendTask(Data(Len(sender'), n)) \in Task
    BY <2>3 DEF SendTask, Task
  <2>5. tasks' \in Seq(Task)
    BY <1>0, <2>2, <2>4
  <2> QED  BY <1>15, <2>1, <2>5 DEF SendFrom, TypeOK, Task, Byte
<1>16. CASE Drain
  BY <1>16, IOHandlerConstants DEF Drain, TypeOK
<1>17. CASE PeerSends
  BY <1>17 DEF PeerSends, TypeOK
<1>18. CASE PeerEnds
  BY <1>18 DEF PeerEnds, TypeOK
<1>19. CASE UNCHANGED vars
  BY <1>19 DEF vars, TypeOK
<1> QED
  BY <1>1, <1>2, <1>3, <1>4, <1>5, <1>6, <1>7, <1>8, <1>9, <1>10, <1>11, <1>12,
     <1>13, <1>14, <1>15, <1>16, <1>17, <1>18, <1>19 DEF Next, LoopStep

\* The state of an IOHandler is typed, whatever the threads and the peer do.
THEOREM TypeCorrect == Spec => []TypeOK
  BY InitType, StepType, PTL DEF Spec

-----------------------------------------------------------------------------
(* The life of a handler: its references, its socket and its notifications. *)

\* Who may hold references in each phase: the handler owns itself as long as
\* its socket is open.
References ==
    /\ phase = "new" => /\ owners = {} /\ socket_ = "open" /\ cb = "none"
                        /\ ~Announced
    /\ phase = "live" => owners # {}
    /\ phase = "freed" => owners = {} /\ socket_ = "invalid"
    /\ phase = "live" /\ socket_ = "open" => "self" \in owners

\* Callbacks run in a live, announced handler whose socket is still open.
CallbacksRunLive ==
    cb # "none" => phase = "live" /\ Announced /\ socket_ = "open"

\* A closed handler is watched by nobody and kept only by other threads.
ClosedIsQuiet ==
    socket_ = "invalid" =>
        /\ Announced /\ owners \subseteq Threads
        /\ ~read_watcher_ /\ ~write_watcher_

\* The notification is counted exactly while and after it is delivered.
ClosedCounted ==
    closed_calls = IF cb = "OnConnectionClosed" \/ socket_ = "invalid"
                   THEN 1 ELSE 0

\* Only a live handler not yet announced has an OnCreated task, as its first.
TasksInOrder ==
    /\ phase = "new" => tasks = <<>>
    /\ \A i \in 1 .. Len(tasks) :
          tasks[i].op = "OnCreated" => i = 1 /\ phase = "live" /\ ~Announced
    /\ phase = "live" /\ ~Announced =>
          Len(tasks) > 0 /\ tasks[1].op = "OnCreated"

\* Posted strings have the lengths the callers gave them.
TasksSized ==
    \A i \in 1 .. Len(tasks) :
        tasks[i].op = "SendInternal2" => Len(tasks[i].data) \in Lengths

Life ==
    /\ References
    /\ CallbacksRunLive
    /\ ClosedIsQuiet
    /\ ClosedCounted

\* SendInternal does not watch an invalid socket.
LEMMA SendInternalWatch ==
    ASSUME NEW d, SendInternal(d), socket_ # "open", ~write_watcher_
    PROVE  ~write_watcher_'
<1>1. ASSUME NEW rest, Buffer(rest) PROVE ~write_watcher_'
  BY <1>1 DEF Buffer
<1> QED  BY <1>1 DEF SendInternal

\* SendInternal does not touch references, socket or notifications.
LEMMA SendInternalLife ==
    ASSUME TypeOK, Life, NEW d, SendInternal(d)
    PROVE  Life'
<1>1. UNCHANGED <<phase, owners, socket_, read_wait_state_, read_watcher_,
                  cb, inbound, peer, closed_calls, stale>>
  BY SendInternalFrame
<1>2. socket_ = "invalid" => ~write_watcher_'
  BY SendInternalWatch DEF Life, ClosedIsQuiet
<1> QED  BY <1>1, <1>2 DEF Life, References, CallbacksRunLive, ClosedIsQuiet,
                           ClosedCounted, Announced

\* A new handler satisfies it.
LEMMA InitLife == Init => Life
  BY DEF Init, Life, References, CallbacksRunLive, ClosedIsQuiet, ClosedCounted,
         Announced

\* Every step preserves it.
LEMMA StepLife == TypeOK /\ Life /\ TasksInOrder /\ [Next]_vars => Life'
<1> SUFFICES ASSUME TypeOK, Life, TasksInOrder, [Next]_vars PROVE Life'
  OBVIOUS
<1> USE DEF handler, kernel, history, Life, References, CallbacksRunLive,
            ClosedIsQuiet, ClosedCounted, Announced
<1>0. /\ \A t \in Threads : t # "self" /\ t # "callback" /\ t # "creator"
      /\ owners \subseteq {"self", "callback", "creator"} \cup Threads
      /\ socket_ \in {"open", "invalid"}
      /\ phase \in {"new", "live", "freed"}
  BY ThreadsAreOwners DEF TypeOK, Owners
<1>1. CASE CreateOnLoop
  BY <1>0, <1>1 DEF CreateOnLoop, OnCreated
<1>2. CASE SendOnLoop
  <2>1. PICK d : SendInternal(d)  BY <1>2 DEF SendOnLoop
  <2> QED  BY <2>1, SendInternalLife
<1>3. CASE RunOnCreated
  <2>1. tasks \in Seq(Task) /\ tasks # <<>>
    BY <1>3 DEF RunOnCreated, TypeOK, Task, Byte
  <2>2. 1 \in 1 .. Len(tasks) /\ tasks[1].op = "OnCreated"
    BY <1>3, <2>1 DEF RunOnCreated
  <2>3. ~Announced  BY <2>2 DEF TasksInOrder
  <2> QED  BY <1>0, <1>3, <2>3 DEF RunOnCreated, OnCreated
<1>4. CASE RunSendInternal2
  BY <1>4, SendInternalLife DEF RunSendInternal2
<1>5. CASE RunStaleTask
  BY <1>5 DEF RunStaleTask
<1>6. CASE OnWrite
  <2>1. UNCHANGED <<phase, owners, socket_, read_wait_state_, read_watcher_, cb,
                    closed_calls>>
    BY <1>6 DEF OnWrite
  <2>2. write_watcher_ /\ socket_ = "open"  BY <1>0, <1>6 DEF OnWrite
  <2> QED  BY <2>1, <2>2
<1>7. CASE ReadData
  BY <1>0, <1>7 DEF ReadData
<1>8. CASE ReadEnd
  BY <1>0, <1>8 DEF ReadEnd, BeginClose
<1>9. CASE ReturnZero
  BY <1>0, <1>9 DEF ReturnZero
<1>10. CASE ReturnNonZero
  BY <1>0, <1>10 DEF ReturnNonZero, BeginClose
<1>11. CASE EndClose
  BY <1>0, <1>11 DEF EndClose, CloseSocket, Release
<1>12. ASSUME NEW t \in Threads, CreateFrom(t) PROVE Life'
  BY <1>0, <1>12 DEF CreateFrom
<1>13. ASSUME NEW t \in Threads, Hold(t) PROVE Life'
  BY <1>0, <1>13 DEF Hold
<1>14. ASSUME NEW t \in Threads, Drop(t) PROVE Life'
  BY <1>0, <1>14 DEF Drop, CloseSocket, Release
<1>15. ASSUME NEW t \in Threads, SendFrom(t) PROVE Life'
  BY <1>15 DEF SendFrom
<1>16. CASE Drain
  BY <1>16 DEF Drain
<1>17. CASE PeerSends
  BY <1>17 DEF PeerSends
<1>18. CASE PeerEnds
  BY <1>18 DEF PeerEnds
<1>19. CASE UNCHANGED vars
  BY <1>19 DEF vars
<1> QED
  BY <1>1, <1>2, <1>3, <1>4, <1>5, <1>6, <1>7, <1>8, <1>9, <1>10, <1>11, <1>12,
     <1>13, <1>14, <1>15, <1>16, <1>17, <1>18, <1>19 DEF Next, LoopStep

-----------------------------------------------------------------------------
(* The loop's queue.                                                        *)

Queue == TasksInOrder /\ TasksSized /\ OnlySendsGoStale

\* Running the first task leaves a queue of sends.
LEMMA RunHead ==
    ASSUME TypeOK, Queue, tasks # <<>>, tasks' = Tail(tasks),
           phase' = "new" => phase = "new"
    PROVE  /\ TasksSized'
           /\ \A i \in 1 .. Len(tasks') : tasks'[i].op # "OnCreated"
           /\ Head(tasks) = tasks[1] /\ 1 \in 1 .. Len(tasks)
<1>1. tasks \in Seq(Task)  BY DEF TypeOK, Task, Byte
<1>2. /\ Len(tasks) \in Nat \ {0} /\ Len(tasks') = Len(tasks) - 1
      /\ Head(tasks) = tasks[1]
      /\ \A i \in 1 .. Len(tasks') : tasks'[i] = tasks[i + 1]
  BY <1>1, HeadTailProperties
<1>3. \A i \in 1 .. Len(tasks') : i + 1 \in 1 .. Len(tasks) /\ i + 1 # 1
  BY <1>2
<1> QED  BY <1>2, <1>3 DEF Queue, TasksInOrder, TasksSized

\* Posting a task at the end of the queue.
LEMMA PostTask ==
    ASSUME TypeOK, NEW task \in Task, tasks' = Append(tasks, task)
    PROVE  /\ Len(tasks) \in Nat /\ Len(tasks') = Len(tasks) + 1
           /\ \A i \in 1 .. Len(tasks) : tasks'[i] = tasks[i]
           /\ tasks'[Len(tasks) + 1] = task
           /\ \A i \in 1 .. Len(tasks') :
                 i \in 1 .. Len(tasks) \/ i = Len(tasks) + 1
<1>1. tasks \in Seq(Task)  BY DEF TypeOK, Task, Byte
<1>2. /\ Len(tasks) \in Nat /\ Len(tasks') = Len(tasks) + 1
      /\ \A i \in 1 .. Len(tasks) : tasks'[i] = tasks[i]
      /\ tasks'[Len(tasks) + 1] = task
  BY <1>1, AppendProperties
<1> QED  BY <1>2

\* No task is posted before Create.
LEMMA InitQueue == Init => Queue
  BY DEF Init, Queue, TasksInOrder, TasksSized, OnlySendsGoStale

\* A step that leaves the queue, the phase and the announcement alone.
LEMMA QueueFrame ==
    ASSUME Queue, UNCHANGED <<tasks, phase, read_wait_state_, stale>>
    PROVE  Queue'
  BY DEF Queue, TasksInOrder, TasksSized, OnlySendsGoStale, Announced

\* Every step preserves the order, the sizes and OnlySendsGoStale.
LEMMA StepQueue == TypeOK /\ Life /\ Queue /\ [Next]_vars => Queue'
<1> SUFFICES ASSUME TypeOK, Life, Queue, [Next]_vars PROVE Queue'
  OBVIOUS
<1> USE DEF handler, kernel, history
<1>0. tasks \in Seq(Task)  BY DEF TypeOK, Task, Byte
<1>1. CASE CreateOnLoop
  BY <1>1 DEF CreateOnLoop, OnCreated, Queue, TasksInOrder, TasksSized,
              OnlySendsGoStale, Announced
<1>2. CASE SendOnLoop
  <2>1. PICK d : SendInternal(d)  BY <1>2 DEF SendOnLoop
  <2>2. UNCHANGED <<phase, read_wait_state_, stale>>
    BY <2>1, SendInternalFrame
  <2> QED  BY <1>2, <2>2, QueueFrame DEF SendOnLoop
<1>3. CASE RunOnCreated
  <2>1. /\ TasksSized'
        /\ \A i \in 1 .. Len(tasks') : tasks'[i].op # "OnCreated"
    BY <1>3, RunHead DEF RunOnCreated
  <2>2. phase' = "live" /\ Announced' /\ UNCHANGED stale
    BY <1>3 DEF RunOnCreated, OnCreated, Announced
  <2> QED  BY <2>1, <2>2 DEF Queue, TasksInOrder, OnlySendsGoStale
<1>4. CASE RunSendInternal2
  <2>1. UNCHANGED <<phase, read_wait_state_, stale>>
    BY <1>4, SendInternalFrame DEF RunSendInternal2
  <2>2. phase = "live" /\ tasks # <<>> /\ tasks' = Tail(tasks)
        /\ Head(tasks).op # "OnCreated"
    BY <1>4 DEF RunSendInternal2
  <2>3. /\ TasksSized'
        /\ \A i \in 1 .. Len(tasks') : tasks'[i].op # "OnCreated"
        /\ Head(tasks) = tasks[1]
    BY <2>1, <2>2, RunHead
  <2>4. Announced  BY <2>2, <2>3 DEF Queue, TasksInOrder
  <2> QED  BY <2>1, <2>2, <2>3, <2>4 DEF Queue, TasksInOrder, OnlySendsGoStale,
                                         Announced
<1>5. CASE RunStaleTask
  <2>1. /\ TasksSized'
        /\ \A i \in 1 .. Len(tasks') : tasks'[i].op # "OnCreated"
        /\ Head(tasks) = tasks[1] /\ 1 \in 1 .. Len(tasks)
    BY <1>5, RunHead DEF RunStaleTask
  <2>2. phase = "freed" /\ phase' = "freed" /\ stale' = stale \cup {Head(tasks).op}
    BY <1>5 DEF RunStaleTask
  <2>3. Head(tasks).op = "SendInternal2"
    <3>1. Head(tasks) \in Task  BY <1>0, <1>5, HeadTailProperties DEF RunStaleTask
    <3>2. tasks[1].op # "OnCreated"  BY <2>1, <2>2 DEF Queue, TasksInOrder
    <3> QED  BY <2>1, <3>1, <3>2 DEF Task
  <2> QED  BY <2>1, <2>2, <2>3 DEF Queue, TasksInOrder, OnlySendsGoStale
<1>6. CASE OnWrite
  BY <1>6, QueueFrame DEF OnWrite
<1>7. CASE ReadData
  BY <1>7, QueueFrame DEF ReadData
<1>8. CASE ReadEnd
  BY <1>8, QueueFrame DEF ReadEnd, BeginClose
<1>9. CASE ReturnZero
  BY <1>9, QueueFrame DEF ReturnZero
<1>10. CASE ReturnNonZero
  BY <1>10, QueueFrame DEF ReturnNonZero, BeginClose
<1>11. CASE EndClose
  <2>1. UNCHANGED <<tasks, read_wait_state_, stale>> /\ Announced /\ phase # "new"
        /\ phase' # "new"
    BY <1>11 DEF EndClose, Release, Life, CallbacksRunLive
  <2> QED  BY <2>1 DEF Queue, TasksInOrder, TasksSized, OnlySendsGoStale, Announced
<1>12. ASSUME NEW t \in Threads, CreateFrom(t) PROVE Queue'
  <2>1. CreatedTask \in Task  BY DEF CreatedTask, Task
  <2>2. /\ tasks = <<>> /\ tasks' = Append(tasks, CreatedTask)
        /\ phase' = "live" /\ ~Announced' /\ UNCHANGED stale
    BY <1>12 DEF CreateFrom, Queue, TasksInOrder, Life, References, Announced
  <2>3. Len(tasks') = 1 /\ tasks'[1] = CreatedTask
    BY <2>1, <2>2, PostTask
  <2> QED  BY <2>2, <2>3 DEF Queue, TasksInOrder, TasksSized, OnlySendsGoStale,
                             CreatedTask
<1>13. ASSUME NEW t \in Threads, Hold(t) PROVE Queue'
  BY <1>13, QueueFrame DEF Hold
<1>14. ASSUME NEW t \in Threads, Drop(t) PROVE Queue'
  <2>1. UNCHANGED <<tasks, read_wait_state_, stale>>  BY <1>14 DEF Drop
  <2>2. CASE owners = {t}
    <3>1. phase = "live" /\ Announced /\ phase' = "freed"
      BY <1>14, <2>2, ThreadsAreOwners
         DEF Drop, Release, Life, References, ClosedIsQuiet, TypeOK
    <3> QED  BY <2>1, <3>1 DEF Queue, TasksInOrder, TasksSized, OnlySendsGoStale,
                               Announced
  <2>3. CASE owners # {t}
    <3>1. UNCHANGED phase  BY <1>14, <2>3 DEF Drop, Release
    <3> QED  BY <2>1, <3>1, QueueFrame
  <2> QED  BY <2>2, <2>3
<1>15. ASSUME NEW t \in Threads, SendFrom(t) PROVE Queue'
  <2>1. PICK n \in Lengths : tasks' = Append(tasks, SendTask(Data(Len(sender'), n)))
    BY <1>15 DEF SendFrom
  <2>2. Len(sender') \in Nat  BY <1>15 DEF SendFrom, TypeOK
  <2> DEFINE task == SendTask(Data(Len(sender'), n))
  <2>3. task \in Task /\ task.op = "SendInternal2" /\ Len(task.data) \in Lengths
    BY <2>2, DataType DEF SendTask, Task
  <2> HIDE DEF task
  <2>4. tasks' = Append(tasks, task)  BY <2>1 DEF task
  <2>5. phase # "new"  BY <1>15 DEF SendFrom, Life, References
  <2>6. UNCHANGED <<phase, read_wait_state_, stale>>  BY <1>15 DEF SendFrom
  <2>7. /\ Len(tasks) \in Nat /\ Len(tasks') = Len(tasks) + 1
        /\ \A i \in 1 .. Len(tasks) : tasks'[i] = tasks[i]
        /\ tasks'[Len(tasks) + 1] = task
        /\ \A i \in 1 .. Len(tasks') :
              i \in 1 .. Len(tasks) \/ i = Len(tasks) + 1
    BY <2>3, <2>4, PostTask
  <2>8. TasksSized'  BY <2>3, <2>7 DEF Queue, TasksSized
  <2>9. TasksInOrder'
    BY <2>3, <2>5, <2>6, <2>7 DEF Queue, TasksInOrder, Announced
  <2> QED  BY <2>6, <2>8, <2>9 DEF Queue, OnlySendsGoStale
<1>16. CASE Drain
  BY <1>16, QueueFrame DEF Drain
<1>17. CASE PeerSends
  BY <1>17, QueueFrame DEF PeerSends
<1>18. CASE PeerEnds
  BY <1>18, QueueFrame DEF PeerEnds
<1>19. CASE UNCHANGED vars
  BY <1>19, QueueFrame DEF vars
<1> QED
  BY <1>1, <1>2, <1>3, <1>4, <1>5, <1>6, <1>7, <1>8, <1>9, <1>10, <1>11, <1>12,
     <1>13, <1>14, <1>15, <1>16, <1>17, <1>18, <1>19 DEF Next, LoopStep

-----------------------------------------------------------------------------
(* The write path.                                                          *)

Writes == WritingIffBuffered /\ StreamIntact

\* Buffering at least a byte starts, or continues, waiting for writability.
LEMMA BufferWrites ==
    ASSUME TypeOK, WritingIffBuffered, UNCHANGED socket_,
           NEW rest \in Seq(Byte), Len(rest) > 0, Buffer(rest)
    PROVE  WritingIffBuffered'
<1>1. write_buf_ \in Seq(Byte)  BY DEF TypeOK, Byte
<1>2. write_buf_' = write_buf_ \o rest  BY DEF Buffer
<1>3. Len(write_buf_') = Len(write_buf_) + Len(rest)
  BY <1>1, <1>2, ConcatProperties
<1>4. Len(write_buf_') > 0  BY <1>1, <1>3
<1>5. write_buf_' # <<>>  BY <1>4, EmptySeq
<1>6. write_wait_state_' = "WAITING_WRITE"  BY DEF Buffer, IsWriting
<1>7. socket_ = "open" => write_watcher_'
  BY DEF Buffer, IsWriting, WritingIffBuffered
<1> QED  BY <1>5, <1>6, <1>7 DEF WritingIffBuffered, IsWriting

\* SendInternal keeps both, for a string of a legal length.
LEMMA SendInternalWrites ==
    ASSUME TypeOK, Writes, NEW d \in Seq(Byte), Len(d) \in Lengths,
           SendInternal(d)
    PROVE  Writes'
<1>0. /\ write_buf_ \in Seq(Byte) /\ wire \in Seq(Byte) /\ stream \in Seq(Byte)
      /\ room \in 0 .. SndBuf /\ Len(d) \in Nat \ {0}
      /\ remaining_ok \in BOOLEAN
  BY IOHandlerConstants DEF TypeOK, Byte
<1>1. UNCHANGED socket_ /\ stream' = stream \o d
  BY DEF SendInternal
<1>2. CASE MaySendDirectly
  <2>1. PICK n \in SendResults(Len(d)) :
          LET remaining == Remaining(Len(d), AsUInt32(n))
          IN  /\ wire' = IF n > 0 THEN wire \o SubSeq(d, 1, n) ELSE wire
              /\ remaining_ok' = (remaining_ok /\ remaining <= Len(d))
              /\ IF remaining > 0
                 THEN \E rest \in Leftovers(d, n) : Buffer(rest)
                 ELSE UNCHANGED <<write_buf_, write_wait_state_, write_watcher_>>
    BY <1>2 DEF SendInternal
  <2>2. n \in Int /\ (n = -1 \/ n \in 1 .. Len(d))
    BY <1>0, SendResultsType
  <2>3. Remaining(Len(d), AsUInt32(n)) = IF n = -1 THEN Len(d) + 1 ELSE Len(d) - n
    BY <2>2, RemainingValue
  <2>4. write_buf_ = <<>> /\ (remaining_ok => wire = stream)
    BY <1>0, <1>2, EmptySeq, ConcatEmptySeq
       DEF MaySendDirectly, Writes, StreamIntact
  <2>5. CASE n = -1
    <3>1. Remaining(Len(d), AsUInt32(n)) = Len(d) + 1  BY <2>3, <2>5
    <3>2. Remaining(Len(d), AsUInt32(n)) > 0
          /\ ~(Remaining(Len(d), AsUInt32(n)) <= Len(d))
      BY <1>0, <3>1
    <3>3. PICK rest \in Leftovers(d, n) : Buffer(rest)
      BY <2>1, <3>2
    <3>4. rest \in Seq(Byte) /\ Len(rest) = Len(d) + 1
      BY <2>2, <2>5, LeftoversType
    <3>5. Len(rest) > 0  BY <1>0, <3>4
    <3>6. WritingIffBuffered'
      BY <1>1, <3>3, <3>4, <3>5, BufferWrites DEF Writes
    <3>7. ~remaining_ok'  BY <2>1, <3>2
    <3> QED  BY <3>6, <3>7 DEF Writes, StreamIntact
  <2>6. CASE n \in 1 .. Len(d) /\ n # Len(d)
    <3>1. n \in 0 .. Len(d) /\ n > 0 /\ n # -1 /\ Len(d) - n > 0  BY <1>0, <2>6
    <3>2. Remaining(Len(d), AsUInt32(n)) = Len(d) - n  BY <2>3, <3>1
    <3>3. PICK rest \in Leftovers(d, n) : Buffer(rest)
      BY <2>1, <3>1, <3>2
    <3>4. /\ rest \in Seq(Byte) /\ Len(rest) = Len(d) - n
          /\ SubSeq(d, 1, n) \o rest = d
      BY <2>2, <3>1, LeftoversType
    <3>5. WritingIffBuffered'
      BY <1>1, <3>1, <3>3, <3>4, BufferWrites DEF Writes
    <3>6. write_buf_' = rest
      <4>1. write_buf_' = write_buf_ \o rest  BY <3>3 DEF Buffer
      <4> QED  BY <2>4, <3>4, <4>1, ConcatEmptySeq
    <3>7. wire' = wire \o SubSeq(d, 1, n)  BY <2>1, <3>1
    <3>8. wire' \o write_buf_' = wire \o d
      <4>1. SubSeq(d, 1, n) \in Seq(Byte)  BY <3>1, SplitSeq
      <4>2. (wire \o SubSeq(d, 1, n)) \o rest
                = wire \o (SubSeq(d, 1, n) \o rest)
        BY <1>0, <3>4, <4>1, JoinAssociative, ZenonT(40)
      <4> QED  BY <3>4, <3>6, <3>7, <4>2, Zenon
    <3>9. remaining_ok' => remaining_ok  BY <2>1
    <3> QED  BY <1>1, <2>4, <3>5, <3>8, <3>9 DEF Writes, StreamIntact
  <2>7. CASE n \in 1 .. Len(d) /\ n = Len(d)
    <3>1. n \in 0 .. Len(d) /\ n > 0 /\ n # -1 /\ Len(d) - n = 0  BY <1>0, <2>7
    <3>2. ~(Remaining(Len(d), AsUInt32(n)) > 0)  BY <2>3, <3>1
    <3>3. UNCHANGED <<write_buf_, write_wait_state_, write_watcher_>>
      BY <2>1, <3>2
    <3>4. WritingIffBuffered'
      BY <1>1, <3>3 DEF Writes, WritingIffBuffered, IsWriting
    <3>5. wire' = wire \o d
      <4>1. SubSeq(d, 1, n) = d  BY <2>7, SubSeqFull
      <4> QED  BY <2>1, <3>1, <4>1
    <3>6. wire' \o write_buf_' = wire \o d
      <4>1. wire \o d \in Seq(Byte)  BY <1>0, ConcatProperties
      <4> QED  BY <2>4, <3>3, <3>5, <4>1, ConcatEmptySeq
    <3>7. remaining_ok' => remaining_ok  BY <2>1
    <3> QED  BY <1>1, <2>4, <3>4, <3>6, <3>7 DEF Writes, StreamIntact
  <2> QED  BY <2>2, <2>5, <2>6, <2>7
<1>3. CASE ~MaySendDirectly
  <2>1. Buffer(d) /\ UNCHANGED <<wire, remaining_ok>>
    BY <1>3 DEF SendInternal
  <2>2. WritingIffBuffered'
    BY <1>0, <1>1, <2>1, BufferWrites DEF Writes
  <2>3. wire' \o write_buf_' = (wire \o write_buf_) \o d
    <3>1. write_buf_' = write_buf_ \o d  BY <2>1 DEF Buffer
    <3>2. (wire \o write_buf_) \o d = wire \o (write_buf_ \o d)
      BY <1>0, JoinAssociative, ZenonT(40)
    <3> QED  BY <2>1, <3>1, <3>2, Zenon
  <2> QED  BY <1>1, <2>1, <2>2, <2>3 DEF Writes, StreamIntact
<1> QED  BY <1>2, <1>3

\* OnWrite moves a prefix of write_buf_ to the kernel.
LEMMA OnWriteWrites ==
    ASSUME TypeOK, Writes, OnWrite
    PROVE  Writes'
<1>0. /\ write_buf_ \in Seq(Byte) /\ wire \in Seq(Byte)
      /\ room \in 0 .. SndBuf /\ Len(write_buf_) \in Nat
  BY DEF TypeOK, Byte
<1>1. PICK n \in SendResults(Len(write_buf_)) :
        IF n > 0
        THEN /\ wire' = wire \o SubSeq(write_buf_, 1, n)
             /\ room' = room - n
             /\ write_buf_' = SubSeq(write_buf_, n + 1, Len(write_buf_))
             /\ IF n = Len(write_buf_)
                THEN /\ write_watcher_' = FALSE
                     /\ write_wait_state_' = "NOT_WAITING"
                ELSE UNCHANGED <<write_watcher_, write_wait_state_>>
        ELSE UNCHANGED <<wire, room, write_buf_, write_watcher_,
                         write_wait_state_>>
  BY DEF OnWrite
<1>2. n \in Int /\ (n = -1 \/ n \in 1 .. Len(write_buf_))
  BY <1>0, SendResultsType
<1>3. UNCHANGED <<socket_, stream, remaining_ok>> /\ write_watcher_ /\ IsWriting
  BY DEF OnWrite, history
<1>4. CASE n = -1
  <2>1. UNCHANGED <<wire, write_buf_, write_watcher_, write_wait_state_>>
    BY <1>1, <1>4
  <2> QED  BY <1>3, <2>1 DEF Writes, WritingIffBuffered, StreamIntact, IsWriting
<1>5. CASE n \in 1 .. Len(write_buf_)
  <2>1. n \in 0 .. Len(write_buf_) /\ n > 0  BY <1>0, <1>5
  <2>2. /\ SubSeq(write_buf_, 1, n) \in Seq(Byte)
        /\ SubSeq(write_buf_, n + 1, Len(write_buf_)) \in Seq(Byte)
        /\ Len(SubSeq(write_buf_, n + 1, Len(write_buf_))) = Len(write_buf_) - n
        /\ SubSeq(write_buf_, 1, n)
              \o SubSeq(write_buf_, n + 1, Len(write_buf_)) = write_buf_
    BY <1>0, <2>1, SplitSeq
  <2>3. /\ wire' = wire \o SubSeq(write_buf_, 1, n)
        /\ write_buf_' = SubSeq(write_buf_, n + 1, Len(write_buf_))
        /\ IF n = Len(write_buf_)
           THEN /\ write_watcher_' = FALSE
                /\ write_wait_state_' = "NOT_WAITING"
           ELSE UNCHANGED <<write_watcher_, write_wait_state_>>
    BY <1>1, <2>1
  <2>4. wire' \o write_buf_' = wire \o write_buf_
    <3> DEFINE sent == SubSeq(write_buf_, 1, n)
               left == SubSeq(write_buf_, n + 1, Len(write_buf_))
    <3>1. (wire \o sent) \o left = wire \o (sent \o left)
      BY <1>0, <2>2, JoinAssociative, ZenonT(40)
    <3> QED  BY <2>2, <2>3, <3>1, Zenon
  <2>5. write_buf_' = <<>> <=> n = Len(write_buf_)
    <3>1. Len(write_buf_') = Len(write_buf_) - n /\ write_buf_' \in Seq(Byte)
      BY <2>2, <2>3
    <3>2. write_buf_' = <<>> <=> Len(write_buf_') = 0
      BY <3>1, EmptySeq
    <3> QED  BY <1>0, <2>1, <3>1, <3>2
  <2>6. WritingIffBuffered'
    BY <1>3, <2>3, <2>5 DEF WritingIffBuffered, IsWriting
  <2> QED  BY <1>3, <2>4, <2>6 DEF Writes, StreamIntact
<1> QED  BY <1>2, <1>4, <1>5

\* A step that leaves the write path alone.
LEMMA WritesFrame ==
    ASSUME Writes, UNCHANGED <<socket_, write_buf_, write_wait_state_,
                               write_watcher_, wire, stream, remaining_ok>>
    PROVE  Writes'
  BY DEF Writes, WritingIffBuffered, StreamIntact, IsWriting

\* Nothing is buffered before the first send.
LEMMA InitWrites == Init => Writes
<1> SUFFICES ASSUME Init PROVE Writes
  OBVIOUS
<1>1. wire \o write_buf_ = stream
  <2>1. <<>> \in Seq(Byte)  BY EmptySeq
  <2> QED  BY <2>1, ConcatEmptySeq DEF Init
<1> QED  BY <1>1 DEF Init, Writes, WritingIffBuffered, StreamIntact, IsWriting

\* Every step preserves the write path.
LEMMA StepWrites ==
    TypeOK /\ Life /\ Queue /\ Writes /\ [Next]_vars => Writes'
<1> SUFFICES ASSUME TypeOK, Life, Queue, Writes, [Next]_vars PROVE Writes'
  OBVIOUS
<1> USE DEF handler, kernel, history
<1>1. CASE CreateOnLoop
  BY <1>1, WritesFrame DEF CreateOnLoop, OnCreated
<1>2. CASE SendOnLoop
  <2>1. PICK n \in Lengths : SendInternal(Data(Len(sender'), n))
    BY <1>2 DEF SendOnLoop
  <2>2. Len(sender') \in Nat  BY <1>2 DEF SendOnLoop, TypeOK
  <2>3. /\ Data(Len(sender'), n) \in Seq(Byte)
        /\ Len(Data(Len(sender'), n)) \in Lengths
    BY <2>2, DataType
  <2> QED  BY <2>1, <2>3, SendInternalWrites
<1>3. CASE RunOnCreated
  BY <1>3, WritesFrame DEF RunOnCreated, OnCreated
<1>4. CASE RunSendInternal2
  <2>1. tasks \in Seq(Task) /\ tasks # <<>>
    BY <1>4 DEF RunSendInternal2, TypeOK, Task, Byte
  <2>2. Head(tasks) \in Task /\ Head(tasks) = tasks[1] /\ 1 \in 1 .. Len(tasks)
    BY <2>1, HeadTailProperties
  <2>3. Head(tasks).data \in Seq(Byte)  BY <2>2 DEF Task
  <2>4. Len(Head(tasks).data) \in Lengths
    BY <1>4, <2>2 DEF RunSendInternal2, Queue, TasksSized
  <2> QED  BY <1>4, <2>3, <2>4, SendInternalWrites DEF RunSendInternal2
<1>5. CASE RunStaleTask
  BY <1>5, WritesFrame DEF RunStaleTask
<1>6. CASE OnWrite
  BY <1>6, OnWriteWrites
<1>7. CASE ReadData
  BY <1>7, WritesFrame DEF ReadData
<1>8. CASE ReadEnd
  BY <1>8, WritesFrame DEF ReadEnd, BeginClose
<1>9. CASE ReturnZero
  BY <1>9, WritesFrame DEF ReturnZero
<1>10. CASE ReturnNonZero
  BY <1>10, WritesFrame DEF ReturnNonZero, BeginClose
<1>11. CASE EndClose
  <2>1. socket_' = "invalid" /\ UNCHANGED <<wire, write_buf_, stream, remaining_ok>>
    BY <1>11 DEF EndClose
  <2> QED  BY <2>1 DEF Writes, WritingIffBuffered, StreamIntact
<1>12. ASSUME NEW t \in Threads, CreateFrom(t) PROVE Writes'
  BY <1>12, WritesFrame DEF CreateFrom
<1>13. ASSUME NEW t \in Threads, Hold(t) PROVE Writes'
  BY <1>13, WritesFrame DEF Hold
<1>14. ASSUME NEW t \in Threads, Drop(t) PROVE Writes'
  <2>1. UNCHANGED <<socket_, wire, write_buf_, write_wait_state_, stream,
                    remaining_ok>>
    BY <1>14 DEF Drop
  <2>2. CASE socket_ = "open"
    <3>1. owners # {t}
      BY <1>14, <2>2, ThreadsAreOwners
         DEF Drop, Life, References, ClosedIsQuiet, TypeOK
    <3>2. UNCHANGED write_watcher_  BY <1>14, <3>1 DEF Drop
    <3> QED  BY <2>1, <3>2, WritesFrame
  <2>3. CASE socket_ # "open"
    BY <2>1, <2>3 DEF Writes, WritingIffBuffered, StreamIntact
  <2> QED  BY <2>2, <2>3
<1>15. ASSUME NEW t \in Threads, SendFrom(t) PROVE Writes'
  BY <1>15, WritesFrame DEF SendFrom
<1>16. CASE Drain
  BY <1>16, WritesFrame DEF Drain
<1>17. CASE PeerSends
  BY <1>17, WritesFrame DEF PeerSends
<1>18. CASE PeerEnds
  BY <1>18, WritesFrame DEF PeerEnds
<1>19. CASE UNCHANGED vars
  BY <1>19, WritesFrame DEF vars
<1> QED
  BY <1>1, <1>2, <1>3, <1>4, <1>5, <1>6, <1>7, <1>8, <1>9, <1>10, <1>11, <1>12,
     <1>13, <1>14, <1>15, <1>16, <1>17, <1>18, <1>19 DEF Next, LoopStep

-----------------------------------------------------------------------------
(* The theorems.                                                            *)

\* The inductive invariant.
IInv == TypeOK /\ Life /\ Queue /\ Writes

\* Init establishes the invariant.
LEMMA InitIInv == Init => IInv
  BY InitType, InitLife, InitQueue, InitWrites DEF IInv

\* Every step preserves the invariant.
LEMMA StepIInv == IInv /\ [Next]_vars => IInv'
  BY StepType, StepLife, StepQueue, StepWrites DEF IInv, Queue

\* The inductive invariant holds in every reachable state.
THEOREM Invariance == Spec => []IInv
  BY InitIInv, StepIInv, PTL DEF Spec

\* What the life cycle gives.
LEMMA LifeImplies ==
    ASSUME IInv
    PROVE  ClosedOnce /\ FreedIsQuiescent
<1>1. /\ \A t \in Threads : t # "self"
      /\ socket_ \in {"open", "invalid"} /\ phase \in {"new", "live", "freed"}
  BY ThreadsAreOwners DEF IInv, TypeOK
<1>2. ClosedOnce
  BY <1>1 DEF IInv, Life, References, ClosedIsQuiet, ClosedCounted, ClosedOnce
<1>3. FreedIsQuiescent
  BY <1>1 DEF IInv, Life, References, CallbacksRunLive, ClosedIsQuiet,
              FreedIsQuiescent
<1> QED  BY <1>2, <1>3

\* OnConnectionClosed is called at most once, and the handler keeps its own
\* reference from Create until Close has closed the socket.
THEOREM NotifiedOnce == Spec => []ClosedOnce
  BY Invariance, LifeImplies, PTL

\* ~IOHandler runs only on closed sockets that libevent no longer watches.
THEOREM FreedQuietly == Spec => []FreedIsQuiescent
  BY Invariance, LifeImplies, PTL

\* A posted OnCreated never runs on a deleted handler.
THEOREM OnCreatedFindsHandler == Spec => []OnlySendsGoStale
<1>1. IInv => OnlySendsGoStale  BY DEF IInv, Queue
<1> QED  BY <1>1, Invariance, PTL

\* An open connection waits, and is watched, for writability exactly when it
\* has unsent bytes.
THEOREM WaitsExactlyWhenBuffered == Spec => []WritingIffBuffered
<1>1. IInv => WritingIffBuffered  BY DEF IInv, Writes
<1> QED  BY <1>1, Invariance, PTL

\* Until a send fails, the kernel's bytes followed by the buffered ones are
\* the bytes given to SendInternal: none lost, repeated or overtaken.
THEOREM StreamStaysIntact == Spec => []StreamIntact
<1>1. IInv => StreamIntact  BY DEF IInv, Writes
<1> QED  BY <1>1, Invariance, PTL

\* No step starts a callback after OnConnectionClosed.
LEMMA StepSilent ==
    IInv /\ [Next]_vars => (closed_calls = 1 => cb' \in {cb, "none"})
<1> SUFFICES ASSUME IInv, [Next]_vars, closed_calls = 1
             PROVE  cb' \in {cb, "none"}
  OBVIOUS
<1> USE DEF handler, kernel, history
<1>0. /\ socket_ \in {"open", "invalid"}
      /\ cb = "OnConnectionClosed" \/ (socket_ = "invalid" /\ cb = "none")
      /\ Announced /\ phase # "new"
  BY DEF IInv, TypeOK, Life, References, CallbacksRunLive, ClosedIsQuiet,
         ClosedCounted
<1>1. ~CreateOnLoop /\ \A t \in Threads : ~CreateFrom(t)
  BY <1>0 DEF CreateOnLoop, CreateFrom
<1>2. ~ReadData /\ ~ReadEnd /\ ~ReturnZero /\ ~ReturnNonZero
  BY <1>0 DEF ReadData, ReadEnd, ReturnZero, ReturnNonZero, IInv, Life,
              ClosedIsQuiet
<1>3. ~RunOnCreated
  <2> SUFFICES ASSUME RunOnCreated PROVE FALSE
    OBVIOUS
  <2>1. tasks \in Seq(Task) /\ tasks # <<>>
    BY DEF RunOnCreated, IInv, TypeOK, Task, Byte
  <2>2. 1 \in 1 .. Len(tasks) /\ Head(tasks) = tasks[1]
    BY <2>1, HeadTailProperties
  <2> QED  BY <1>0, <2>2 DEF RunOnCreated, IInv, Queue, TasksInOrder
<1>4. CASE SendOnLoop
  <2>1. PICK d : SendInternal(d)  BY <1>4 DEF SendOnLoop
  <2> QED  BY <2>1, SendInternalFrame
<1>5. CASE RunSendInternal2
  BY <1>5, SendInternalFrame DEF RunSendInternal2
<1>6. CASE RunStaleTask  BY <1>6 DEF RunStaleTask
<1>7. CASE OnWrite  BY <1>7 DEF OnWrite
<1>8. CASE EndClose  BY <1>8 DEF EndClose
<1>9. ASSUME NEW t \in Threads, Hold(t) \/ Drop(t) \/ SendFrom(t)
      PROVE  cb' \in {cb, "none"}
  BY <1>9 DEF Hold, Drop, SendFrom
<1>10. CASE Drain \/ PeerSends \/ PeerEnds
  BY <1>10 DEF Drain, PeerSends, PeerEnds
<1>11. CASE UNCHANGED vars  BY <1>11 DEF vars
<1> QED
  BY <1>1, <1>2, <1>3, <1>4, <1>5, <1>6, <1>7, <1>8, <1>9, <1>10, <1>11
     DEF Next, LoopStep

\* After OnConnectionClosed the delegate is never called again.
THEOREM SilentAfterClosed == Spec => NothingAfterClosed
  BY Invariance, StepSilent, PTL DEF Spec, NothingAfterClosed


-----------------------------------------------------------------------------
(* The order of the sends.  SendsOrdered is not inductive: the queue may     *)
(* hold sends whose place in the stream is still open.  Every posted send    *)
(* comes from another thread than the loop's, after everything of that       *)
(* thread that is in the stream, and the queue is in the order of posting.   *)

\* The bytes of str belong to sends that were made.
Numbered(str, snd) == \A i \in 1 .. Len(str) : str[i][1] \in 1 .. Len(snd)

\* The i-th and the j-th byte of str are in order.
InOrder(str, snd, i, j) ==
    /\ snd[str[i][1]] = snd[str[j][1]] =>
          \/ str[i][1] < str[j][1]
          \/ str[i][1] = str[j][1] /\ str[i][2] < str[j][2]
    /\ str[i][1] = str[j][1] => \A k \in i .. j : str[k][1] = str[i][1]

Ordered(str, snd) ==
    \A i, j \in 1 .. Len(str) : i < j => InOrder(str, snd, i, j)

\* What the sender of send m has in str it sent before m.
Ahead(str, snd, m) ==
    \A i \in 1 .. Len(str) : snd[str[i][1]] = snd[m] => str[i][1] < m

\* d is the string of a send made by another thread, and its turn is yet to
\* come.
Posted(str, snd, d) ==
    \E m \in 1 .. Len(snd), n \in Lengths :
        d = Data(m, n) /\ snd[m] # "loop" /\ Ahead(str, snd, m)

\* The number of the send whose string is d.
Number(d) == d[1][1]

IsSend(task) == task.op = "SendInternal2"

\* The sends of a queue are waiting for their turn, in the order of posting.
Waiting(str, snd, tks) ==
    /\ \A k \in 1 .. Len(tks) : IsSend(tks[k]) => Posted(str, snd, tks[k].data)
    /\ \A k, l \in 1 .. Len(tks) :
          k < l /\ IsSend(tks[k]) /\ IsSend(tks[l]) =>
              Number(tks[k].data) < Number(tks[l].data)

Sends ==
    /\ Numbered(stream, sender)
    /\ Ordered(stream, sender)
    /\ Waiting(stream, sender, tasks)

\* The bytes of a send.
LEMMA DataBytes ==
    ASSUME NEW m \in Nat, NEW n \in Lengths
    PROVE  /\ n \in Nat /\ 1 \in 1 .. n
           /\ Data(m, n) \in Seq(Byte) /\ Len(Data(m, n)) = n
           /\ \A i \in 1 .. n : Data(m, n)[i] = <<m, i>>
           /\ Number(Data(m, n)) = m
<1>1. n \in Nat /\ 1 \in 1 .. n  BY IOHandlerConstants
<1>2. \A i \in 1 .. n : Data(m, n)[i] = <<m, i>>  BY DEF Data
<1>3. Number(Data(m, n)) = m  BY <1>1, <1>2 DEF Number
<1> QED  BY <1>1, <1>2, <1>3, DataType

\* c is str followed by the n bytes of send m.
Extended(c, str, m, n) ==
    /\ Len(c) = Len(str) + n
    /\ \A i \in 1 .. Len(str) : c[i] = str[i]
    /\ \A i \in Len(str) + 1 .. Len(str) + n :
          c[i][1] = m /\ c[i][2] = i - Len(str)

\* The stream behind which the string of send m is put.
LEMMA StreamBytes ==
    ASSUME NEW str \in Seq(Byte), NEW m \in Nat, NEW n \in Lengths,
           NEW c, c = str \o Data(m, n)
    PROVE  Extended(c, str, m, n)
<1>1. PICK d : d = Data(m, n)  OBVIOUS
<1>2. d \in Seq(Byte) /\ Len(d) = n /\ n \in Nat /\ \A i \in 1 .. n : d[i] = <<m, i>>
  BY <1>1, DataBytes
<1>3. PICK z \in Nat : z = Len(str)  OBVIOUS
<1>4. /\ Len(c) = z + n
      /\ \A i \in 1 .. z + n : c[i] = IF i <= z THEN str[i] ELSE d[i - z]
  <2>1. c = str \o d  BY <1>1
  <2>2. /\ Len(str \o d) = Len(str) + Len(d)
        /\ \A i \in 1 .. Len(str) + Len(d) :
              (str \o d)[i] = IF i <= Len(str) THEN str[i] ELSE d[i - Len(str)]
    BY <1>2, ConcatProperties
  <2> QED  BY <1>2, <1>3, <2>1, <2>2
<1>5. ASSUME NEW i \in 1 .. z PROVE c[i] = str[i]
  <2>1. i \in 1 .. z + n /\ i <= z  BY <1>2
  <2> QED  BY <1>4, <2>1
<1>6. ASSUME NEW i \in z + 1 .. z + n PROVE c[i][1] = m /\ c[i][2] = i - z
  <2>1. i \in 1 .. z + n /\ ~(i <= z) /\ i - z \in 1 .. n  BY <1>2
  <2>2. c[i] = <<m, i - z>>  BY <1>2, <1>4, <2>1
  <2> QED  BY <2>2
<1> QED  BY <1>3, <1>4, <1>5, <1>6 DEF Extended

\* A send whose turn has come keeps the stream in order.
LEMMA OrderedAppend ==
    ASSUME NEW S, NEW snd \in Seq(S), NEW str \in Seq(Byte),
           NEW m \in Nat, NEW n \in Lengths,
           NEW c, c = str \o Data(m, n),
           m \in 1 .. Len(snd), Numbered(str, snd), Ordered(str, snd),
           Ahead(str, snd, m)
    PROVE  Numbered(c, snd) /\ Ordered(c, snd)
<1>1. PICK z \in Nat : z = Len(str)  OBVIOUS
<1>2. n \in Nat  BY DataBytes
<1>3. /\ Len(c) = z + n
      /\ \A i \in 1 .. z : c[i] = str[i]
      /\ \A i \in z + 1 .. z + n : c[i][1] = m /\ c[i][2] = i - z
  <2>1. Extended(c, str, m, n)  BY StreamBytes
  <2> QED  BY <1>1, <2>1 DEF Extended
<1>4. \A i \in 1 .. z + n : i \in 1 .. z \/ i \in z + 1 .. z + n
  BY <1>2
<1>5. Numbered(c, snd)
  <2> SUFFICES ASSUME NEW i \in 1 .. z + n PROVE c[i][1] \in 1 .. Len(snd)
    BY <1>3 DEF Numbered
  <2>1. CASE i \in 1 .. z  BY <1>1, <1>3, <2>1 DEF Numbered
  <2>2. CASE i \in z + 1 .. z + n  BY <1>3, <2>2
  <2> QED  BY <1>4, <2>1, <2>2
<1>6. Ordered(c, snd)
  <2> SUFFICES ASSUME NEW i \in 1 .. z + n, NEW j \in 1 .. z + n, i < j
               PROVE  InOrder(c, snd, i, j)
    BY <1>3 DEF Ordered
  <2>1. CASE j \in 1 .. z
    <3>1. i \in 1 .. z /\ \A k \in i .. j : k \in 1 .. z  BY <1>2, <2>1
    <3>2. InOrder(str, snd, i, j)  BY <1>1, <2>1, <3>1 DEF Ordered
    <3>3. c[i] = str[i] /\ c[j] = str[j] /\ \A k \in i .. j : c[k] = str[k]
      BY <1>3, <2>1, <3>1
    <3> QED  BY <3>2, <3>3 DEF InOrder
  <2>2. CASE i \in 1 .. z /\ j \in z + 1 .. z + n
    <3>1. c[i] = str[i] /\ c[j][1] = m  BY <1>3, <2>2
    <3>2. snd[str[i][1]] = snd[m] => str[i][1] < m  BY <1>1, <2>2 DEF Ahead
    <3>3. str[i][1] = m => FALSE
      <4>1. ~(m < m)  OBVIOUS
      <4> QED  BY <3>2, <4>1
    <3> QED  BY <3>1, <3>2, <3>3 DEF InOrder
  <2>3. CASE i \in z + 1 .. z + n /\ j \in z + 1 .. z + n
    <3>1. \A k \in i .. j : k \in z + 1 .. z + n  BY <1>2, <2>3
    <3>2. /\ c[i][1] = m /\ c[j][1] = m /\ c[i][2] = i - z /\ c[j][2] = j - z
          /\ \A k \in i .. j : c[k][1] = m
      BY <1>3, <2>3, <3>1
    <3>3. i - z < j - z  BY <1>2
    <3> QED  BY <3>2, <3>3 DEF InOrder
  <2>4. ~(i \in z + 1 .. z + n /\ j \in 1 .. z)  BY <1>2
  <2> QED  BY <1>4, <2>1, <2>2, <2>3, <2>4
<1> QED  BY <1>5, <1>6

\* snd2 is snd, of z sends, and one more send by s.
OneMore(str, snd, snd2, s, z) ==
    /\ Len(snd2) = z + 1 /\ z + 1 \in 1 .. Len(snd2) /\ snd2[z + 1] = s
    /\ Numbered(str, snd2) /\ Ordered(str, snd2)
    /\ Ahead(str, snd2, z + 1)
    /\ \A d : Posted(str, snd, d) => Posted(str, snd2, d)

\* A new send changes nothing for the earlier ones, and everything in the
\* stream is ahead of it.
LEMMA NewSend ==
    ASSUME NEW S, NEW snd \in Seq(S), NEW s \in S, NEW str,
           Numbered(str, snd), Ordered(str, snd),
           NEW snd2, snd2 = Append(snd, s), NEW z \in Nat, z = Len(snd)
    PROVE  snd2 \in Seq(S) /\ OneMore(str, snd, snd2, s, z)
<1>1. /\ snd2 \in Seq(S) /\ Len(snd2) = z + 1 /\ snd2[z + 1] = s
      /\ \A i \in 1 .. z : snd2[i] = snd[i]
  BY AppendProperties
<1>2. z + 1 \in 1 .. z + 1 /\ \A i \in 1 .. z : i \in 1 .. z + 1 /\ i < z + 1
  OBVIOUS
<1>3. \A i \in 1 .. Len(str) :
         str[i][1] \in 1 .. z /\ snd2[str[i][1]] = snd[str[i][1]]
  BY <1>1 DEF Numbered
<1>4. Numbered(str, snd2)  BY <1>1, <1>2, <1>3 DEF Numbered
<1>5. Ordered(str, snd2)
  BY <1>3 DEF Ordered, InOrder
<1>6. Ahead(str, snd2, z + 1)  BY <1>2, <1>3 DEF Ahead
<1>7. ASSUME NEW d, Posted(str, snd, d) PROVE Posted(str, snd2, d)
  <2>1. PICK m \in 1 .. z, n \in Lengths :
            d = Data(m, n) /\ snd[m] # "loop" /\ Ahead(str, snd, m)
    BY <1>7 DEF Posted
  <2>2. m \in 1 .. z + 1 /\ snd2[m] = snd[m]  BY <1>1, <1>2, <2>1
  <2>3. Ahead(str, snd2, m)  BY <1>3, <2>1, <2>2 DEF Ahead
  <2> QED  BY <1>1, <2>1, <2>2, <2>3 DEF Posted
<1> QED  BY <1>1, <1>2, <1>4, <1>5, <1>6, <1>7 DEF OneMore

\* Taking the first task.
LEMMA WaitingTail ==
    ASSUME NEW str, NEW snd, NEW tks \in Seq(Task), tks # <<>>,
           Waiting(str, snd, tks)
    PROVE  /\ Waiting(str, snd, Tail(tks))
           /\ Head(tks) = tks[1] /\ 1 \in 1 .. Len(tks)
           /\ \A k \in 1 .. Len(Tail(tks)) :
                 /\ k + 1 \in 1 .. Len(tks) /\ 1 < k + 1
                 /\ Tail(tks)[k] = tks[k + 1]
<1>1. PICK z \in Nat : z = Len(tks)  OBVIOUS
<1>2. PICK r : r = Tail(tks)  OBVIOUS
<1>3. /\ z # 0 /\ Len(r) = z - 1 /\ Head(tks) = tks[1]
      /\ \A k \in 1 .. z - 1 : r[k] = tks[k + 1]
  BY <1>1, <1>2, HeadTailProperties, EmptySeq
<1>4. /\ 1 \in 1 .. z
      /\ \A k \in 1 .. z - 1 : k + 1 \in 1 .. z /\ 1 < k + 1
      /\ \A k, l \in 1 .. z - 1 : k < l => k + 1 < l + 1
  BY <1>3
<1>5. Waiting(str, snd, r)
  <2>1. ASSUME NEW k \in 1 .. z - 1, IsSend(r[k])
        PROVE  Posted(str, snd, r[k].data)
    BY <1>1, <1>3, <1>4, <2>1 DEF Waiting
  <2>2. ASSUME NEW k \in 1 .. z - 1, NEW l \in 1 .. z - 1,
               k < l, IsSend(r[k]), IsSend(r[l])
        PROVE  Number(r[k].data) < Number(r[l].data)
    BY <1>1, <1>3, <1>4, <2>2 DEF Waiting
  <2> QED  BY <1>3, <2>1, <2>2 DEF Waiting
<1> QED  BY <1>1, <1>2, <1>3, <1>4, <1>5

\* Posting a task behind the others, whose sends are all earlier than it.
LEMMA WaitingAppend ==
    ASSUME NEW str, NEW snd, NEW tks \in Seq(Task), NEW t \in Task,
           Waiting(str, snd, tks),
           IsSend(t) => /\ Posted(str, snd, t.data)
                        /\ \A k \in 1 .. Len(tks) :
                              IsSend(tks[k]) => Number(tks[k].data) < Number(t.data)
    PROVE  Waiting(str, snd, Append(tks, t))
<1>1. PICK z \in Nat : z = Len(tks)  OBVIOUS
<1>2. PICK r : r = Append(tks, t)  OBVIOUS
<1>3. /\ Len(r) = z + 1 /\ r[z + 1] = t
      /\ \A k \in 1 .. z : r[k] = tks[k]
  BY <1>1, <1>2, AppendProperties
<1>4. /\ \A k \in 1 .. z + 1 : k \in 1 .. z \/ k = z + 1
      /\ \A k, l \in 1 .. z + 1 : k < l => k \in 1 .. z
  OBVIOUS
<1>5. ASSUME NEW k \in 1 .. z + 1, IsSend(r[k])
      PROVE  Posted(str, snd, r[k].data)
  BY <1>1, <1>3, <1>4, <1>5 DEF Waiting
<1>6. ASSUME NEW k \in 1 .. z + 1, NEW l \in 1 .. z + 1,
             k < l, IsSend(r[k]), IsSend(r[l])
      PROVE  Number(r[k].data) < Number(r[l].data)
  <2>1. k \in 1 .. z /\ r[k] = tks[k]  BY <1>3, <1>4, <1>6
  <2>2. CASE l \in 1 .. z
    BY <1>1, <1>3, <1>6, <2>1, <2>2 DEF Waiting
  <2>3. CASE l = z + 1
    BY <1>1, <1>3, <1>6, <2>1, <2>3
  <2> QED  BY <1>4, <2>2, <2>3
<1> QED  BY <1>2, <1>3, <1>5, <1>6 DEF Waiting

\* A send that enters the stream stays ahead of a later one, and of the sends
\* of every other thread.
LEMMA PostedAppend ==
    ASSUME NEW S, NEW snd \in Seq(S), NEW str \in Seq(Byte),
           NEW m \in Nat, NEW n \in Lengths,
           NEW c, c = str \o Data(m, n), NEW d, Posted(str, snd, d),
           m < Number(d) \/ snd[m] = "loop"
    PROVE  Posted(c, snd, d)
<1>1. PICK z \in Nat : z = Len(str)  OBVIOUS
<1>2. n \in Nat  BY DataBytes
<1>3. /\ Len(c) = z + n
      /\ \A i \in 1 .. z : c[i] = str[i]
      /\ \A i \in z + 1 .. z + n : c[i][1] = m
  <2>1. Extended(c, str, m, n)  BY StreamBytes
  <2> QED  BY <1>1, <2>1 DEF Extended
<1>4. PICK m2 \in 1 .. Len(snd), n2 \in Lengths :
          d = Data(m2, n2) /\ snd[m2] # "loop" /\ Ahead(str, snd, m2)
  BY DEF Posted
<1>5. m2 \in Nat  OBVIOUS
<1>6. Number(d) = m2  BY <1>4, <1>5, DataBytes
<1>7. Ahead(c, snd, m2)
  <2> SUFFICES ASSUME NEW i \in 1 .. z + n, snd[c[i][1]] = snd[m2]
               PROVE  c[i][1] < m2
    BY <1>3 DEF Ahead
  <2>1. CASE i \in 1 .. z  BY <1>1, <1>3, <1>4, <2>1 DEF Ahead
  <2>2. CASE i \in z + 1 .. z + n  BY <1>3, <1>4, <1>6, <2>2
  <2>3. i \in 1 .. z \/ i \in z + 1 .. z + n  BY <1>2
  <2> QED  BY <2>1, <2>2, <2>3
<1> QED  BY <1>4, <1>7 DEF Posted

\* A new handler has sent nothing.
LEMMA InitSends == Init => Sends
<1> SUFFICES ASSUME Init PROVE Sends
  OBVIOUS
<1>1. Len(stream) = 0 /\ Len(tasks) = 0 /\ 1 .. 0 = {}
  BY DEF Init
<1> QED  BY <1>1 DEF Sends, Numbered, Ordered, Waiting

\* Sending from the loop thread.
LEMMA SendOnLoopSends == TypeOK /\ Sends /\ SendOnLoop => Sends'
<1> SUFFICES ASSUME TypeOK, Sends, SendOnLoop PROVE Sends'
  OBVIOUS
<1>0. PICK S : S = Threads \cup {"loop"}  OBVIOUS
<1>1. /\ stream \in Seq(Byte) /\ sender \in Seq(S) /\ "loop" \in S
      /\ Numbered(stream, sender) /\ Ordered(stream, sender)
      /\ Waiting(stream, sender, tasks)
  BY <1>0 DEF TypeOK, Byte, Sends
<1>2. PICK z \in Nat : z = Len(sender)  BY <1>1
<1>3. PICK snd : snd = sender'  OBVIOUS
<1>4. snd = Append(sender, "loop")  BY <1>3 DEF SendOnLoop
<1>5. /\ snd \in Seq(S) /\ Len(snd) = z + 1
      /\ z + 1 \in 1 .. Len(snd) /\ snd[z + 1] = "loop"
      /\ Numbered(stream, snd) /\ Ordered(stream, snd)
      /\ Ahead(stream, snd, z + 1)
      /\ \A d : Posted(stream, sender, d) => Posted(stream, snd, d)
  <2>1. snd \in Seq(S) /\ OneMore(stream, sender, snd, "loop", z)
    BY <1>1, <1>2, <1>4, NewSend
  <2> QED  BY <2>1 DEF OneMore
<1>6. PICK n \in Lengths : SendInternal(Data(z + 1, n))
  BY <1>3, <1>5 DEF SendOnLoop
<1>7. PICK c : c = stream'  OBVIOUS
<1>8. c = stream \o Data(z + 1, n)  BY <1>6, <1>7 DEF SendInternal
<1>9. z + 1 \in Nat  OBVIOUS
<1>10. Numbered(c, snd) /\ Ordered(c, snd)
  BY <1>1, <1>5, <1>8, <1>9, OrderedAppend, ZenonT(40)
<1>11. \A d : Posted(stream, snd, d) => Posted(c, snd, d)
  BY <1>1, <1>5, <1>8, <1>9, PostedAppend, ZenonT(40)
<1>12. Waiting(c, snd, tasks)  BY <1>1, <1>5, <1>11 DEF Waiting
<1>13. tasks' = tasks  BY DEF SendOnLoop
<1> QED  BY <1>3, <1>7, <1>10, <1>12, <1>13 DEF Sends

\* Sending from another thread.
LEMMA SendFromSends ==
    ASSUME TypeOK, Sends, NEW t \in Threads, SendFrom(t)
    PROVE  Sends'
<1>0. PICK S : S = Threads \cup {"loop"}  OBVIOUS
<1>1. /\ stream \in Seq(Byte) /\ sender \in Seq(S) /\ t \in S /\ t # "loop"
      /\ tasks \in Seq(Task)
      /\ Numbered(stream, sender) /\ Ordered(stream, sender)
      /\ Waiting(stream, sender, tasks)
  BY <1>0, ThreadsAreOwners DEF TypeOK, Byte, Task, Sends
<1>2. PICK z \in Nat : z = Len(sender)  BY <1>1
<1>3. PICK snd : snd = sender'  OBVIOUS
<1>4. snd = Append(sender, t) /\ stream' = stream
  BY <1>3 DEF SendFrom
<1>5. /\ Len(snd) = z + 1 /\ z + 1 \in 1 .. Len(snd) /\ snd[z + 1] = t
      /\ Numbered(stream, snd) /\ Ordered(stream, snd)
      /\ Ahead(stream, snd, z + 1)
      /\ \A d : Posted(stream, sender, d) => Posted(stream, snd, d)
  <2>1. snd \in Seq(S) /\ OneMore(stream, sender, snd, t, z)
    BY <1>1, <1>2, <1>4, NewSend
  <2> QED  BY <2>1 DEF OneMore
<1>6. PICK n \in Lengths : tasks' = Append(tasks, SendTask(Data(z + 1, n)))
  BY <1>3, <1>5 DEF SendFrom
<1>7. PICK d, new : d = Data(z + 1, n) /\ new = SendTask(d)  OBVIOUS
<1>8. z + 1 \in Nat  OBVIOUS
<1>9. d \in Seq(Byte) /\ Number(d) = z + 1  BY <1>7, <1>8, DataBytes
<1>10. new \in Task /\ new.data = d  BY <1>7, <1>9 DEF SendTask, Task
<1>11. Posted(stream, snd, d)
  BY <1>1, <1>5, <1>7 DEF Posted
<1>12. Waiting(stream, snd, tasks)  BY <1>1, <1>5 DEF Waiting
<1>13. ASSUME NEW k \in 1 .. Len(tasks), IsSend(tasks[k])
       PROVE  Number(tasks[k].data) < z + 1
  <2>1. Posted(stream, sender, tasks[k].data)  BY <1>1, <1>13 DEF Waiting
  <2>2. PICK m \in 1 .. z, n2 \in Lengths : tasks[k].data = Data(m, n2)
    BY <1>2, <2>1 DEF Posted
  <2>3. m \in Nat /\ m < z + 1  OBVIOUS
  <2>4. Number(tasks[k].data) = m  BY <2>2, <2>3, DataBytes
  <2> QED  BY <2>3, <2>4
<1>14. Waiting(stream, snd, Append(tasks, new))
  BY <1>1, <1>9, <1>10, <1>11, <1>12, <1>13, WaitingAppend
<1> QED  BY <1>3, <1>4, <1>5, <1>6, <1>7, <1>14 DEF Sends

\* Running a posted send.
LEMMA RunSends == TypeOK /\ Sends /\ RunSendInternal2 => Sends'
<1> SUFFICES ASSUME TypeOK, Sends, RunSendInternal2 PROVE Sends'
  OBVIOUS
<1>1. /\ stream \in Seq(Byte) /\ sender \in Seq(Threads \cup {"loop"})
      /\ tasks \in Seq(Task) /\ tasks # <<>>
      /\ Numbered(stream, sender) /\ Ordered(stream, sender)
      /\ Waiting(stream, sender, tasks)
  BY DEF TypeOK, Byte, Task, Sends, RunSendInternal2
<1>2. PICK r : r = Tail(tasks)  OBVIOUS
<1>3. /\ Waiting(stream, sender, r) /\ Head(tasks) = tasks[1]
      /\ 1 \in 1 .. Len(tasks)
      /\ \A k \in 1 .. Len(r) :
            k + 1 \in 1 .. Len(tasks) /\ 1 < k + 1 /\ r[k] = tasks[k + 1]
  BY <1>1, <1>2, WaitingTail
<1>4. /\ IsSend(tasks[1]) /\ SendInternal(tasks[1].data) /\ tasks' = r
      /\ sender' = sender
  BY <1>2, <1>3 DEF RunSendInternal2, IsSend
<1>5. PICK m \in 1 .. Len(sender), n \in Lengths :
          tasks[1].data = Data(m, n) /\ Ahead(stream, sender, m)
  BY <1>1, <1>3, <1>4 DEF Waiting, Posted
<1>6. m \in Nat /\ m \in 1 .. Len(sender)  BY <1>1
<1>7. Number(tasks[1].data) = m  BY <1>5, <1>6, DataBytes
<1>8. PICK c : c = stream'  OBVIOUS
<1>9. c = stream \o Data(m, n)  BY <1>4, <1>5, <1>8 DEF SendInternal
<1>10. Numbered(c, sender) /\ Ordered(c, sender)
  BY <1>1, <1>5, <1>6, <1>9, OrderedAppend
<1>11. ASSUME NEW k \in 1 .. Len(r), IsSend(r[k])
       PROVE  Posted(c, sender, r[k].data)
  <2>1. m < Number(r[k].data)
    BY <1>1, <1>3, <1>4, <1>7, <1>11 DEF Waiting
  <2>2. Posted(stream, sender, r[k].data)  BY <1>3, <1>11 DEF Waiting
  <2> QED  BY <1>1, <1>6, <1>9, <2>1, <2>2, PostedAppend
<1>12. Waiting(c, sender, r)  BY <1>3, <1>11 DEF Waiting
<1> QED  BY <1>4, <1>8, <1>10, <1>12 DEF Sends

\* Every step keeps the sends in order.
LEMMA StepSends == TypeOK /\ Sends /\ [Next]_vars => Sends'
<1> SUFFICES ASSUME TypeOK, Sends, [Next]_vars PROVE Sends'
  OBVIOUS
<1> USE DEF handler, kernel, history
<1>0. tasks \in Seq(Task) /\ Waiting(stream, sender, tasks)
  BY DEF TypeOK, Task, Byte, Sends
<1>1. ASSUME UNCHANGED <<stream, sender>>, tasks # <<>>, tasks' = Tail(tasks)
      PROVE  Sends'
  <2>1. Waiting(stream, sender, Tail(tasks))  BY <1>0, <1>1, WaitingTail
  <2> QED  BY <1>1, <2>1 DEF Sends
<1>2. ASSUME UNCHANGED <<stream, sender, tasks>> PROVE Sends'
  BY <1>2 DEF Sends
<1>3. CASE RunOnCreated
  BY <1>1, <1>3 DEF RunOnCreated
<1>4. CASE RunStaleTask
  BY <1>1, <1>4 DEF RunStaleTask
<1>5. ASSUME NEW t \in Threads, CreateFrom(t) PROVE Sends'
  <2>1. CreatedTask \in Task /\ ~IsSend(CreatedTask)
    BY DEF CreatedTask, Task, IsSend
  <2>2. Waiting(stream, sender, Append(tasks, CreatedTask))
    BY <1>0, <2>1, WaitingAppend
  <2>3. tasks' = Append(tasks, CreatedTask) /\ UNCHANGED <<stream, sender>>
    BY <1>5 DEF CreateFrom
  <2> QED  BY <2>2, <2>3 DEF Sends
<1>6. CASE SendOnLoop  BY <1>6, SendOnLoopSends
<1>7. CASE RunSendInternal2  BY <1>7, RunSends
<1>8. ASSUME NEW t \in Threads, SendFrom(t) PROVE Sends'
  BY <1>8, SendFromSends
<1>9. CASE CreateOnLoop \/ OnWrite \/ ReadData \/ ReadEnd \/ ReturnZero
           \/ ReturnNonZero \/ EndClose
  BY <1>2, <1>9 DEF CreateOnLoop, OnWrite, ReadData, ReadEnd, ReturnZero,
                    ReturnNonZero, EndClose
<1>10. ASSUME NEW t \in Threads, Hold(t) \/ Drop(t) PROVE Sends'
  BY <1>2, <1>10 DEF Hold, Drop
<1>11. CASE Drain \/ PeerSends \/ PeerEnds \/ UNCHANGED vars
  BY <1>2, <1>11 DEF Drain, PeerSends, PeerEnds, vars
<1> QED
  BY <1>3, <1>4, <1>5, <1>6, <1>7, <1>8, <1>9, <1>10, <1>11 DEF Next, LoopStep

\* For any number of threads and sends: what one thread sends reaches the
\* stream in the order it sent it, and no other bytes come between those of a
\* send, whether SendInternal is called directly or from a posted task.
THEOREM SendsStayOrdered == Spec => []SendsOrdered
<1>1. TypeOK /\ Sends => SendsOrdered
  <2> SUFFICES ASSUME TypeOK, Sends PROVE SendsOrdered
    OBVIOUS
  <2>1. stream \in Seq(Byte)  BY DEF TypeOK, Byte
  <2>2. DOMAIN stream = 1 .. Len(stream)  BY <2>1, LenProperties
  <2> QED  BY <2>2 DEF Sends, Ordered, InOrder, SendsOrdered
<1> QED
  BY <1>1, InitType, StepType, InitSends, StepSends, PTL DEF Spec
=============================================================================
