------------------------------ MODULE IOBuffer ------------------------------
(***************************************************************************)
(* net::IOBuffer (net/base/io_buffer.h, io_buffer.cc): one growable vector  *)
(* with a reader and a writer index.                                        *)
(*                                                                          *)
(*   | prependable bytes | readable bytes (CONTENT) | writable bytes |      *)
(*   0     <=     reader_index_    <=    writer_index_     <=      size     *)
(*                                                                          *)
(* buffer_ is the vector's bytes (offset i of the code is buffer_[i + 1]),  *)
(* result the last value handed to a caller, and failed the names of the    *)
(* methods in which a DCHECK was false; like a release build, the methods   *)
(* go on after one.  Integers are modelled by the bytes they are read from: *)
(* the values and the byte order are left out, the bytes consumed are not.  *)
(* Each method is called under the precondition its DCHECK states.          *)
(***************************************************************************)
EXTENDS Integers, Sequences

CONSTANTS
    Byte,           \* the values of a char
    Zero,           \* what vector::resize fills with
    kCheapPrepend,  \* bytes kept free in front of the content (8)
    kInitialSize,   \* default writable size (1024)
    InitialSizes,   \* the sizes buffers are constructed with (64 in IOHandler)
    ExtraBuf,       \* size of the stack buffer ReadFd reads into (65536)
    IntSizes        \* sizeof of the integer types read and written

ASSUME IOBufferConstants ==
    /\ Zero \in Byte
    /\ kCheapPrepend \in Nat
    /\ kInitialSize \in Nat
    /\ InitialSizes \subseteq Nat
    /\ ExtraBuf \in Nat
    /\ IntSizes \subseteq Nat

CONSTANTS
    Data,           \* the strings callers write
    MaxSize         \* bound: no call that would grow the vector beyond it

ASSUME IOBufferData ==
    /\ Data \subseteq Seq(Byte)
    /\ MaxSize \in Nat

VARIABLES
    os,             \* the build: its ReadFd, fixed at the start
    buffer_, reader_index_, writer_index_,
    result, failed

vars == <<os, buffer_, reader_index_, writer_index_, result, failed>>

\* A buffer as a value: the methods are functions from buffers to buffers.
Buf(b, r, w) == [bytes |-> b, reader |-> r, writer |-> w]

This == Buf(buffer_, reader_index_, writer_index_)

ReadableBytes(q) == q.writer - q.reader
WritableBytes(q) == Len(q.bytes) - q.writer
PrependableBytes(q) == q.reader

\* The bytes Peek() .. Peek()+len-1.
PeekBytes(q, len) == SubSeq(q.bytes, q.reader + 1, q.reader + len)
Content(q) == PeekBytes(q, ReadableBytes(q))

\* Overwrite the bytes from offset at on with d (std::copy into the vector).
CopyTo(bytes, at, d) ==
    [i \in 1 .. Len(bytes) |->
        IF at < i /\ i <= at + Len(d) THEN d[i - at] ELSE bytes[i]]

\* vector::resize to a larger size.
Resize(bytes, size) ==
    [i \in 1 .. size |-> IF i <= Len(bytes) THEN bytes[i] ELSE Zero]

-----------------------------------------------------------------------------
(* Constructor and the private helpers.                                     *)

New(initial_size) ==
    Buf([i \in 1 .. kCheapPrepend + initial_size |-> Zero],
        kCheapPrepend, kCheapPrepend)

\* Mutant: room in front is counted without the bytes kept for Prepend.
GrowsTooLate(q, len) ==
    WritableBytes(q) + PrependableBytes(q) + kCheapPrepend < len

\* Grow, or move the readable bytes back to kCheapPrepend.
Grows(q, len) ==
    WritableBytes(q) + PrependableBytes(q) < len + kCheapPrepend

\* Mutant: the bytes are copied from the vector's start, not from Peek().
MoveToFrontFromBegin(q) ==
    Buf(CopyTo(q.bytes, kCheapPrepend, SubSeq(q.bytes, 1, ReadableBytes(q))),
        kCheapPrepend, kCheapPrepend + ReadableBytes(q))

MoveToFront(q) ==
    Buf(CopyTo(q.bytes, kCheapPrepend, Content(q)),
        kCheapPrepend, kCheapPrepend + ReadableBytes(q))

MakeSpace(q, len) ==
    IF Grows(q, len)
    THEN Buf(Resize(q.bytes, q.writer + len), q.reader, q.writer)
    ELSE MoveToFront(q)

\* Mutant: one byte too few is taken for enough.
EnsureWritableBytesOffByOne(q, len) ==
    IF WritableBytes(q) + 1 < len THEN MakeSpace(q, len) ELSE q

EnsureWritableBytes(q, len) ==
    IF WritableBytes(q) < len THEN MakeSpace(q, len) ELSE q

HasWritten(q, len) == [q EXCEPT !.writer = @ + len]

\* Mutant: BeginWrite() is taken before the room is made, and is stale when
\* the content moved to the front.
WriteToStale(q, d) ==
    LET e == EnsureWritableBytes(q, Len(d))
    IN  HasWritten([e EXCEPT !.bytes = CopyTo(@, q.writer, d)], Len(d))

\* Write(data, len): make room, copy at BeginWrite(), advance the writer.
WriteTo(q, d) ==
    LET e == EnsureWritableBytes(q, Len(d))
    IN  HasWritten([e EXCEPT !.bytes = CopyTo(@, e.writer, d)], Len(d))

RetrieveAllOf(q) == Buf(q.bytes, kCheapPrepend, kCheapPrepend)

\* A partial retrieve moves the reader; retrieving everything (or, with the
\* DCHECK compiled out, more than everything) rewinds both indices.
RetrieveFrom(q, len) ==
    IF len < ReadableBytes(q)
    THEN [q EXCEPT !.reader = @ + len]
    ELSE RetrieveAllOf(q)

-----------------------------------------------------------------------------
(* The DCHECKs of the methods, as sets of the names that fail.              *)

Check(name, ok) == IF ok THEN {} ELSE {name}

EnsureChecks(q, len) ==
    Check("MakeSpace",
          WritableBytes(q) < len /\ ~Grows(q, len) => kCheapPrepend < q.reader)
    \cup Check("EnsureWritableBytes",
               WritableBytes(EnsureWritableBytes(q, len)) >= len)

RetrieveChecks(q, len) == Check("Retrieve", len <= ReadableBytes(q))

-----------------------------------------------------------------------------

Become(q) ==
    /\ buffer_' = q.bytes
    /\ reader_index_' = q.reader
    /\ writer_index_' = q.writer

Fits(len) == writer_index_ + len <= MaxSize

Init ==
    /\ os \in {"win", "posix"}
    /\ \E n \in InitialSizes :
          /\ buffer_ = New(n).bytes
          /\ reader_index_ = kCheapPrepend
          /\ writer_index_ = kCheapPrepend
    /\ result = <<>>
    /\ failed = {}

\* Write, and the WriteBigEndian.../WriteLittleEndian... built on it.
Write(d) ==
    /\ Fits(Len(d))
    /\ Become(WriteTo(This, d))
    /\ failed' = failed \cup EnsureChecks(This, Len(d))
    /\ UNCHANGED <<os, result>>

\* EnsureWritableBytes as a call of its own.
Ensure(len) ==
    /\ Fits(len)
    /\ Become(EnsureWritableBytes(This, len))
    /\ failed' = failed \cup EnsureChecks(This, len)
    /\ UNCHANGED <<os, result>>

\* Retrieve, RetrieveUntil, RetrieveInt8 .. RetrieveInt64.
Retrieve(len) ==
    /\ len <= ReadableBytes(This)
    /\ Become(RetrieveFrom(This, len))
    /\ failed' = failed \cup RetrieveChecks(This, len)
    /\ UNCHANGED <<os, result>>

RetrieveAll ==
    /\ Become(RetrieveAllOf(This))
    /\ UNCHANGED <<os, result, failed>>

\* RetrieveAsString and RetrieveAllAsString, and every ReadXxx (peek the
\* integer's bytes, then retrieve them) except ReadLittleEndianInt16.
Read(len) ==
    /\ len <= ReadableBytes(This)
    /\ result' = PeekBytes(This, len)
    /\ Become(RetrieveFrom(This, len))
    /\ failed' = failed \cup RetrieveChecks(This, len)
    /\ UNCHANGED os

\* ReadLittleEndianInt16 calls ReadLittleEndianUint16, which peeks and
\* retrieves two bytes, and then RetrieveInt16 once more.
ReadLittleEndianInt16 ==
    /\ 2 \in IntSizes
    /\ 2 <= ReadableBytes(This)
    /\ LET once == RetrieveFrom(This, 2)
       IN  /\ result' = PeekBytes(This, 2)
           /\ Become(RetrieveFrom(once, 2))
           /\ failed' = failed \cup RetrieveChecks(once, 2)
    /\ UNCHANGED os

Unwrite(len) ==
    /\ len <= ReadableBytes(This)
    /\ writer_index_' = writer_index_ - len
    /\ UNCHANGED <<os, buffer_, reader_index_, result, failed>>

\* Mutant: no check that the bytes in front are enough.
PrependUnchecked(d) ==
    /\ buffer_' = CopyTo(buffer_, reader_index_ - Len(d), d)
    /\ reader_index_' = reader_index_ - Len(d)
    /\ UNCHANGED <<os, writer_index_, result, failed>>

\* Prepend and PrependXxx; the DCHECK len <= PrependableBytes() is the guard.
Prepend(d) ==
    /\ Len(d) <= PrependableBytes(This)
    /\ buffer_' = CopyTo(buffer_, reader_index_ - Len(d), d)
    /\ reader_index_' = reader_index_ - Len(d)
    /\ UNCHANGED <<os, writer_index_, result, failed>>

\* Copy the content into a fresh default buffer and swap with it.
Shrink(reserve) ==
    LET need == ReadableBytes(This) + reserve
        other == EnsureWritableBytes(New(kInitialSize), need)
    IN  /\ kCheapPrepend + need <= MaxSize
        /\ Become(WriteTo(other, Content(This)))
        /\ failed' = failed \cup EnsureChecks(New(kInitialSize), need)
                            \cup EnsureChecks(other, ReadableBytes(This))
        /\ UNCHANGED <<os, result>>

\* ReadFd on Windows: recv into a stack buffer and append what arrived, but
\* a read that fills the stack buffer is logged as impossible and dropped.
ReadFdWin(d) ==
    /\ os = "win"
    /\ Len(d) <= ExtraBuf
    /\ Fits(Len(d))
    /\ IF Len(d) = ExtraBuf
       THEN /\ failed' = failed \cup {"ReadFd"}
            /\ UNCHANGED <<buffer_, reader_index_, writer_index_>>
       ELSE /\ Become(WriteTo(This, d))
            /\ failed' = failed \cup EnsureChecks(This, Len(d))
    /\ UNCHANGED <<os, result>>

\* ReadFd elsewhere: readv into the writable bytes first, the overflow into
\* the stack buffer, from which it is appended.  The second vector is used
\* only when fewer than ExtraBuf bytes are writable.
ReadFdPosix(d) ==
    LET writable == WritableBytes(This)
        direct == IF Len(d) <= writable THEN Len(d) ELSE writable
        filled == HasWritten(
                    [This EXCEPT !.bytes =
                        CopyTo(@, writer_index_, SubSeq(d, 1, direct))],
                    direct)
        extra == SubSeq(d, direct + 1, Len(d))
    IN  /\ os = "posix"
        /\ Len(d) <= writable
              + (IF writable < ExtraBuf THEN ExtraBuf ELSE 0)
        /\ Fits(Len(d))
        /\ IF Len(d) <= writable
           THEN Become(filled) /\ UNCHANGED failed
           ELSE /\ Become(WriteTo(filled, extra))
                /\ failed' = failed \cup EnsureChecks(filled, Len(extra))
        /\ UNCHANGED <<os, result>>

Next ==
    \/ \E d \in Data : Write(d) \/ Prepend(d)
    \/ \E d \in Data : ReadFdWin(d) \/ ReadFdPosix(d)
    \/ \E len \in 0 .. MaxSize : Ensure(len) \/ Shrink(len)
    \/ \E len \in 0 .. ReadableBytes(This) :
          Retrieve(len) \/ Read(len) \/ Unwrite(len)
    \/ RetrieveAll
    \/ ReadLittleEndianInt16

Spec == Init /\ [][Next]_vars

-----------------------------------------------------------------------------

TypeOK ==
    /\ os \in {"win", "posix"}
    /\ buffer_ \in Seq(Byte)
    /\ reader_index_ \in Nat
    /\ writer_index_ \in Nat
    /\ result \in Seq(Byte)
    /\ failed \subseteq {"MakeSpace", "EnsureWritableBytes", "Retrieve", "ReadFd"}

\* The picture in io_buffer.h:28: 0 <= readerIndex <= writerIndex <= size,
\* after any sequence of calls, including those that rewind, prepend, move
\* the content to the front or swap in a shrunken buffer.
IndicesOrdered ==
    /\ 0 <= reader_index_
    /\ reader_index_ <= writer_index_
    /\ writer_index_ <= Len(buffer_)

\* MakeSpace only moves the content when the reader is beyond kCheapPrepend
\* (io_buffer.h:534), and EnsureWritableBytes always finds the room it asked
\* for (io_buffer.h:171), even after Prepend has used the bytes in front.
SpaceChecksHold ==
    failed \cap {"MakeSpace", "EnsureWritableBytes"} = {}

\* The buffer is a queue of bytes: no method loses, repeats or reorders the
\* bytes between the indices, and what is handed out is always the front.
Queue == INSTANCE ByteQueue WITH content <- Content(This)
ImplementsByteQueue == Queue!Spec

\* Every byte written or received from the descriptor is appended behind the
\* old content, also when the vector grows, when the content moves to the
\* front, and when readv splits the data between the vector and the stack
\* buffer; bytes prepended end up in front of it; exactly the bytes read leave it
\* (ReadLittleEndianInt16, which is not a Read, takes more).
TransfersExact ==
    [][/\ \A d \in Data :
             /\ Write(d) \/ ReadFdPosix(d)
                   => Content(This)' = Content(This) \o d
             /\ Prepend(d) => Content(This)' = d \o Content(This)
       /\ \A len \in 0 .. ReadableBytes(This) :
             Read(len) => Content(This) = result' \o Content(This)'
      ]_vars

\* Retrieve is only asked for bytes that are there (io_buffer.h:103).
RetrieveCheckHolds == "Retrieve" \notin failed
=============================================================================
