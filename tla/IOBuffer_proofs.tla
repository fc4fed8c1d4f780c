-------------------------- MODULE IOBuffer_proofs ---------------------------
(***************************************************************************)
(* For every size, every string and every number of calls: the indices of   *)
(* an IOBuffer stay ordered, its space DCHECKs hold, every transfer moves   *)
(* exactly its bytes, and the buffer implements ByteQueue.                  *)
(***************************************************************************)
EXTENDS IOBuffer, SequenceTheorems, TLAPS

\* A buffer value with ordered indices.  A full retrieve puts both indices at
\* kCheapPrepend whatever the vector's size, so the vector must never be
\* smaller than that: the part that makes the invariant inductive.
BufType == [bytes : Seq(Byte), reader : Nat, writer : Nat]

Sound(q) ==
    /\ q \in BufType
    /\ q.reader <= q.writer
    /\ q.writer <= Len(q.bytes)
    /\ kCheapPrepend <= Len(q.bytes)

IInv ==
    /\ TypeOK
    /\ Sound(This)
    /\ SpaceChecksHold

-----------------------------------------------------------------------------
(* The vector operations.                                                   *)

\* A copy into the vector keeps its type and size, and changes exactly the
\* bytes copied over.
LEMMA CopyToProperties ==
    ASSUME NEW b \in Seq(Byte), NEW at \in Nat, NEW d \in Seq(Byte)
    PROVE  /\ CopyTo(b, at, d) \in Seq(Byte)
           /\ Len(CopyTo(b, at, d)) = Len(b)
           /\ \A i \in 1 .. Len(b) :
                 CopyTo(b, at, d)[i] =
                    IF at < i /\ i <= at + Len(d) THEN d[i - at] ELSE b[i]
<1> DEFINE f == CopyTo(b, at, d)
<1>1. f \in [1 .. Len(b) -> Byte]
  <2> SUFFICES ASSUME NEW i \in 1 .. Len(b)
               PROVE  (IF at < i /\ i <= at + Len(d) THEN d[i - at] ELSE b[i])
                        \in Byte
    BY DEF CopyTo
  <2>1. CASE at < i /\ i <= at + Len(d)
    <3>1. i - at \in 1 .. Len(d)  BY <2>1
    <3> QED  BY <2>1, <3>1, ElementOfSeq
  <2>2. CASE ~(at < i /\ i <= at + Len(d))
    BY <2>2, ElementOfSeq
  <2> QED  BY <2>1, <2>2
<1>2. Len(b) \in Nat  OBVIOUS
<1>3. f \in Seq(Byte)  BY <1>1, <1>2, SeqDef
<1>4. Len(f) = Len(b)  BY <1>1, <1>3, <1>2, LenProperties
<1> QED  BY <1>3, <1>4 DEF CopyTo

\* Growing the vector keeps its bytes.
LEMMA ResizeProperties ==
    ASSUME NEW b \in Seq(Byte), NEW n \in Nat
    PROVE  /\ Resize(b, n) \in Seq(Byte)
           /\ Len(Resize(b, n)) = n
           /\ \A i \in 1 .. n :
                 i <= Len(b) => Resize(b, n)[i] = b[i]
<1> DEFINE f == Resize(b, n)
<1>1. f \in [1 .. n -> Byte]
  <2> SUFFICES ASSUME NEW i \in 1 .. n
               PROVE  (IF i <= Len(b) THEN b[i] ELSE Zero) \in Byte
    BY DEF Resize
  <2>1. CASE i <= Len(b)
    <3>1. i \in 1 .. Len(b)  BY <2>1
    <3> QED  BY <2>1, <3>1, ElementOfSeq
  <2>2. CASE ~(i <= Len(b))
    BY <2>2, IOBufferConstants
  <2> QED  BY <2>1, <2>2
<1>2. f \in Seq(Byte)  BY <1>1, SeqDef
<1>3. Len(f) = n  BY <1>1, <1>2, LenProperties
<1> QED  BY <1>2, <1>3 DEF Resize

\* What can be peeked at: len bytes from the reader on.
LEMMA PeekProperties ==
    ASSUME NEW q, Sound(q), NEW len \in Nat, len <= ReadableBytes(q)
    PROVE  /\ PeekBytes(q, len) \in Seq(Byte)
           /\ Len(PeekBytes(q, len)) = len
           /\ \A i \in 1 .. len : PeekBytes(q, len)[i] = q.bytes[q.reader + i]
<1>0. /\ q.bytes \in Seq(Byte) /\ q.reader \in Nat /\ q.writer \in Nat
      /\ q.reader + len <= Len(q.bytes)
      /\ Len(q.bytes) \in Nat
  BY DEF Sound, BufType, ReadableBytes
<1>1. \A i \in q.reader + 1 .. q.reader + len : q.bytes[i] \in Byte
  BY <1>0, ElementOfSeq
<1>2. PICK r \in Nat : r = q.reader  BY <1>0
<1>3. /\ SubSeq(q.bytes, r + 1, r + len) \in Seq(Byte)
      /\ Len(SubSeq(q.bytes, r + 1, r + len)) =
            IF r + 1 <= r + len THEN (r + len) - (r + 1) + 1 ELSE 0
      /\ \A i \in 1 .. (r + len) - (r + 1) + 1 :
            SubSeq(q.bytes, r + 1, r + len)[i] = q.bytes[(r + 1) + i - 1]
  BY <1>1, <1>2, SubSeqProperties
<1>4. (r + len) - (r + 1) + 1 = len /\ (r + 1 <= r + len <=> len # 0)
  OBVIOUS
<1>5. \A i \in 1 .. len : (r + 1) + i - 1 = r + i
  OBVIOUS
<1>6. PeekBytes(q, len) = SubSeq(q.bytes, r + 1, r + len)
  BY <1>2 DEF PeekBytes
<1> QED  BY <1>2, <1>3, <1>4, <1>5, <1>6

\* The content is what lies between the indices.
LEMMA ContentProperties ==
    ASSUME NEW q, Sound(q)
    PROVE  /\ Content(q) \in Seq(Byte)
           /\ Len(Content(q)) = q.writer - q.reader
           /\ \A i \in 1 .. q.writer - q.reader :
                 Content(q)[i] = q.bytes[q.reader + i]
<1>1. ReadableBytes(q) \in Nat /\ ReadableBytes(q) = q.writer - q.reader
  BY DEF Sound, BufType, ReadableBytes
<1> QED  BY <1>1, PeekProperties DEF Content
-----------------------------------------------------------------------------
(* The methods.                                                             *)

\* p holds the same content as q.
SameContent(p, q) ==
    /\ p.writer - p.reader = q.writer - q.reader
    /\ \A i \in 1 .. q.writer - q.reader :
          p.bytes[p.reader + i] = q.bytes[q.reader + i]

\* The fields of a sound buffer, and the numbers computed from them.
LEMMA SoundFields ==
    ASSUME NEW q, Sound(q)
    PROVE  /\ q.bytes \in Seq(Byte) /\ q.reader \in Nat /\ q.writer \in Nat
           /\ Len(q.bytes) \in Nat
           /\ q.reader <= q.writer /\ q.writer <= Len(q.bytes)
           /\ kCheapPrepend \in Nat /\ kCheapPrepend <= Len(q.bytes)
  BY IOBufferConstants DEF Sound, BufType

\* A buffer put together from its parts.
LEMMA BufSound ==
    ASSUME NEW b \in Seq(Byte), NEW r \in Nat, NEW w \in Nat,
           r <= w, w <= Len(b), kCheapPrepend <= Len(b)
    PROVE  /\ Sound(Buf(b, r, w))
           /\ Buf(b, r, w).bytes = b
           /\ Buf(b, r, w).reader = r
           /\ Buf(b, r, w).writer = w
  BY DEF Sound, BufType, Buf

\* Growing in place: the indices and the bytes stay where they are.
LEMMA GrowProperties ==
    ASSUME NEW q, Sound(q), NEW len \in Nat, WritableBytes(q) < len
    PROVE  LET e == Buf(Resize(q.bytes, q.writer + len), q.reader, q.writer)
           IN  /\ Sound(e)
               /\ WritableBytes(e) >= len
               /\ SameContent(e, q)
<1> DEFINE b == Resize(q.bytes, q.writer + len)
           e == Buf(b, q.reader, q.writer)
<1>1. q.writer + len \in Nat /\ q.writer + len > Len(q.bytes)
  BY SoundFields DEF WritableBytes
<1>2. /\ b \in Seq(Byte) /\ Len(b) = q.writer + len
      /\ \A i \in 1 .. q.writer + len : i <= Len(q.bytes) => b[i] = q.bytes[i]
  BY <1>1, SoundFields, ResizeProperties
<1>3. /\ Sound(e) /\ e.bytes = b /\ e.reader = q.reader /\ e.writer = q.writer
  <2> HIDE DEF b
  <2>1. q.writer <= Len(b) /\ kCheapPrepend <= Len(b)
    BY <1>1, <1>2, SoundFields
  <2> QED  BY <1>2, <2>1, SoundFields, BufSound
<1>4. WritableBytes(e) >= len
  <2> HIDE DEF e, b
  <2> QED  BY <1>2, <1>3, SoundFields DEF WritableBytes
<1>5. SameContent(e, q)
  <2> HIDE DEF e, b
  <2> SUFFICES ASSUME NEW i \in 1 .. q.writer - q.reader
               PROVE  b[q.reader + i] = q.bytes[q.reader + i]
    BY <1>3 DEF SameContent
  <2>1. /\ q.reader + i \in 1 .. q.writer + len
        /\ q.reader + i <= Len(q.bytes)
    BY SoundFields
  <2> QED  BY <2>1, <1>2
<1> QED  BY <1>3, <1>4, <1>5

\* Moving to the front: only when the reader is beyond kCheapPrepend, and then
\* there is room.
LEMMA MoveProperties ==
    ASSUME NEW q, Sound(q), NEW len \in Nat, WritableBytes(q) < len,
           ~Grows(q, len)
    PROVE  /\ kCheapPrepend < q.reader
           /\ Sound(MoveToFront(q))
           /\ WritableBytes(MoveToFront(q)) >= len
           /\ SameContent(MoveToFront(q), q)
<1> DEFINE d == Content(q)
           b == CopyTo(q.bytes, kCheapPrepend, d)
           w == kCheapPrepend + ReadableBytes(q)
           e == Buf(b, kCheapPrepend, w)
<1>0. MoveToFront(q) = e  BY DEF MoveToFront
<1>1. /\ kCheapPrepend < q.reader
      /\ w \in Nat /\ kCheapPrepend <= w /\ w <= Len(q.bytes)
      /\ Len(q.bytes) - w >= len
      /\ w - kCheapPrepend = q.writer - q.reader
  <2>1. /\ Len(q.bytes) - q.writer < len
        /\ ~((Len(q.bytes) - q.writer) + q.reader < len + kCheapPrepend)
    BY DEF Grows, WritableBytes, PrependableBytes
  <2>2. w = kCheapPrepend + (q.writer - q.reader)  BY DEF ReadableBytes
  <2>3. /\ q.reader \in Nat /\ q.writer \in Nat /\ Len(q.bytes) \in Nat
        /\ kCheapPrepend \in Nat /\ q.reader <= q.writer
    BY SoundFields
  <2> HIDE DEF w
  <2>4. kCheapPrepend < q.reader  BY <2>1, <2>3
  <2>5. w \in Nat /\ kCheapPrepend <= w /\ w - kCheapPrepend = q.writer - q.reader
    BY <2>2, <2>3
  <2>6. w <= Len(q.bytes) /\ Len(q.bytes) - w >= len  BY <2>1, <2>2, <2>3
  <2> QED  BY <2>4, <2>5, <2>6
<1>2. /\ d \in Seq(Byte) /\ Len(d) = q.writer - q.reader
      /\ \A i \in 1 .. q.writer - q.reader : d[i] = q.bytes[q.reader + i]
  BY ContentProperties
<1>3. /\ b \in Seq(Byte) /\ Len(b) = Len(q.bytes)
      /\ \A i \in 1 .. Len(q.bytes) :
            b[i] = IF kCheapPrepend < i /\ i <= kCheapPrepend + Len(d)
                   THEN d[i - kCheapPrepend] ELSE q.bytes[i]
  <2> HIDE DEF d
  <2> QED  BY <1>2, SoundFields, CopyToProperties
<1> HIDE DEF b, d, w
<1>4. /\ Sound(e) /\ e.bytes = b /\ e.reader = kCheapPrepend /\ e.writer = w
  BY <1>1, <1>3, SoundFields, BufSound
<1>5. WritableBytes(e) >= len
  <2> HIDE DEF e
  <2> QED  BY <1>1, <1>3, <1>4 DEF WritableBytes
<1>6. SameContent(e, q)
  <2> HIDE DEF e
  <2> SUFFICES ASSUME NEW i \in 1 .. q.writer - q.reader
               PROVE  b[kCheapPrepend + i] = q.bytes[q.reader + i]
    BY <1>1, <1>4 DEF SameContent
  <2>0. /\ q.reader \in Nat /\ q.writer \in Nat /\ Len(q.bytes) \in Nat
        /\ kCheapPrepend \in Nat /\ w \in Nat
        /\ w - kCheapPrepend = q.writer - q.reader /\ w <= Len(q.bytes)
    BY <1>1, SoundFields
  <2>1. /\ kCheapPrepend + i \in 1 .. Len(q.bytes)
        /\ kCheapPrepend < kCheapPrepend + i
        /\ kCheapPrepend + i <= kCheapPrepend + (q.writer - q.reader)
        /\ (kCheapPrepend + i) - kCheapPrepend = i
    BY <2>0
  <2>2. b[kCheapPrepend + i] = d[i]
    BY <2>1, <1>2, <1>3
  <2> QED  BY <2>2, <1>2
<1> QED  BY <1>0, <1>1, <1>4, <1>5, <1>6

\* EnsureWritableBytes: both of its DCHECKs hold, the content is kept.
LEMMA EnsureProperties ==
    ASSUME NEW q, Sound(q), NEW len \in Nat
    PROVE  /\ Sound(EnsureWritableBytes(q, len))
           /\ WritableBytes(EnsureWritableBytes(q, len)) >= len
           /\ SameContent(EnsureWritableBytes(q, len), q)
           /\ EnsureChecks(q, len) = {}
<1>1. CASE ~(WritableBytes(q) < len)
  <2>1. EnsureWritableBytes(q, len) = q
    BY <1>1 DEF EnsureWritableBytes
  <2>2. WritableBytes(q) \in Int /\ WritableBytes(q) >= len
    BY <1>1, SoundFields DEF WritableBytes
  <2> QED  BY <1>1, <2>1, <2>2 DEF SameContent, EnsureChecks, Check
<1>2. CASE WritableBytes(q) < len /\ Grows(q, len)
  <2>1. EnsureWritableBytes(q, len) =
          Buf(Resize(q.bytes, q.writer + len), q.reader, q.writer)
    BY <1>2 DEF EnsureWritableBytes, MakeSpace
  <2>2. /\ Sound(EnsureWritableBytes(q, len))
        /\ WritableBytes(EnsureWritableBytes(q, len)) >= len
        /\ SameContent(EnsureWritableBytes(q, len), q)
    BY <1>2, <2>1, GrowProperties
  <2> QED  BY <1>2, <2>2 DEF EnsureChecks, Check
<1>3. CASE WritableBytes(q) < len /\ ~Grows(q, len)
  <2>1. EnsureWritableBytes(q, len) = MoveToFront(q)
    BY <1>3 DEF EnsureWritableBytes, MakeSpace
  <2>2. /\ Sound(EnsureWritableBytes(q, len))
        /\ WritableBytes(EnsureWritableBytes(q, len)) >= len
        /\ SameContent(EnsureWritableBytes(q, len), q)
        /\ kCheapPrepend < q.reader
    BY <1>3, <2>1, MoveProperties
  <2> QED  BY <1>3, <2>2 DEF EnsureChecks, Check
<1> QED  BY <1>1, <1>2, <1>3

\* q's content is p's content followed by d.
Appended(q, p, d) ==
    /\ q.writer - q.reader = (p.writer - p.reader) + Len(d)
    /\ \A i \in 1 .. p.writer - p.reader :
          q.bytes[q.reader + i] = p.bytes[p.reader + i]
    /\ \A i \in 1 .. Len(d) :
          q.bytes[q.reader + (p.writer - p.reader) + i] = d[i]

\* Copying d behind the content of a buffer that has room for it.
LEMMA FillProperties ==
    ASSUME NEW q, Sound(q), NEW d \in Seq(Byte), Len(d) <= WritableBytes(q)
    PROVE  LET e == HasWritten([q EXCEPT !.bytes = CopyTo(@, q.writer, d)],
                               Len(d))
           IN  Sound(e) /\ Appended(e, q, d)
<1> DEFINE b == CopyTo(q.bytes, q.writer, d)
           w == q.writer + Len(d)
           e == HasWritten([q EXCEPT !.bytes = CopyTo(@, q.writer, d)], Len(d))
<1>1. /\ b \in Seq(Byte) /\ Len(b) = Len(q.bytes)
      /\ \A i \in 1 .. Len(q.bytes) :
            b[i] = IF q.writer < i /\ i <= q.writer + Len(d)
                   THEN d[i - q.writer] ELSE q.bytes[i]
  BY SoundFields, CopyToProperties
<1>2. Len(d) \in Nat  OBVIOUS
<1>3. /\ w \in Nat /\ q.reader <= w /\ w <= Len(b) /\ kCheapPrepend <= Len(b)
  <2> HIDE DEF b
  <2> QED  BY <1>1, <1>2, SoundFields DEF WritableBytes
<1>4. e = Buf(b, q.reader, w)
  <2>1. [q EXCEPT !.bytes = b] = [bytes |-> b, reader |-> q.reader,
                                  writer |-> q.writer]
    <3> HIDE DEF b
    <3> QED  BY DEF Sound, BufType
  <2>2. HasWritten([bytes |-> b, reader |-> q.reader, writer |-> q.writer],
                   Len(d)) = [bytes |-> b, reader |-> q.reader, writer |-> w]
    <3> HIDE DEF b
    <3> QED  BY DEF HasWritten
  <2> QED  BY <2>1, <2>2 DEF Buf
<1> HIDE DEF b, w
<1>5. /\ Sound(e) /\ e.bytes = b /\ e.reader = q.reader /\ e.writer = w
  <2> HIDE DEF e
  <2> QED  BY <1>1, <1>3, <1>4, SoundFields, BufSound
<1> HIDE DEF e
<1>6. PICK r \in Nat, v \in Nat : r = q.reader /\ v = q.writer
  BY SoundFields
<1>7. r <= v /\ v + Len(d) <= Len(q.bytes) /\ w = v + Len(d)
  BY <1>6, SoundFields DEF WritableBytes, w
<1>8. \A i \in 1 .. v - r : b[r + i] = q.bytes[r + i]
  <2> TAKE i \in 1 .. v - r
  <2>1. r + i \in 1 .. Len(q.bytes) /\ ~(v < r + i)
    BY <1>7, <1>2, SoundFields
  <2> QED  BY <2>1, <1>1, <1>6
<1>9. \A i \in 1 .. Len(d) : b[v + i] = d[i]
  <2> TAKE i \in 1 .. Len(d)
  <2>1. /\ v + i \in 1 .. Len(q.bytes) /\ v < v + i /\ v + i <= v + Len(d)
        /\ (v + i) - v = i
    BY <1>7, <1>2, SoundFields
  <2> QED  BY <2>1, <1>1, <1>6
<1>10. w - r = (v - r) + Len(d) /\ r + (v - r) = v
  BY <1>7, <1>2
<1>11. Appended(e, q, d)
  BY <1>5, <1>6, <1>8, <1>9, <1>10 DEF Appended
<1> QED  BY <1>5, <1>11 DEF e

\* Write appends exactly its data, wherever the room comes from.
LEMMA WriteToProperties ==
    ASSUME NEW q, Sound(q), NEW d \in Seq(Byte)
    PROVE  /\ Sound(WriteTo(q, d))
           /\ Appended(WriteTo(q, d), q, d)
<1> DEFINE e == EnsureWritableBytes(q, Len(d))
<1>1. Len(d) \in Nat  OBVIOUS
<1>2. Sound(e) /\ WritableBytes(e) >= Len(d) /\ SameContent(e, q)
  BY <1>1, EnsureProperties
<1>3. WriteTo(q, d) =
        HasWritten([e EXCEPT !.bytes = CopyTo(@, e.writer, d)], Len(d))
  BY DEF WriteTo
<1> HIDE DEF e
<1>4. WritableBytes(e) \in Int
  BY <1>2, SoundFields DEF WritableBytes
<1>5. Sound(WriteTo(q, d)) /\ Appended(WriteTo(q, d), e, d)
  BY <1>1, <1>2, <1>3, <1>4, FillProperties
<1>6. Appended(WriteTo(q, d), q, d)
  BY <1>2, <1>5 DEF Appended, SameContent
<1> QED  BY <1>5, <1>6

\* Rewinding keeps the indices ordered and empties the buffer.
LEMMA RetrieveAllProperties ==
    ASSUME NEW q, Sound(q)
    PROVE  /\ Sound(RetrieveAllOf(q))
           /\ RetrieveAllOf(q).writer - RetrieveAllOf(q).reader = 0
<1>1. RetrieveAllOf(q) = Buf(q.bytes, kCheapPrepend, kCheapPrepend)
  BY DEF RetrieveAllOf
<1>2. /\ Sound(Buf(q.bytes, kCheapPrepend, kCheapPrepend))
      /\ Buf(q.bytes, kCheapPrepend, kCheapPrepend).reader = kCheapPrepend
      /\ Buf(q.bytes, kCheapPrepend, kCheapPrepend).writer = kCheapPrepend
  BY SoundFields, BufSound
<1>3. kCheapPrepend - kCheapPrepend = 0  BY IOBufferConstants
<1> QED  BY <1>1, <1>2, <1>3

\* Retrieving keeps the indices ordered, also when more is asked for than
\* there is, and takes len bytes from the front.
LEMMA RetrieveProperties ==
    ASSUME NEW q, Sound(q), NEW len \in Nat
    PROVE  /\ Sound(RetrieveFrom(q, len))
           /\ LET e == RetrieveFrom(q, len)
              IN  IF len < q.writer - q.reader
                  THEN /\ e.bytes = q.bytes
                       /\ e.reader = q.reader + len
                       /\ e.writer = q.writer
                  ELSE e.writer - e.reader = 0
<1>1. CASE len < ReadableBytes(q)
  <2>1. RetrieveFrom(q, len) = Buf(q.bytes, q.reader + len, q.writer)
    BY <1>1 DEF RetrieveFrom, Buf, Sound, BufType
  <2>2. q.reader + len \in Nat /\ q.reader + len <= q.writer
    BY <1>1, SoundFields DEF ReadableBytes
  <2>3. /\ Sound(Buf(q.bytes, q.reader + len, q.writer))
        /\ Buf(q.bytes, q.reader + len, q.writer).bytes = q.bytes
        /\ Buf(q.bytes, q.reader + len, q.writer).reader = q.reader + len
        /\ Buf(q.bytes, q.reader + len, q.writer).writer = q.writer
    <3>1. /\ q.bytes \in Seq(Byte) /\ q.writer \in Nat
          /\ q.writer <= Len(q.bytes) /\ kCheapPrepend <= Len(q.bytes)
      BY SoundFields
    <3> QED  BY <2>2, <3>1, BufSound
  <2> QED  BY <1>1, <2>1, <2>3 DEF ReadableBytes
<1>2. CASE ~(len < ReadableBytes(q))
  <2>1. RetrieveFrom(q, len) = RetrieveAllOf(q)  BY <1>2 DEF RetrieveFrom
  <2> QED  BY <1>2, <2>1, RetrieveAllProperties DEF ReadableBytes
<1> QED  BY <1>1, <1>2

\* A fresh buffer is sound and empty.
LEMMA NewProperties ==
    ASSUME NEW n \in Nat
    PROVE  /\ Sound(New(n))
           /\ New(n).reader = kCheapPrepend /\ New(n).writer = kCheapPrepend
<1> DEFINE b == [i \in 1 .. kCheapPrepend + n |-> Zero]
<1>1. kCheapPrepend + n \in Nat  BY IOBufferConstants
<1>2. b \in Seq(Byte) /\ Len(b) = kCheapPrepend + n
  <2>1. b \in [1 .. kCheapPrepend + n -> Byte]  BY IOBufferConstants
  <2>2. b \in Seq(Byte)  BY <1>1, <2>1, SeqDef
  <2> QED  BY <1>1, <2>1, <2>2, LenProperties
<1>3. kCheapPrepend <= kCheapPrepend + n /\ kCheapPrepend \in Nat
  BY IOBufferConstants
<1> HIDE DEF b
<1>4. /\ Sound(Buf(b, kCheapPrepend, kCheapPrepend))
      /\ Buf(b, kCheapPrepend, kCheapPrepend).reader = kCheapPrepend
      /\ Buf(b, kCheapPrepend, kCheapPrepend).writer = kCheapPrepend
  BY <1>2, <1>3, BufSound
<1> QED  BY <1>4 DEF New, b
-----------------------------------------------------------------------------
(* The invariant.                                                           *)

\* The state after a call that becomes a sound buffer.
LEMMA BecomeSound ==
    ASSUME NEW q, Sound(q), Become(q)
    PROVE  /\ Sound(This)' /\ This' = q
           /\ buffer_' \in Seq(Byte) /\ reader_index_' \in Nat
           /\ writer_index_' \in Nat
<1>1. This' = Buf(q.bytes, q.reader, q.writer)
  BY DEF Become, This, Buf
<1>2. Buf(q.bytes, q.reader, q.writer) = q
  BY DEF Buf, Sound, BufType
<1>3. Sound(This)'
  BY <1>1, <1>2 DEF Sound
<1> QED  BY <1>1, <1>2, <1>3, SoundFields DEF Become

\* A step that becomes a sound buffer and fails no space check keeps IInv.
LEMMA KeepsIInv ==
    ASSUME NEW q, Sound(q), Become(q), IInv, UNCHANGED os,
           result' \in Seq(Byte),
           failed' \subseteq failed \cup {"Retrieve", "ReadFd"}
    PROVE  IInv'
<1>1. TypeOK'
  BY BecomeSound DEF TypeOK, IInv
<1>2. SpaceChecksHold'
  BY DEF SpaceChecksHold, IInv
<1> QED  BY <1>1, <1>2, BecomeSound DEF IInv

\* Every buffer a caller can construct satisfies the invariant.
LEMMA InitIInv == Init => IInv
<1> SUFFICES ASSUME Init PROVE IInv
  OBVIOUS
<1>1. PICK n \in InitialSizes :
        /\ buffer_ = New(n).bytes
        /\ reader_index_ = kCheapPrepend
        /\ writer_index_ = kCheapPrepend
  BY DEF Init
<1>2. n \in Nat  BY IOBufferConstants
<1>3. /\ Sound(New(n))
      /\ New(n).reader = kCheapPrepend /\ New(n).writer = kCheapPrepend
  BY <1>2, NewProperties
<1>4. This = New(n)
  BY <1>1 DEF This, New, Buf
<1>5. /\ buffer_ \in Seq(Byte) /\ reader_index_ \in Nat /\ writer_index_ \in Nat
  BY <1>1, <1>3, SoundFields, IOBufferConstants
<1>6. TypeOK
  BY <1>5 DEF TypeOK, Init
<1> QED  BY <1>3, <1>4, <1>6 DEF IInv, SpaceChecksHold, Init

\* Part of a string is a string.
LEMMA SubSeqOfData ==
    ASSUME NEW d \in Seq(Byte), NEW m \in Nat, NEW n \in Nat, n <= Len(d)
    PROVE  /\ SubSeq(d, m + 1, n) \in Seq(Byte)
           /\ Len(SubSeq(d, m + 1, n)) = IF m + 1 <= n THEN n - m ELSE 0
           /\ \A i \in 1 .. n - m : SubSeq(d, m + 1, n)[i] = d[m + i]
<1>1. \A i \in m + 1 .. n : d[i] \in Byte
  BY ElementOfSeq
<1>2. /\ SubSeq(d, m + 1, n) \in Seq(Byte)
      /\ Len(SubSeq(d, m + 1, n)) = IF m + 1 <= n THEN n - (m + 1) + 1 ELSE 0
      /\ \A i \in 1 .. n - (m + 1) + 1 : SubSeq(d, m + 1, n)[i] = d[(m + 1) + i - 1]
  BY <1>1, SubSeqProperties
<1>3. n - (m + 1) + 1 = n - m /\ \A i \in 1 .. n - m : (m + 1) + i - 1 = m + i
  OBVIOUS
<1> QED  BY <1>2, <1>3

\* readv: what fits goes into the vector, the rest is appended.
LEMMA ReadFdPosixProperties ==
    ASSUME IInv, NEW d \in Data, ReadFdPosix(d)
    PROVE  \E q : /\ Sound(q) /\ Become(q) /\ Appended(q, This, d)
                  /\ failed' = failed
<1> DEFINE writable == WritableBytes(This)
           direct == IF Len(d) <= writable THEN Len(d) ELSE writable
           front == SubSeq(d, 1, direct)
           filled == HasWritten([This EXCEPT !.bytes =
                                    CopyTo(@, This.writer, front)], direct)
           extra == SubSeq(d, direct + 1, Len(d))
<1>0. d \in Seq(Byte) /\ Len(d) \in Nat /\ Sound(This)
  BY IOBufferData DEF IInv
<1>1. writable \in Nat /\ direct \in Nat /\ direct <= writable /\ direct <= Len(d)
  BY <1>0, SoundFields DEF WritableBytes
<1>2. This.writer = writer_index_  BY DEF This, Buf
<1>3. \/ /\ Len(d) <= writable
         /\ Become(filled) /\ failed' = failed
      \/ /\ ~(Len(d) <= writable)
         /\ Become(WriteTo(filled, extra))
         /\ failed' = failed \cup EnsureChecks(filled, Len(extra))
  BY <1>2 DEF ReadFdPosix
<1> HIDE DEF writable
<1>4. /\ front \in Seq(Byte) /\ Len(front) = direct
      /\ \A i \in 1 .. direct : front[i] = d[i]
  <2> HIDE DEF direct
  <2>1. /\ SubSeq(d, 0 + 1, direct) \in Seq(Byte)
        /\ Len(SubSeq(d, 0 + 1, direct)) =
              IF 0 + 1 <= direct THEN direct - 0 ELSE 0
        /\ \A i \in 1 .. direct - 0 : SubSeq(d, 0 + 1, direct)[i] = d[0 + i]
    BY <1>0, <1>1, SubSeqOfData
  <2> QED  BY <2>1, <1>1
<1>5. /\ extra \in Seq(Byte) /\ Len(extra) = Len(d) - direct
      /\ \A i \in 1 .. Len(d) - direct : extra[i] = d[direct + i]
  <2> HIDE DEF direct
  <2>1. /\ SubSeq(d, direct + 1, Len(d)) \in Seq(Byte)
        /\ Len(SubSeq(d, direct + 1, Len(d))) =
              IF direct + 1 <= Len(d) THEN Len(d) - direct ELSE 0
        /\ \A i \in 1 .. Len(d) - direct :
              SubSeq(d, direct + 1, Len(d))[i] = d[direct + i]
    BY <1>0, <1>1, SubSeqOfData
  <2> QED  BY <2>1, <1>0, <1>1
<1> HIDE DEF front, extra
<1>6. Sound(filled) /\ Appended(filled, This, front)
  <2> HIDE DEF direct
  <2>1. Len(front) <= WritableBytes(This)  BY <1>1, <1>4 DEF writable
  <2> QED  BY <1>0, <1>4, <2>1, FillProperties
<1>7. CASE Len(d) <= writable
  <2>1. direct = Len(d)  BY <1>7
  <2> HIDE DEF direct, filled
  <2>2. Appended(filled, This, d)
    BY <1>4, <1>6, <2>1 DEF Appended
  <2> QED  BY <1>3, <1>6, <1>7, <2>2
<1>8. CASE ~(Len(d) <= writable)
  <2> HIDE DEF direct, filled
  <2>1. /\ Sound(WriteTo(filled, extra))
        /\ Appended(WriteTo(filled, extra), filled, extra)
    BY <1>5, <1>6, WriteToProperties
  <2>2. EnsureChecks(filled, Len(extra)) = {}
    <3>1. Len(extra) \in Nat  BY <1>5
    <3> QED  BY <1>6, <3>1, EnsureProperties
  <2>3. Appended(WriteTo(filled, extra), This, d)
    <3> DEFINE e == WriteTo(filled, extra)
    <3> HIDE DEF e
    <3>1. PICK n \in Nat : n = This.writer - This.reader
      BY <1>0, SoundFields
    <3>2. PICK er \in Nat, fr \in Nat : er = e.reader /\ fr = filled.reader
      BY <1>6, <2>1, SoundFields DEF e
    <3>3. /\ filled.writer - filled.reader = n + direct
          /\ \A i \in 1 .. n : filled.bytes[fr + i] = This.bytes[This.reader + i]
          /\ \A i \in 1 .. direct : filled.bytes[fr + n + i] = d[i]
      BY <1>4, <1>6, <3>1, <3>2 DEF Appended
    <3>4. /\ e.writer - e.reader = (n + direct) + (Len(d) - direct)
          /\ \A i \in 1 .. n + direct : e.bytes[er + i] = filled.bytes[fr + i]
          /\ \A i \in 1 .. Len(d) - direct :
                e.bytes[er + (n + direct) + i] = d[direct + i]
      BY <1>5, <2>1, <3>2, <3>3 DEF Appended, e
    <3>5. e.writer - e.reader = n + Len(d)
      BY <1>0, <1>1, <3>4
    <3>6. \A i \in 1 .. n : e.bytes[er + i] = This.bytes[This.reader + i]
      <4> TAKE i \in 1 .. n
      <4>1. i \in 1 .. n + direct  BY <1>1
      <4> QED  BY <4>1, <3>3, <3>4
    <3>7. \A i \in 1 .. Len(d) : e.bytes[er + n + i] = d[i]
      <4> TAKE i \in 1 .. Len(d)
      <4>1. CASE i <= direct
        <5>1. /\ n + i \in 1 .. n + direct /\ i \in 1 .. direct
              /\ er + (n + i) = er + n + i /\ fr + (n + i) = fr + n + i
          BY <1>0, <1>1, <4>1
        <5>2. e.bytes[er + (n + i)] = filled.bytes[fr + (n + i)]
          BY <5>1, <3>4
        <5> QED  BY <5>1, <5>2, <3>3
      <4>2. CASE ~(i <= direct)
        <5>1. /\ i - direct \in 1 .. Len(d) - direct
              /\ er + (n + direct) + (i - direct) = er + n + i
              /\ direct + (i - direct) = i
          BY <1>0, <1>1, <4>2
        <5>2. e.bytes[er + (n + direct) + (i - direct)] = d[direct + (i - direct)]
          BY <5>1, <3>4
        <5> QED  BY <5>1, <5>2
      <4> QED  BY <4>1, <4>2
    <3> QED  BY <3>1, <3>2, <3>5, <3>6, <3>7 DEF Appended, e
  <2> QED  BY <1>3, <1>8, <2>1, <2>2, <2>3
<1> QED  BY <1>7, <1>8

\* A call that ends in a sound buffer, whatever it does on the way.
LEMMA StepIInv == IInv /\ [Next]_vars => IInv'
<1> SUFFICES ASSUME IInv, [Next]_vars PROVE IInv'
  OBVIOUS
<1>0. /\ Sound(This) /\ result \in Seq(Byte)
      /\ This.reader = reader_index_ /\ This.writer = writer_index_
      /\ This.bytes = buffer_
  BY DEF IInv, TypeOK, This, Buf
<1>01. ReadableBytes(This) \in Nat /\ MaxSize \in Nat
  BY <1>0, SoundFields, IOBufferData DEF ReadableBytes
<1>1. ASSUME NEW d \in Data, Write(d) PROVE IInv'
  <2>1. d \in Seq(Byte) /\ Len(d) \in Nat  BY IOBufferData
  <2>2. EnsureChecks(This, Len(d)) = {}  BY <1>0, <2>1, EnsureProperties
  <2>3. Sound(WriteTo(This, d))  BY <1>0, <2>1, WriteToProperties
  <2> QED  BY <1>0, <1>1, <2>2, <2>3, KeepsIInv DEF Write
<1>2. ASSUME NEW d \in Data, Prepend(d) PROVE IInv'
  <2> DEFINE r == reader_index_ - Len(d)
             b == CopyTo(buffer_, r, d)
             q == Buf(b, r, writer_index_)
  <2>1. d \in Seq(Byte) /\ Len(d) \in Nat  BY IOBufferData
  <2>2. r \in Nat /\ r <= writer_index_
    BY <1>0, <1>2, <2>1, SoundFields DEF Prepend, PrependableBytes
  <2> HIDE DEF r
  <2>3. b \in Seq(Byte) /\ Len(b) = Len(buffer_)
    BY <1>0, <2>1, <2>2, SoundFields, CopyToProperties
  <2> HIDE DEF b
  <2>4. Sound(q) /\ q.bytes = b /\ q.reader = r /\ q.writer = writer_index_
    BY <1>0, <2>2, <2>3, SoundFields, BufSound
  <2> HIDE DEF q
  <2>5. Become(q)
    BY <1>2, <2>4 DEF Prepend, Become, b, r
  <2> QED  BY <1>0, <1>2, <2>4, <2>5, KeepsIInv DEF Prepend
<1>3. ASSUME NEW d \in Data, ReadFdWin(d) PROVE IInv'
  <2>1. d \in Seq(Byte) /\ Len(d) \in Nat  BY IOBufferData
  <2>2. EnsureChecks(This, Len(d)) = {}  BY <1>0, <2>1, EnsureProperties
  <2>3. Sound(WriteTo(This, d))  BY <1>0, <2>1, WriteToProperties
  <2>4. CASE Len(d) = ExtraBuf
    <3>1. Become(This)
      BY <1>0, <1>3, <2>4 DEF ReadFdWin, Become
    <3> QED  BY <1>0, <1>3, <2>4, <3>1, KeepsIInv DEF ReadFdWin
  <2>5. CASE Len(d) # ExtraBuf
    BY <1>0, <1>3, <2>2, <2>3, <2>5, KeepsIInv DEF ReadFdWin
  <2> QED  BY <2>4, <2>5
<1>4. ASSUME NEW d \in Data, ReadFdPosix(d) PROVE IInv'
  <2>1. PICK q : Sound(q) /\ Become(q) /\ failed' = failed
    BY <1>4, ReadFdPosixProperties
  <2>2. UNCHANGED <<os, result>>  BY <1>4 DEF ReadFdPosix
  <2> QED  BY <1>0, <2>1, <2>2, KeepsIInv
<1>5. ASSUME NEW len \in 0 .. MaxSize, Ensure(len) PROVE IInv'
  <2>1. len \in Nat  BY <1>01
  <2>2. EnsureChecks(This, len) = {} /\ Sound(EnsureWritableBytes(This, len))
    BY <1>0, <2>1, EnsureProperties
  <2> QED  BY <1>0, <1>5, <2>2, KeepsIInv DEF Ensure
<1>6. ASSUME NEW reserve \in 0 .. MaxSize, Shrink(reserve) PROVE IInv'
  <2> DEFINE need == ReadableBytes(This) + reserve
             fresh == New(kInitialSize)
             other == EnsureWritableBytes(fresh, need)
  <2>1. need \in Nat /\ kInitialSize \in Nat
    BY <1>01, IOBufferConstants
  <2>2. Sound(fresh)  BY <2>1, NewProperties
  <2>3. /\ Become(WriteTo(other, Content(This)))
        /\ failed' = failed \cup EnsureChecks(fresh, need)
                            \cup EnsureChecks(other, ReadableBytes(This))
        /\ UNCHANGED <<os, result>>
    BY <1>6 DEF Shrink
  <2> HIDE DEF need, fresh
  <2>4. EnsureChecks(fresh, need) = {} /\ Sound(other)
    BY <2>1, <2>2, EnsureProperties
  <2> HIDE DEF other
  <2>5. EnsureChecks(other, ReadableBytes(This)) = {}
    BY <1>01, <2>4, EnsureProperties
  <2>6. Content(This) \in Seq(Byte)  BY <1>0, ContentProperties
  <2>7. Sound(WriteTo(other, Content(This)))
    BY <2>4, <2>6, WriteToProperties
  <2> QED  BY <1>0, <2>3, <2>4, <2>5, <2>7, KeepsIInv
<1>7. ASSUME NEW len \in 0 .. ReadableBytes(This), Retrieve(len) PROVE IInv'
  <2>1. len \in Nat  BY <1>01
  <2>2. Sound(RetrieveFrom(This, len))  BY <1>0, <2>1, RetrieveProperties
  <2> QED  BY <1>0, <1>7, <2>2, KeepsIInv DEF Retrieve, RetrieveChecks, Check
<1>8. ASSUME NEW len \in 0 .. ReadableBytes(This), Read(len) PROVE IInv'
  <2>1. len \in Nat /\ len <= ReadableBytes(This)  BY <1>01
  <2>2. Sound(RetrieveFrom(This, len))  BY <1>0, <2>1, RetrieveProperties
  <2>3. PeekBytes(This, len) \in Seq(Byte)  BY <1>0, <2>1, PeekProperties
  <2> QED  BY <1>8, <2>2, <2>3, KeepsIInv DEF Read, RetrieveChecks, Check
<1>9. ASSUME NEW len \in 0 .. ReadableBytes(This), Unwrite(len) PROVE IInv'
  <2> DEFINE q == Buf(buffer_, reader_index_, writer_index_ - len)
  <2>1. /\ writer_index_ - len \in Nat /\ reader_index_ <= writer_index_ - len
        /\ writer_index_ - len <= Len(buffer_)
    BY <1>0, <1>01, SoundFields DEF ReadableBytes
  <2>2. /\ Sound(q) /\ q.bytes = buffer_ /\ q.reader = reader_index_
        /\ q.writer = writer_index_ - len
    BY <1>0, <2>1, SoundFields, BufSound
  <2> HIDE DEF q
  <2>3. Become(q)  BY <1>9, <2>2 DEF Unwrite, Become
  <2> QED  BY <1>0, <1>9, <2>2, <2>3, KeepsIInv DEF Unwrite
<1>10. CASE RetrieveAll
  <2>1. Sound(RetrieveAllOf(This))  BY <1>0, RetrieveAllProperties
  <2> QED  BY <1>0, <1>10, <2>1, KeepsIInv DEF RetrieveAll
<1>11. CASE ReadLittleEndianInt16
  <2>1. Sound(RetrieveFrom(This, 2))  BY <1>0, RetrieveProperties
  <2>2. Sound(RetrieveFrom(RetrieveFrom(This, 2), 2))
    BY <2>1, RetrieveProperties
  <2>3. PeekBytes(This, 2) \in Seq(Byte)
    BY <1>0, <1>11, PeekProperties DEF ReadLittleEndianInt16
  <2>4. /\ Become(RetrieveFrom(RetrieveFrom(This, 2), 2))
        /\ result' = PeekBytes(This, 2) /\ UNCHANGED os
        /\ failed' \subseteq failed \cup {"Retrieve"}
    BY <1>11 DEF ReadLittleEndianInt16, RetrieveChecks, Check
  <2> QED  BY <2>2, <2>3, <2>4, KeepsIInv
<1>12. CASE UNCHANGED vars
  BY <1>12 DEF vars, IInv, TypeOK, SpaceChecksHold, This, Sound, Buf
<1> QED  BY <1>1, <1>2, <1>3, <1>4, <1>5, <1>6, <1>7, <1>8, <1>9, <1>10, <1>11,
            <1>12 DEF Next

-----------------------------------------------------------------------------
(* The bytes each call moves.                                               *)

\* The string c is made of a, of length m, and of b, of length n.
Join(c, a, b, m, n) ==
    /\ a \in Seq(Byte) /\ b \in Seq(Byte) /\ c \in Seq(Byte)
    /\ m \in Nat /\ n \in Nat
    /\ Len(a) = m /\ Len(b) = n /\ Len(c) = m + n
    /\ \A i \in 1 .. m : c[i] = a[i]
    /\ \A i \in 1 .. n : c[m + i] = b[i]

\* A string made of two others, position by position, is their concatenation.
LEMMA Joined ==
    ASSUME NEW a, NEW b, NEW c, NEW m, NEW n, Join(c, a, b, m, n)
    PROVE  c = a \o b
<1>0. /\ a \in Seq(Byte) /\ b \in Seq(Byte) /\ c \in Seq(Byte)
      /\ m \in Nat /\ n \in Nat
      /\ Len(a) = m /\ Len(b) = n /\ Len(c) = m + n
      /\ \A i \in 1 .. m : c[i] = a[i]
      /\ \A i \in 1 .. n : c[m + i] = b[i]
  BY DEF Join
<1>1. /\ a \o b \in Seq(Byte) /\ Len(a \o b) = m + n
      /\ \A i \in 1 .. m + n : (a \o b)[i] = IF i <= m THEN a[i] ELSE b[i - m]
  BY <1>0, ConcatProperties
<1>2. ASSUME NEW i \in 1 .. m + n PROVE c[i] = (a \o b)[i]
  <2>1. CASE i <= m
    <3>1. i \in 1 .. m  BY <1>0, <2>1
    <3> QED  BY <1>0, <1>1, <2>1, <3>1
  <2>2. CASE ~(i <= m)
    <3>1. i - m \in 1 .. n /\ m + (i - m) = i  BY <1>0, <2>2
    <3>2. c[m + (i - m)] = b[i - m]  BY <1>0, <3>1
    <3> QED  BY <1>0, <1>1, <2>2, <3>1, <3>2
  <2> QED  BY <2>1, <2>2
<1> QED  BY <1>0, <1>1, <1>2, SeqEqual

\* Joining three strings.
LEMMA JoinAssociative ==
    \A a, b, c \in Seq(Byte) : (a \o b) \o c = a \o (b \o c)
  BY ConcatAssociative

\* The content, with its length as a number.
LEMMA ContentAt ==
    ASSUME NEW q, Sound(q)
    PROVE  /\ Content(q) \in Seq(Byte) /\ Len(Content(q)) \in Nat
           /\ Len(Content(q)) = q.writer - q.reader
           /\ ReadableBytes(q) = Len(Content(q))
           /\ \A i \in 1 .. Len(Content(q)) : Content(q)[i] = q.bytes[q.reader + i]
<1>1. q.writer - q.reader \in Nat  BY SoundFields
<1> QED  BY <1>1, ContentProperties DEF ReadableBytes

\* c is the m bytes of b behind offset r.
Part(c, b, r, m) ==
    /\ c \in Seq(Byte) /\ Len(c) = m
    /\ \A i \in 1 .. m : c[i] = b[r + i]

\* The content of a buffer whose parts are known.
LEMMA ContentIs ==
    ASSUME NEW q, Sound(q), NEW b, NEW r \in Nat, NEW m \in Nat,
           q.bytes = b, q.reader = r, q.writer - q.reader = m
    PROVE  Part(Content(q), b, r, m)
<1>1. Content(q) \in Seq(Byte) /\ Len(Content(q)) = m  BY ContentAt
<1> QED  BY <1>1, ContentAt DEF Part

\* Appending appends.
LEMMA AppendedContent ==
    ASSUME NEW q, NEW p, Sound(q), Sound(p), NEW d \in Seq(Byte), Appended(q, p, d)
    PROVE  Content(q) = Content(p) \o d
<1>1. PICK m \in Nat, n \in Nat, r \in Nat :
            m = Len(Content(p)) /\ n = Len(d) /\ r = q.reader
  BY ContentAt, SoundFields
<1>2. /\ Content(p) \in Seq(Byte) /\ m = p.writer - p.reader
      /\ \A i \in 1 .. m : Content(p)[i] = p.bytes[p.reader + i]
  BY <1>1, ContentAt
<1>3. /\ q.writer - q.reader = m + n
      /\ \A i \in 1 .. m : q.bytes[r + i] = p.bytes[p.reader + i]
      /\ \A i \in 1 .. n : q.bytes[r + m + i] = d[i]
  BY <1>1, <1>2 DEF Appended
<1>4. /\ Content(q) \in Seq(Byte) /\ Len(Content(q)) = m + n
      /\ \A i \in 1 .. m + n : Content(q)[i] = q.bytes[r + i]
  BY <1>1, <1>3, ContentAt
<1>5. \A i \in 1 .. m : Content(q)[i] = Content(p)[i]
  <2> TAKE i \in 1 .. m
  <2>1. i \in 1 .. m + n  OBVIOUS
  <2> QED  BY <1>2, <1>3, <1>4, <2>1
<1>6. \A i \in 1 .. n : Content(q)[m + i] = d[i]
  <2> TAKE i \in 1 .. n
  <2>1. m + i \in 1 .. m + n /\ r + (m + i) = r + m + i  OBVIOUS
  <2> QED  BY <1>3, <1>4, <2>1
<1>7. PICK c, a : c = Content(q) /\ a = Content(p)  OBVIOUS
<1>8. Join(c, a, d, m, n)
  BY <1>1, <1>2, <1>4, <1>5, <1>6, <1>7 DEF Join
<1>9. c = a \o d  BY <1>8, Joined
<1> QED  BY <1>7, <1>9

\* Making room keeps the content.
LEMMA SameContentEqual ==
    ASSUME NEW q, NEW p, Sound(q), Sound(p), SameContent(q, p)
    PROVE  Content(q) = Content(p)
<1>1. PICK m \in Nat : m = Len(Content(p)) /\ m = p.writer - p.reader
  BY ContentAt
<1>2. Len(Content(q)) = m  BY <1>1, ContentAt DEF SameContent
<1>3. \A i \in 1 .. m : Content(q)[i] = Content(p)[i]
  BY <1>1, <1>2, ContentAt DEF SameContent
<1> QED  BY <1>1, <1>2, <1>3, ContentAt, SeqEqual

\* Retrieving takes the bytes peeked at from the front, and a retrieve of more
\* than there is takes everything.
LEMMA RetrieveContent ==
    ASSUME NEW q, Sound(q), NEW len \in Nat
    PROVE  /\ len <= ReadableBytes(q) =>
                 Content(q) = PeekBytes(q, len) \o Content(RetrieveFrom(q, len))
           /\ ~(len <= ReadableBytes(q)) =>
                 Content(q) = Content(q) \o Content(RetrieveFrom(q, len))
<1>1. PICK e : e = RetrieveFrom(q, len)  OBVIOUS
<1>2. Sound(e)  BY <1>1, RetrieveProperties
<1>3. PICK m \in Nat, r \in Nat : m = Len(Content(q)) /\ r = q.reader
  BY ContentAt, SoundFields
<1>4. /\ m = q.writer - q.reader /\ m = ReadableBytes(q) /\ Content(q) \in Seq(Byte)
      /\ \A i \in 1 .. m : Content(q)[i] = q.bytes[r + i]
  BY <1>3, ContentAt
<1>5. CASE len < m
  <2>1. e.bytes = q.bytes /\ e.reader = r + len /\ e.writer = q.writer
    BY <1>1, <1>3, <1>4, <1>5, RetrieveProperties
  <2>2. /\ PeekBytes(q, len) \in Seq(Byte) /\ Len(PeekBytes(q, len)) = len
        /\ \A i \in 1 .. len : PeekBytes(q, len)[i] = q.bytes[r + i]
    BY <1>3, <1>4, <1>5, PeekProperties
  <2>3. q.writer - (r + len) = m - len
    BY <1>3, <1>4, SoundFields
  <2>4. /\ Content(e) \in Seq(Byte) /\ Len(Content(e)) = m - len
        /\ \A i \in 1 .. m - len : Content(e)[i] = q.bytes[r + len + i]
    BY <1>2, <2>1, <2>3, ContentAt
  <2>5. \A i \in 1 .. len : Content(q)[i] = PeekBytes(q, len)[i]
    <3> TAKE i \in 1 .. len
    <3>1. i \in 1 .. m  BY <1>5
    <3> QED  BY <1>4, <2>2, <3>1
  <2>6. \A i \in 1 .. m - len : Content(q)[len + i] = Content(e)[i]
    <3> TAKE i \in 1 .. m - len
    <3>1. len + i \in 1 .. m /\ r + (len + i) = r + len + i  BY <1>5
    <3> QED  BY <1>4, <2>4, <3>1
  <2>7. m = len + (m - len) /\ m - len \in Nat  BY <1>5
  <2>8. Len(Content(q)) = len + (m - len)  BY <1>3, <2>7
  <2>9. Content(q) = PeekBytes(q, len) \o Content(e)
    <3>1. PICK c, a, b, n : /\ c = Content(q) /\ a = PeekBytes(q, len)
                            /\ b = Content(e) /\ n = m - len
      OBVIOUS
    <3>2. Join(c, a, b, len, n)
      BY <1>4, <2>2, <2>4, <2>5, <2>6, <2>7, <2>8, <3>1 DEF Join
    <3>3. c = a \o b  BY <3>2, Joined
    <3> QED  BY <3>1, <3>3
  <2> QED  BY <1>1, <1>4, <1>5, <2>9
<1>6. CASE ~(len < m)
  <2>1. e.writer - e.reader = 0
    BY <1>1, <1>4, <1>6, RetrieveProperties
  <2>2. Content(e) = <<>>
    BY <1>2, <2>1, ContentAt, EmptySeq
  <2>3. Content(q) \o Content(e) = Content(q)  BY <1>4, <2>2, ConcatEmptySeq
  <2>4. len <= ReadableBytes(q) => PeekBytes(q, len) = Content(q)
    BY <1>4, <1>6 DEF Content
  <2> QED  BY <1>1, <2>3, <2>4
<1> QED  BY <1>5, <1>6

\* The bytes put in front.
LEMMA PrependContent ==
    ASSUME IInv, NEW d \in Data, Prepend(d)
    PROVE  Sound(This') /\ Content(This') = d \o Content(This)
<1>0. /\ Sound(This)
      /\ This.reader = reader_index_ /\ This.writer = writer_index_
      /\ This.bytes = buffer_ /\ d \in Seq(Byte) /\ Len(d) \in Nat
  BY IOBufferData DEF IInv, This, Buf
<1>1. PICK n \in Nat, r \in Nat, w \in Nat, z \in Nat :
            /\ n = Len(d) /\ r = reader_index_ /\ w = writer_index_
            /\ z = Len(buffer_)
  BY <1>0, SoundFields
<1>2. /\ buffer_ \in Seq(Byte) /\ n <= r /\ r <= w /\ w <= z
      /\ kCheapPrepend <= z /\ r - n \in Nat
  BY <1>0, <1>1, SoundFields DEF Prepend, PrependableBytes
<1>3. PICK b : b = CopyTo(buffer_, r - n, d)  OBVIOUS
<1>4. /\ b \in Seq(Byte) /\ Len(b) = z
      /\ \A i \in 1 .. z :
            b[i] = IF r - n < i /\ i <= (r - n) + n THEN d[i - (r - n)] ELSE buffer_[i]
  <2>1. PICK at \in Nat : at = r - n  BY <1>2
  <2>2. /\ CopyTo(buffer_, at, d) \in Seq(Byte)
        /\ Len(CopyTo(buffer_, at, d)) = Len(buffer_)
        /\ \A i \in 1 .. Len(buffer_) :
              CopyTo(buffer_, at, d)[i] =
                 IF at < i /\ i <= at + Len(d) THEN d[i - at] ELSE buffer_[i]
    BY <1>0, <1>2, CopyToProperties
  <2>3. b = CopyTo(buffer_, at, d)  BY <1>3, <2>1
  <2>4. /\ b \in Seq(Byte) /\ Len(b) = z
        /\ \A i \in 1 .. z :
              b[i] = IF at < i /\ i <= at + n THEN d[i - at] ELSE buffer_[i]
    BY <1>1, <2>2, <2>3
  <2> QED  BY <2>1, <2>4
<1>5. This' = Buf(b, r - n, w)
  BY <1>1, <1>3 DEF Prepend, This
<1>6. /\ Sound(Buf(b, r - n, w)) /\ Buf(b, r - n, w).bytes = b
      /\ Buf(b, r - n, w).reader = r - n /\ Buf(b, r - n, w).writer = w
  <2>1. r - n <= w  BY <1>2
  <2> QED  BY <1>2, <1>4, <2>1, BufSound
<1>7. PICK q : q = This'  OBVIOUS
<1>8. Sound(q) /\ q.bytes = b /\ q.reader = r - n /\ q.writer = w
  BY <1>5, <1>6, <1>7
<1>9. /\ w - (r - n) = n + (w - r) /\ w - r \in Nat /\ n + (w - r) \in Nat
      /\ r - n \in Nat
  BY <1>2
<1>10. /\ Content(q) \in Seq(Byte) /\ Len(Content(q)) = n + (w - r)
       /\ \A i \in 1 .. n + (w - r) : Content(q)[i] = b[(r - n) + i]
  <2>1. PICK at \in Nat, m \in Nat : at = r - n /\ m = n + (w - r)  BY <1>9
  <2>2. q.bytes = b /\ q.reader = at /\ q.writer - q.reader = m
    BY <1>8, <1>9, <2>1
  <2>3. Part(Content(q), b, at, m)  BY <1>8, <2>2, ContentIs
  <2> QED  BY <2>1, <2>3 DEF Part
<1>11. /\ Content(This) \in Seq(Byte) /\ Len(Content(This)) = w - r
       /\ \A i \in 1 .. w - r : Content(This)[i] = buffer_[r + i]
  <2>1. PICK m \in Nat : m = w - r  BY <1>9
  <2>2. This.bytes = buffer_ /\ This.reader = r /\ This.writer - This.reader = m
    BY <1>0, <1>1, <2>1
  <2>3. Part(Content(This), buffer_, r, m)  BY <1>0, <2>2, ContentIs
  <2> QED  BY <2>1, <2>3 DEF Part
<1>12. \A i \in 1 .. n : Content(q)[i] = d[i]
  <2> TAKE i \in 1 .. n
  <2>1. /\ i \in 1 .. n + (w - r) /\ (r - n) + i \in 1 .. z
        /\ r - n < (r - n) + i /\ (r - n) + i <= (r - n) + n
        /\ ((r - n) + i) - (r - n) = i
    BY <1>2
  <2> QED  BY <1>4, <1>10, <2>1
<1>13. \A i \in 1 .. w - r : Content(q)[n + i] = Content(This)[i]
  <2> TAKE i \in 1 .. w - r
  <2>1. /\ n + i \in 1 .. n + (w - r) /\ (r - n) + (n + i) = r + i
        /\ r + i \in 1 .. z /\ ~(r + i <= (r - n) + n)
    BY <1>2
  <2> QED  BY <1>4, <1>10, <1>11, <2>1
<1>14. PICK c, a, k : c = Content(q) /\ a = Content(This) /\ k = w - r  OBVIOUS
<1>15. Join(c, d, a, n, k)
  BY <1>0, <1>1, <1>9, <1>10, <1>11, <1>12, <1>13, <1>14 DEF Join
<1>16. c = d \o a  BY <1>15, Joined
<1> QED  BY <1>7, <1>8, <1>14, <1>16

\* The bytes withdrawn.
LEMMA UnwriteContent ==
    ASSUME IInv, NEW len \in 0 .. ReadableBytes(This), Unwrite(len)
    PROVE  /\ Sound(This')
           /\ \E p \in Seq(Byte) : Content(This) = Content(This') \o p
<1>0. /\ Sound(This)
      /\ This.reader = reader_index_ /\ This.writer = writer_index_
      /\ This.bytes = buffer_
  BY DEF IInv, This, Buf
<1>1. PICK r \in Nat, w \in Nat, m \in Nat :
            /\ r = reader_index_ /\ w = writer_index_ /\ m = w - r
            /\ m = Len(Content(This)) /\ m = ReadableBytes(This)
  BY <1>0, SoundFields, ContentAt
<1>2. /\ len \in Nat /\ len <= m /\ w - len \in Nat /\ r <= w - len
      /\ buffer_ \in Seq(Byte) /\ w - len <= Len(buffer_)
      /\ kCheapPrepend <= Len(buffer_)
  <2>1. /\ buffer_ \in Seq(Byte) /\ w <= Len(buffer_) /\ Len(buffer_) \in Nat
        /\ kCheapPrepend <= Len(buffer_) /\ r <= w
    BY <1>0, <1>1, SoundFields
  <2>2. len \in Nat /\ len <= m  BY <1>1
  <2> QED  BY <1>1, <2>1, <2>2
<1>3. This' = Buf(buffer_, r, w - len)  BY <1>1 DEF Unwrite, This
<1>4. /\ Sound(Buf(buffer_, r, w - len))
      /\ Buf(buffer_, r, w - len).bytes = buffer_
      /\ Buf(buffer_, r, w - len).reader = r
      /\ Buf(buffer_, r, w - len).writer = w - len
  BY <1>2, BufSound
<1>5. PICK q : q = This'  OBVIOUS
<1>6. Sound(q) /\ q.bytes = buffer_ /\ q.reader = r /\ q.writer = w - len
  BY <1>3, <1>4, <1>5
<1>7. (w - len) - r = m - len  BY <1>1, <1>2
<1>8. /\ Content(q) \in Seq(Byte) /\ Len(Content(q)) = m - len
      /\ \A i \in 1 .. m - len : Content(q)[i] = buffer_[r + i]
  <2>1. PICK k \in Nat : k = m - len  BY <1>1, <1>2
  <2>2. q.bytes = buffer_ /\ q.reader = r /\ q.writer - q.reader = k
    BY <1>6, <1>7, <2>1
  <2>3. Part(Content(q), buffer_, r, k)  BY <1>6, <2>2, ContentIs
  <2> QED  BY <2>1, <2>3 DEF Part
<1>9. /\ Content(This) \in Seq(Byte)
      /\ \A i \in 1 .. m : Content(This)[i] = buffer_[r + i]
  BY <1>0, <1>1, ContentAt
<1>10. PICK p : p = SubSeq(Content(This), (m - len) + 1, m)  OBVIOUS
<1>11. /\ p \in Seq(Byte) /\ Len(p) = len
       /\ \A i \in 1 .. len : p[i] = Content(This)[(m - len) + i]
  <2>1. m - len \in Nat /\ m - (m - len) = len /\ ((m - len) + 1 <= m <=> len # 0)
    BY <1>2
  <2>2. PICK k \in Nat : k = m - len  BY <2>1
  <2>3. m <= Len(Content(This))  BY <1>1
  <2>4. /\ SubSeq(Content(This), k + 1, m) \in Seq(Byte)
        /\ Len(SubSeq(Content(This), k + 1, m)) = IF k + 1 <= m THEN m - k ELSE 0
        /\ \A i \in 1 .. m - k :
              SubSeq(Content(This), k + 1, m)[i] = Content(This)[k + i]
    BY <1>9, <2>3, SubSeqOfData
  <2> QED  BY <1>10, <2>1, <2>2, <2>4
<1>12. /\ m = (m - len) + len /\ m - len \in Nat
       /\ \A i \in 1 .. m - len : i \in 1 .. m
  BY <1>2
<1>13. \A i \in 1 .. m - len : Content(This)[i] = Content(q)[i]
  BY <1>8, <1>9, <1>12
<1>14. Len(Content(This)) = (m - len) + len  BY <1>1, <1>12
<1>15. Content(This) = Content(q) \o p
  <2>1. PICK c, a, k : c = Content(This) /\ a = Content(q) /\ k = m - len  OBVIOUS
  <2>2. Join(c, a, p, k, len)
    BY <1>2, <1>8, <1>9, <1>11, <1>12, <1>13, <1>14, <2>1 DEF Join
  <2>3. c = a \o p  BY <2>2, Joined
  <2> QED  BY <2>1, <2>3
<1> QED  BY <1>5, <1>6, <1>11, <1>15

\* The content after a call that becomes q.
LEMMA ContentNext ==
    ASSUME NEW q, This' = q
    PROVE  Content(This)' = Content(q)
  BY DEF Content, PeekBytes, ReadableBytes

\* What each transfer does to the content.
LEMMA TransferStep ==
    ASSUME IInv
    PROVE  /\ \A d \in Data :
                 /\ Write(d) \/ ReadFdPosix(d)
                       => Content(This)' = Content(This) \o d
                 /\ Prepend(d) => Content(This)' = d \o Content(This)
           /\ \A len \in 0 .. ReadableBytes(This) :
                 Read(len) => Content(This) = result' \o Content(This)'
<1>0. Sound(This) /\ ReadableBytes(This) \in Nat
  BY ContentAt DEF IInv
<1>1. ASSUME NEW d \in Data, Write(d)
      PROVE  Content(This)' = Content(This) \o d
  <2>1. d \in Seq(Byte)  BY IOBufferData
  <2>2. PICK q : q = WriteTo(This, d)  OBVIOUS
  <2>3. Sound(q) /\ Appended(q, This, d) /\ Become(q)
    BY <1>0, <1>1, <2>1, <2>2, WriteToProperties DEF Write
  <2>4. Content(q) = Content(This) \o d
    BY <1>0, <2>1, <2>3, AppendedContent
  <2>5. This' = q  BY <2>3, BecomeSound
  <2> QED  BY <2>4, <2>5, ContentNext
<1>2. ASSUME NEW d \in Data, ReadFdPosix(d)
      PROVE  Content(This)' = Content(This) \o d
  <2>1. d \in Seq(Byte)  BY IOBufferData
  <2>2. PICK q : Sound(q) /\ Become(q) /\ Appended(q, This, d)
    BY <1>2, ReadFdPosixProperties
  <2>3. Content(q) = Content(This) \o d
    BY <1>0, <2>1, <2>2, AppendedContent
  <2>4. This' = q  BY <2>2, BecomeSound
  <2> QED  BY <2>3, <2>4, ContentNext
<1>3. ASSUME NEW d \in Data, Prepend(d)
      PROVE  Content(This)' = d \o Content(This)
  <2>1. PICK q : q = This'  OBVIOUS
  <2>2. Content(q) = d \o Content(This)  BY <1>3, <2>1, PrependContent
  <2> QED  BY <2>1, <2>2, ContentNext
<1>4. ASSUME NEW len \in 0 .. ReadableBytes(This), Read(len)
      PROVE  Content(This) = result' \o Content(This)'
  <2>1. len \in Nat /\ len <= ReadableBytes(This)  BY <1>0
  <2>2. PICK q : q = RetrieveFrom(This, len)  OBVIOUS
  <2>3. Sound(q) /\ Content(This) = PeekBytes(This, len) \o Content(q)
    BY <1>0, <2>1, <2>2, RetrieveProperties, RetrieveContent
  <2>4. Become(q) /\ result' = PeekBytes(This, len)
    BY <1>4, <2>2 DEF Read
  <2>5. This' = q  BY <2>3, <2>4, BecomeSound
  <2>6. Content(This)' = Content(q)  BY <2>5, ContentNext
  <2> QED  BY <2>3, <2>4, <2>6
<1> QED  BY <1>1, <1>2, <1>3, <1>4

-----------------------------------------------------------------------------
(* The queue of bytes the buffer implements.                                *)

\* Where the parts of a concatenation occur in it.
LEMMA PartsOccur ==
    ASSUME NEW s \in Seq(Byte), NEW p \in Seq(Byte)
    PROVE  /\ Len(s \o p) \in Nat /\ Len(s \o p) = Len(s) + Len(p)
           /\ Queue!OccursAt(s, s \o p, 0)
           /\ Queue!OccursAt(p, s \o p, Len(s \o p) - Len(p))
<1>1. PICK m \in Nat, n \in Nat : m = Len(s) /\ n = Len(p)  OBVIOUS
<1>2. /\ s \o p \in Seq(Byte) /\ Len(s \o p) = m + n
      /\ \A i \in 1 .. m + n : (s \o p)[i] = IF i <= m THEN s[i] ELSE p[i - m]
  BY <1>1, ConcatProperties
<1>3. \A i \in 1 .. m : (s \o p)[0 + i] = s[i]
  <2> TAKE i \in 1 .. m
  <2>1. i \in 1 .. m + n /\ i <= m /\ 0 + i = i  OBVIOUS
  <2> QED  BY <1>2, <2>1
<1>4. \A i \in 1 .. n : (s \o p)[m + i] = p[i]
  <2> TAKE i \in 1 .. n
  <2>1. m + i \in 1 .. m + n /\ ~(m + i <= m) /\ (m + i) - m = i  OBVIOUS
  <2> QED  BY <1>2, <2>1
<1>5. /\ 0 >= 0 /\ 0 + m <= m + n /\ m >= 0 /\ (m + n) - n = m
      /\ m + n <= m + n
  OBVIOUS
<1>6. Queue!OccursAt(s, s \o p, 0)
  BY <1>1, <1>2, <1>3, <1>5 DEF Queue!OccursAt
<1>7. Queue!OccursAt(p, s \o p, m)
  BY <1>1, <1>2, <1>4, <1>5 DEF Queue!OccursAt
<1>8. Len(s \o p) - Len(p) = m  BY <1>1, <1>2, <1>5
<1> QED  BY <1>1, <1>2, <1>6, <1>7, <1>8

\* A call that appends.
LEMMA EnqueueStep ==
    ASSUME IInv, NEW q, Sound(q), Become(q), UNCHANGED result,
           NEW p \in Seq(Byte), Content(q) = Content(This) \o p
    PROVE  Queue!Next
<1>1. Content(This)' = Content(q)  BY BecomeSound, ContentNext
<1>2. Content(This) \in Seq(Byte) /\ Content(q) \in Seq(Byte) /\ result \in Seq(Byte)
  BY ContentAt DEF IInv, TypeOK
<1>3. Queue!OccursAt(Content(This), Content(q), 0)
  BY <1>2, PartsOccur
<1>4. Queue!Enqueue  BY <1>1, <1>3 DEF Queue!Enqueue
<1> QED  BY <1>1, <1>2, <1>4 DEF Queue!Next

\* A call that takes p and p2 from the front and hands out p or nothing.
LEMMA DequeueStep ==
    ASSUME IInv, NEW q, Sound(q), Become(q),
           NEW p \in Seq(Byte), NEW p2 \in Seq(Byte),
           Content(This) = (p \o p2) \o Content(q),
           result' = result \/ result' = p
    PROVE  Queue!Next
<1>1. Content(This)' = Content(q)  BY BecomeSound, ContentNext
<1>2. Content(q) \in Seq(Byte) /\ result' \in Seq(Byte)
  BY ContentAt DEF IInv, TypeOK
<1>3. PICK c : c = Content(q)  OBVIOUS
<1>4. PICK t : t = Content(This)  OBVIOUS
<1>5. /\ p \o p2 \in Seq(Byte) /\ p2 \o c \in Seq(Byte) /\ c \in Seq(Byte)
      /\ t = (p \o p2) \o c /\ t = p \o (p2 \o c)
  <2>1. c \in Seq(Byte) /\ t = (p \o p2) \o c  BY <1>2, <1>3, <1>4
  <2>2. (p \o p2) \o c = p \o (p2 \o c)  BY <2>1, JoinAssociative
  <2>3. p \o p2 \in Seq(Byte) /\ p2 \o c \in Seq(Byte)
    BY <2>1, ConcatProperties
  <2> QED  BY <2>1, <2>2, <2>3
<1>6. /\ Queue!OccursAt(c, t, Len(t) - Len(c)) /\ Len(t) = Len(p \o p2) + Len(c)
      /\ Queue!OccursAt(p, t, 0) /\ Len(p \o p2) = Len(p) + Len(p2)
  BY <1>5, PartsOccur
<1>7. Len(p) <= Len(t) - Len(c)
  <2>1. Len(p) \in Nat /\ Len(p2) \in Nat /\ Len(c) \in Nat  BY <1>5
  <2> QED  BY <1>6, <2>1
<1>8. Queue!Dequeue
  BY <1>1, <1>3, <1>4, <1>6, <1>7 DEF Queue!Dequeue
<1> QED  BY <1>1, <1>2, <1>8 DEF Queue!Next

\* Every call is a step of the queue.
LEMMA QueueStep == IInv /\ [Next]_vars => [Queue!Next]_Queue!vars
<1> SUFFICES ASSUME IInv, [Next]_vars PROVE [Queue!Next]_Queue!vars
  OBVIOUS
<1>0. /\ Sound(This) /\ ReadableBytes(This) \in Nat /\ MaxSize \in Nat
      /\ Content(This) \in Seq(Byte) /\ result \in Seq(Byte) /\ <<>> \in Seq(Byte)
      /\ Content(This) \o <<>> = Content(This)
      /\ This.reader = reader_index_ /\ This.writer = writer_index_
      /\ This.bytes = buffer_
  BY ContentAt, IOBufferData, ConcatEmptySeq, EmptySeq DEF IInv, TypeOK, This, Buf
<1>1. ASSUME NEW d \in Data, Write(d) PROVE Queue!Next
  <2>1. d \in Seq(Byte)  BY IOBufferData
  <2>2. PICK q : q = WriteTo(This, d)  OBVIOUS
  <2>3. Sound(q) /\ Appended(q, This, d) /\ Become(q) /\ UNCHANGED result
    BY <1>0, <1>1, <2>1, <2>2, WriteToProperties DEF Write
  <2>4. Content(q) = Content(This) \o d
    BY <1>0, <2>1, <2>3, AppendedContent
  <2> QED  BY <2>1, <2>3, <2>4, EnqueueStep
<1>2. ASSUME NEW d \in Data, Prepend(d) PROVE Queue!Next
  <2>1. PICK q : q = This'  OBVIOUS
  <2>2. Sound(q) /\ Content(q) = d \o Content(This) /\ d \in Seq(Byte)
    BY <1>2, <2>1, PrependContent, IOBufferData
  <2>3. Content(This)' = Content(q) /\ Content(q) \in Seq(Byte)
    BY <2>1, <2>2, ContentNext, ContentAt
  <2>4. Queue!OccursAt(Content(This), Content(q), Len(Content(q)) - Len(Content(This)))
    BY <1>0, <2>2, PartsOccur
  <2>5. UNCHANGED result  BY <1>2 DEF Prepend
  <2>6. Queue!PushFront  BY <2>3, <2>4, <2>5 DEF Queue!PushFront
  <2> QED  BY <1>0, <2>3, <2>5, <2>6 DEF Queue!Next
<1>3. ASSUME NEW d \in Data, ReadFdWin(d) PROVE Queue!Next
  <2>1. d \in Seq(Byte)  BY IOBufferData
  <2>2. CASE Len(d) = ExtraBuf
    <3>1. Become(This) /\ UNCHANGED result
      BY <1>0, <1>3, <2>2 DEF ReadFdWin, Become
    <3> QED  BY <1>0, <3>1, EnqueueStep
  <2>3. CASE Len(d) # ExtraBuf
    <3>1. PICK q : q = WriteTo(This, d)  OBVIOUS
    <3>2. Sound(q) /\ Appended(q, This, d) /\ Become(q) /\ UNCHANGED result
      BY <1>0, <1>3, <2>1, <2>3, <3>1, WriteToProperties DEF ReadFdWin
    <3>3. Content(q) = Content(This) \o d
      BY <1>0, <2>1, <3>2, AppendedContent
    <3> QED  BY <2>1, <3>2, <3>3, EnqueueStep
  <2> QED  BY <2>2, <2>3
<1>4. ASSUME NEW d \in Data, ReadFdPosix(d) PROVE Queue!Next
  <2>1. d \in Seq(Byte)  BY IOBufferData
  <2>2. PICK q : Sound(q) /\ Become(q) /\ Appended(q, This, d)
    BY <1>4, ReadFdPosixProperties
  <2>3. Content(q) = Content(This) \o d
    BY <1>0, <2>1, <2>2, AppendedContent
  <2>4. UNCHANGED result  BY <1>4 DEF ReadFdPosix
  <2> QED  BY <2>1, <2>2, <2>3, <2>4, EnqueueStep
<1>5. ASSUME NEW len \in 0 .. MaxSize, Ensure(len) PROVE Queue!Next
  <2>1. len \in Nat  BY <1>0
  <2>2. PICK q : q = EnsureWritableBytes(This, len)  OBVIOUS
  <2>3. Sound(q) /\ SameContent(q, This)
    BY <1>0, <2>1, <2>2, EnsureProperties
  <2>4. Become(q) /\ UNCHANGED result  BY <1>5, <2>2 DEF Ensure
  <2>5. Content(q) = Content(This) \o <<>>
    BY <1>0, <2>3, SameContentEqual
  <2> QED  BY <1>0, <2>3, <2>4, <2>5, EnqueueStep
<1>6. ASSUME NEW reserve \in 0 .. MaxSize, Shrink(reserve) PROVE Queue!Next
  <2>1. PICK need, fresh, other :
            /\ need = ReadableBytes(This) + reserve /\ fresh = New(kInitialSize)
            /\ other = EnsureWritableBytes(fresh, need)
    OBVIOUS
  <2>2. Become(WriteTo(other, Content(This))) /\ UNCHANGED result
    BY <1>6, <2>1 DEF Shrink
  <2>3. need \in Nat /\ kInitialSize \in Nat /\ kCheapPrepend \in Nat
    BY <1>0, <2>1, IOBufferConstants
  <2>4. Sound(fresh) /\ fresh.writer = kCheapPrepend /\ fresh.reader = kCheapPrepend
    BY <2>1, <2>3, NewProperties
  <2>5. Content(fresh) = <<>>
    <3>1. fresh.writer - fresh.reader = 0  BY <2>3, <2>4
    <3> QED  BY <2>4, <3>1, ContentAt, EmptySeq
  <2>6. Sound(other) /\ SameContent(other, fresh)
    BY <2>1, <2>3, <2>4, EnsureProperties
  <2>7. Content(other) = <<>>
    BY <2>4, <2>5, <2>6, SameContentEqual
  <2>8. PICK q : q = WriteTo(other, Content(This))  OBVIOUS
  <2>9. Sound(q) /\ Appended(q, other, Content(This))
    BY <1>0, <2>6, <2>8, WriteToProperties
  <2>10. Content(q) = <<>> \o Content(This)
    <3>1. PICK d \in Seq(Byte) : d = Content(This)  BY <1>0
    <3>2. Appended(q, other, d)  BY <2>9, <3>1
    <3>3. Content(q) = Content(other) \o d
      BY <2>6, <2>9, <3>2, AppendedContent
    <3> QED  BY <2>7, <3>1, <3>3
  <2>11. Content(q) = Content(This) \o <<>>
    BY <1>0, <2>10, ConcatEmptySeq
  <2> QED  BY <1>0, <2>2, <2>8, <2>9, <2>11, EnqueueStep
<1>7. ASSUME NEW len \in 0 .. ReadableBytes(This), NEW q, Become(q),
             q = RetrieveFrom(This, len),
             result' = result \/ result' = PeekBytes(This, len)
      PROVE  Queue!Next
  <2>1. len \in Nat /\ len <= ReadableBytes(This)  BY <1>0
  <2>2. PICK p : p = PeekBytes(This, len)  OBVIOUS
  <2>3. Sound(q) /\ Content(This) = p \o Content(q) /\ p \in Seq(Byte)
    BY <1>0, <1>7, <2>1, <2>2, RetrieveProperties, RetrieveContent, PeekProperties
  <2>4. p \o <<>> = p  BY <2>3, ConcatEmptySeq
  <2>5. Content(This) = (p \o <<>>) \o Content(q)  BY <2>3, <2>4
  <2>6. result' = result \/ result' = p  BY <1>7, <2>2
  <2> QED  BY <1>0, <1>7, <2>3, <2>5, <2>6, DequeueStep
<1>8. ASSUME NEW len \in 0 .. ReadableBytes(This), Unwrite(len) PROVE Queue!Next
  <2>1. PICK q : q = This'  OBVIOUS
  <2>2. PICK p \in Seq(Byte) : Content(This) = Content(q) \o p
    BY <1>8, <2>1, UnwriteContent
  <2>3. Sound(q)  BY <1>8, <2>1, UnwriteContent
  <2>4. Content(This)' = Content(q) /\ Content(q) \in Seq(Byte)
    BY <2>1, <2>3, ContentNext, ContentAt
  <2>5. Queue!OccursAt(Content(q), Content(This), 0)
    BY <2>2, <2>4, PartsOccur
  <2>6. UNCHANGED result  BY <1>8 DEF Unwrite
  <2>7. Queue!Withdraw  BY <2>4, <2>5, <2>6 DEF Queue!Withdraw
  <2> QED  BY <1>0, <2>4, <2>6, <2>7 DEF Queue!Next
<1>9. CASE RetrieveAll
  <2>1. PICK q : q = RetrieveAllOf(This)  OBVIOUS
  <2>2. Sound(q) /\ q.writer - q.reader = 0
    BY <1>0, <2>1, RetrieveAllProperties
  <2>3. Become(q) /\ UNCHANGED result  BY <1>9, <2>1 DEF RetrieveAll
  <2>4. Content(q) = <<>>  BY <2>2, ContentAt, EmptySeq
  <2>5. Content(This) = (Content(This) \o <<>>) \o Content(q)
    BY <1>0, <2>4
  <2>6. Queue!Next  BY <1>0, <2>2, <2>3, <2>5, DequeueStep
  <2> QED  BY <2>6
<1>10. CASE ReadLittleEndianInt16
  <2>1. PICK once, q, p : /\ once = RetrieveFrom(This, 2)
                          /\ q = RetrieveFrom(once, 2) /\ p = PeekBytes(This, 2)
    OBVIOUS
  <2>2. 2 <= ReadableBytes(This) /\ Become(q) /\ result' = p
    BY <1>10, <2>1 DEF ReadLittleEndianInt16
  <2>3. Sound(once) /\ Content(This) = p \o Content(once) /\ p \in Seq(Byte)
    BY <1>0, <2>1, <2>2, RetrieveProperties, RetrieveContent, PeekProperties
  <2>4. Sound(q)  BY <2>1, <2>3, RetrieveProperties
  <2>5. PICK p2 \in Seq(Byte) : Content(once) = p2 \o Content(q)
    <3>1. Content(once) \in Seq(Byte)  BY <2>3, ContentAt
    <3>2. CASE 2 <= ReadableBytes(once)
      <4>1. PeekBytes(once, 2) \in Seq(Byte)  BY <2>3, <3>2, PeekProperties
      <4> QED  BY <2>1, <2>3, <3>2, <4>1, RetrieveContent
    <3>3. CASE ~(2 <= ReadableBytes(once))
      BY <2>1, <2>3, <3>1, <3>3, RetrieveContent
    <3> QED  BY <3>2, <3>3
  <2>6. Content(q) \in Seq(Byte)  BY <2>4, ContentAt
  <2>7. Content(This) = (p \o p2) \o Content(q)
    <3>1. PICK c : c = Content(q)  OBVIOUS
    <3>2. (p \o p2) \o c = p \o (p2 \o c)
      BY <2>3, <2>6, <3>1, JoinAssociative
    <3> QED  BY <2>3, <2>5, <3>1, <3>2
  <2>8. Queue!Next  BY <2>2, <2>3, <2>4, <2>5, <2>7, DequeueStep
  <2> QED  BY <2>8
<1>11. CASE UNCHANGED vars
  <2>1. Become(This) /\ UNCHANGED result
    BY <1>0, <1>11 DEF vars, Become
  <2>2. Queue!Next  BY <1>0, <2>1, EnqueueStep
  <2> QED  BY <2>2
<1>12. ASSUME NEW len \in 0 .. ReadableBytes(This), Retrieve(len) \/ Read(len)
       PROVE  Queue!Next
  <2>1. /\ Become(RetrieveFrom(This, len))
        /\ result' = result \/ result' = PeekBytes(This, len)
    BY <1>12 DEF Retrieve, Read
  <2> QED  BY <1>7, <2>1
<1> QED
  BY <1>1, <1>2, <1>3, <1>4, <1>5, <1>6, <1>8, <1>9, <1>10, <1>11, <1>12 DEF Next

-----------------------------------------------------------------------------

\* After any sequence of calls on a buffer of any size: the types hold, the
\* indices are ordered, and no space DCHECK of MakeSpace or
\* EnsureWritableBytes has been false.
THEOREM TypeCorrect == Spec => []TypeOK
<1>1. IInv => TypeOK  BY DEF IInv
<1> QED  BY <1>1, InitIInv, StepIInv, PTL DEF Spec

\* 0 <= readerIndex <= writerIndex <= size, for every call sequence.
THEOREM IndicesStayOrdered == Spec => []IndicesOrdered
<1>1. IInv => IndicesOrdered
  <2> SUFFICES ASSUME IInv PROVE IndicesOrdered
    OBVIOUS
  <2>1. /\ This.reader = reader_index_ /\ This.writer = writer_index_
        /\ This.bytes = buffer_ /\ Sound(This)
    BY DEF IInv, This, Buf
  <2> QED  BY <2>1, SoundFields DEF IndicesOrdered
<1> QED  BY <1>1, InitIInv, StepIInv, PTL DEF Spec

\* MakeSpace moves the content only when there is room in front of it, and
\* EnsureWritableBytes finds the room it asked for, in every reachable state.
THEOREM SpaceIsFound == Spec => []SpaceChecksHold
<1>1. IInv => SpaceChecksHold  BY DEF IInv
<1> QED  BY <1>1, InitIInv, StepIInv, PTL DEF Spec

\* For every string and every buffer: what is written, or received into the
\* vector and the stack buffer, is appended whole behind the content, what is
\* prepended stands whole in front of it, and a read takes exactly the bytes it
\* hands out.
THEOREM TransfersAreExact == Spec => TransfersExact
<1>1. IInv => [/\ \A d \in Data :
                     /\ Write(d) \/ ReadFdPosix(d)
                           => Content(This)' = Content(This) \o d
                     /\ Prepend(d) => Content(This)' = d \o Content(This)
               /\ \A len \in 0 .. ReadableBytes(This) :
                     Read(len) => Content(This) = result' \o Content(This)'
              ]_vars
  BY TransferStep
<1> QED  BY <1>1, InitIInv, StepIInv, PTL DEF Spec, TransfersExact

\* The buffer keeps the promises of ByteQueue: in every call sequence the bytes
\* between the indices are a queue, which growing, moving to the front and
\* shrinking leave as it is.
THEOREM RefinesByteQueue == Spec => ImplementsByteQueue
<1>1. Init => Queue!Init
  <2> SUFFICES ASSUME Init PROVE Queue!Init
    OBVIOUS
  <2>1. Sound(This)  BY InitIInv DEF IInv
  <2>2. This.writer = kCheapPrepend /\ This.reader = kCheapPrepend
    BY DEF Init, This, Buf
  <2>3. This.writer - This.reader = 0  BY <2>2, IOBufferConstants
  <2>4. Content(This) = <<>>  BY <2>1, <2>3, ContentAt, EmptySeq
  <2> QED  BY <2>4 DEF Queue!Init, Init
<1> QED
  BY <1>1, InitIInv, StepIInv, QueueStep, PTL
     DEF Spec, ImplementsByteQueue, Queue!Spec
=============================================================================
