----------------------------- MODULE Codec_proofs -----------------------------
(***************************************************************************)
(* For any header size and limit, any length fields and any number of       *)
(* frames: however TCP cuts the stream, the codecs deliver the frames sent, *)
(* in order and whole, stay aligned with the stream, and LengthHeaderCodec  *)
(* leaves no packet behind.                                                 *)
(***************************************************************************)
EXTENDS Codec, SequenceTheorems, TLAPS

-----------------------------------------------------------------------------
(* Streams of frames.                                                       *)

\* The byte after b, for frames of the given lengths.
After(b, lens) == IF b[2] < lens[b[1]] THEN <<b[1], b[2] + 1>> ELSE <<b[1] + 1, 1>>

\* Byte i of rest lies in a frame after the first done ones, and that frame,
\* which begins behind byte at, is there as a whole.
InWholeFrame(rest, lens, done, i) ==
    \E m \in done + 1 .. Len(lens), at \in Nat, len \in Nat \ {0} :
        /\ len = lens[m]
        /\ i \in at + 1 .. at + len
        /\ at + len <= Len(rest)
        /\ \A k \in 1 .. len : rest[at + k] = <<m, k>>

\* The bytes of a frame lie at the distance of their places in the frame.
FramesOnce(rest) ==
    \A i, j \in 1 .. Len(rest) :
        rest[i][1] = rest[j][1] => i + rest[j][2] = j + rest[i][2]

\* rest is the concatenation of the frames after the first done ones.
Stream(rest, lens, done) ==
    /\ done <= Len(lens)
    /\ rest = <<>> => done = Len(lens)
    /\ rest # <<>> => /\ rest[1] = <<done + 1, 1>>
                      /\ After(rest[Len(rest)], lens) = <<Len(lens) + 1, 1>>
    /\ \A i \in 1 .. Len(rest) : InWholeFrame(rest, lens, done, i)
    /\ \A i \in 1 .. Len(rest) - 1 : rest[i + 1] = After(rest[i], lens)
    /\ FramesOnce(rest)

Lens == [m \in 1 .. Len(sent) |-> FrameLen(sent[m])]

IInv ==
    /\ TypeOK
    /\ Len(sent) <= MaxFrames
    /\ Stream(data \o wire, Lens, Len(delivered))
    /\ DeliveredAsSent
    /\ LengthHeaderDrains

-----------------------------------------------------------------------------
(* A frame is appended to a stream, or taken off its front.                 *)

\* The elements of a concatenation.
LEMMA ConcatElements ==
    ASSUME NEW S, NEW s \in Seq(S), NEW t \in Seq(S)
    PROVE  /\ s \o t \in Seq(S)
           /\ Len(s \o t) = Len(s) + Len(t)
           /\ \A k \in 1 .. Len(s) : (s \o t)[k] = s[k]
           /\ \A k \in 1 .. Len(t) : (s \o t)[Len(s) + k] = t[k]
  OBVIOUS

\* A whole frame, and a byte of it.
LEMMA ByteOfFrame ==
    ASSUME NEW rest, NEW lens, NEW done, NEW i,
           NEW m \in done + 1 .. Len(lens), NEW at \in Nat, NEW len \in Nat \ {0},
           len = lens[m], i \in at + 1 .. at + len, at + len <= Len(rest),
           \A k \in 1 .. len : rest[at + k] = <<m, k>>
    PROVE  InWholeFrame(rest, lens, done, i)
  BY DEF InWholeFrame

\* The peer's next frame goes to the end of the stream.
LEMMA StreamGrows ==
    ASSUME NEW rest \in Seq(Nat \X Nat), NEW lens \in Seq(Nat \ {0}),
           NEW done \in Nat, NEW n \in Nat \ {0}, Stream(rest, lens, done)
    PROVE  Stream(rest \o [k \in 1 .. n |-> <<Len(lens) + 1, k>>],
                  Append(lens, n), done)
<1>a. PICK L \in Nat : L = Len(rest)  BY LenProperties
<1>b. PICK S \in Nat : S = Len(lens)  BY LenProperties
<1>c. PICK frame : frame = [k \in 1 .. n |-> <<S + 1, k>>]  OBVIOUS
<1>d. PICK new : new = rest \o frame  OBVIOUS
<1>e. PICK lens2 : lens2 = Append(lens, n)  OBVIOUS
<1>1. L \in Nat /\ S \in Nat /\ n \in Nat \ {0} /\ done \in Nat /\ done <= S
  BY <1>a, <1>b DEF Stream
<1>2. /\ new \in Seq(Nat \X Nat)
      /\ Len(new) = L + n
      /\ \A k \in 1 .. L : new[k] = rest[k]
      /\ \A k \in 1 .. n : new[L + k] = <<S + 1, k>>
  <2>1. S + 1 \in Nat  BY <1>1
  <2>2. frame \in Seq(Nat \X Nat) /\ Len(frame) = n
        /\ \A k \in 1 .. n : frame[k] = <<S + 1, k>>
    BY <1>c, <2>1
  <2>3. /\ rest \o frame \in Seq(Nat \X Nat)
        /\ Len(rest \o frame) = Len(rest) + Len(frame)
        /\ \A k \in 1 .. Len(rest) : (rest \o frame)[k] = rest[k]
        /\ \A k \in 1 .. Len(frame) : (rest \o frame)[Len(rest) + k] = frame[k]
    <3>1. frame \in Seq(Nat \X Nat)  BY <2>2
    <3> QED  BY <3>1, ConcatElements
  <2> QED  BY <1>a, <1>d, <2>2, <2>3
<1>3. /\ Len(lens2) = S + 1
      /\ \A m \in 1 .. S : lens2[m] = lens[m] /\ lens[m] \in Nat \ {0}
      /\ lens2[S + 1] = n
  BY <1>b, <1>e
<1>4. /\ rest = <<>> => done = S
      /\ rest # <<>> => /\ rest[1] = <<done + 1, 1>>
                        /\ After(rest[L], lens) = <<S + 1, 1>>
      /\ \A i \in 1 .. L : InWholeFrame(rest, lens, done, i)
      /\ \A i \in 1 .. L - 1 : rest[i + 1] = After(rest[i], lens)
      /\ \A i, j \in 1 .. L :
            rest[i][1] = rest[j][1] => i + rest[j][2] = j + rest[i][2]
  BY <1>a, <1>b DEF Stream, FramesOnce
<1>5. ASSUME NEW i \in 1 .. L
      PROVE  /\ InWholeFrame(new, lens2, done, i)
             /\ \E m \in 1 .. S, k \in Nat : rest[i] = <<m, k>>
             /\ After(rest[i], lens2) = After(rest[i], lens)
  <2>1. InWholeFrame(rest, lens, done, i)  BY <1>4
  <2>2. PICK m \in done + 1 .. S, at \in Nat, l \in Nat \ {0} :
               /\ l = lens[m]
               /\ i \in at + 1 .. at + l
               /\ at + l <= L
               /\ \A k \in 1 .. l : rest[at + k] = <<m, k>>
    BY <1>a, <1>b, <2>1 DEF InWholeFrame
  <2>3. /\ at \in Nat /\ l \in Nat \ {0} /\ m \in done + 1 .. S
        /\ i \in at + 1 .. at + l /\ at + l <= L
    BY <2>2
  <2>4. m \in 1 .. S /\ m \in done + 1 .. S + 1  BY <1>1, <2>3
  <2>5. l = lens2[m] /\ lens2[m] = lens[m]  BY <1>3, <2>2, <2>4
  <2>6. ASSUME NEW k \in 1 .. l PROVE new[at + k] = <<m, k>>
    <3>1. at + k \in 1 .. L  BY <1>1, <2>3
    <3> QED  BY <1>2, <2>2, <3>1
  <2>7. i \in at + 1 .. at + l /\ at + l <= L + n  BY <1>1, <2>3
  <2>8. InWholeFrame(new, lens2, done, i)
    <3>1. m \in done + 1 .. Len(lens2) /\ at + l <= Len(new) /\ l = lens2[m]
      BY <1>2, <1>3, <2>4, <2>5, <2>7
    <3> QED  BY <2>3, <2>6, <3>1, ByteOfFrame
  <2>9. i - at \in 1 .. l /\ at + (i - at) = i /\ i - at \in Nat  BY <2>3
  <2>10. rest[i] = <<m, i - at>>  BY <2>2, <2>9
  <2>11. \E q \in 1 .. S, k \in Nat : rest[i] = <<q, k>>
    BY <2>4, <2>9, <2>10
  <2>12. rest[i][1] = m /\ lens2[rest[i][1]] = lens[rest[i][1]]  BY <2>5, <2>10
  <2>13. After(rest[i], lens2) = After(rest[i], lens)  BY <2>12 DEF After
  <2> QED  BY <2>8, <2>11, <2>13
<1>6. ASSUME NEW i \in L + 1 .. L + n
      PROVE  /\ InWholeFrame(new, lens2, done, i)
             /\ new[i] = <<S + 1, i - L>>
  <2>1. i - L \in 1 .. n /\ L + (i - L) = i  BY <1>1
  <2>2. new[i] = <<S + 1, i - L>>  BY <1>2, <2>1
  <2>3. S + 1 \in done + 1 .. S + 1 /\ L + n <= L + n  BY <1>1
  <2>4. InWholeFrame(new, lens2, done, i)
    <3>1. /\ S + 1 \in done + 1 .. Len(lens2) /\ L + n <= Len(new)
          /\ n = lens2[S + 1]
      BY <1>2, <1>3, <2>3
    <3> QED  BY <1>1, <1>2, <3>1, ByteOfFrame
  <2> QED  BY <2>2, <2>4
<1>7. \A i \in 1 .. L + n : i \in 1 .. L \/ i \in L + 1 .. L + n  BY <1>1
<1>8. new # <<>> /\ new[1] = <<done + 1, 1>>
  <2>0. Len(new) > 0 /\ 1 \in 1 .. n  BY <1>1, <1>2
  <2>1. CASE rest = <<>>
    <3>1. L = 0 /\ done = S /\ L + 1 = 1  BY <1>a, <1>4, <2>1
    <3>2. new[L + 1] = <<S + 1, 1>>  BY <1>2, <2>0
    <3> QED  BY <2>0, <3>1, <3>2
  <2>2. CASE rest # <<>>
    <3>1. 1 \in 1 .. L  BY <1>a, <2>2, EmptySeq
    <3>2. rest[1] = <<done + 1, 1>> /\ new[1] = rest[1]
      BY <1>2, <1>4, <2>2, <3>1
    <3>3. new # <<>>  BY <1>2, <2>0, EmptySeq
    <3> QED  BY <3>2, <3>3
  <2> QED  BY <2>1, <2>2
<1>9. After(new[L + n], lens2) = <<(S + 1) + 1, 1>>
  <2>1. n \in 1 .. n /\ ~(n < n)  BY <1>1
  <2>2. new[L + n] = <<S + 1, n>>  BY <1>2, <2>1
  <2> QED  BY <1>3, <2>1, <2>2 DEF After
<1>10. ASSUME NEW i \in 1 .. (L + n) - 1
       PROVE  new[i + 1] = After(new[i], lens2)
  <2>1. CASE i < L
    <3>1. i \in 1 .. L - 1 /\ i + 1 \in 1 .. L /\ i \in 1 .. L  BY <1>1, <2>1
    <3> QED  BY <1>2, <1>4, <1>5, <3>1
  <2>2. CASE i = L
    <3>1. L \in 1 .. L /\ 1 \in 1 .. n /\ Len(rest) # 0  BY <1>1, <1>a, <2>2
    <3>2. After(rest[L], lens) = <<S + 1, 1>>  BY <1>4, <3>1
    <3>3. new[L + 1] = <<S + 1, 1>>  BY <1>2, <3>1
    <3> QED  BY <1>2, <1>5, <2>2, <3>1, <3>2, <3>3
  <2>3. CASE i > L
    <3>1. /\ i \in L + 1 .. L + n /\ i + 1 \in L + 1 .. L + n
          /\ i - L < n /\ (i + 1) - L = (i - L) + 1
      BY <1>1, <2>3
    <3>2. new[i] = <<S + 1, i - L>> /\ new[i + 1] = <<S + 1, (i - L) + 1>>
      BY <1>6, <3>1
    <3> QED  BY <1>3, <3>1, <3>2 DEF After
  <2> QED  BY <1>1, <2>1, <2>2, <2>3
<1>11. ASSUME NEW i \in 1 .. L + n, NEW j \in 1 .. L + n,
              new[i][1] = new[j][1]
       PROVE  i + new[j][2] = j + new[i][2]
  <2>1. ASSUME NEW q \in 1 .. L PROVE new[q][1] # S + 1
    <3>1. PICK a \in 1 .. S, b \in Nat : new[q] = <<a, b>>  BY <1>2, <1>5
    <3>2. a # S + 1  BY <1>1, <3>1
    <3> QED  BY <3>1, <3>2
  <2>2. ASSUME NEW q \in L + 1 .. L + n
        PROVE  new[q][1] = S + 1 /\ new[q][2] = q - L
    BY <1>6
  <2>3. CASE i \in 1 .. L /\ j \in 1 .. L
    BY <1>2, <1>4, <1>11, <2>3
  <2>4. CASE i \in L + 1 .. L + n /\ j \in L + 1 .. L + n
    <3>1. i + (j - L) = j + (i - L)  BY <1>1, <2>4
    <3> QED  BY <2>2, <2>4, <3>1
  <2>5. ~(i \in L + 1 .. L + n /\ j \in 1 .. L)  BY <1>11, <2>1, <2>2
  <2>6. ~(i \in 1 .. L /\ j \in L + 1 .. L + n)  BY <1>11, <2>1, <2>2
  <2> QED  BY <1>7, <2>3, <2>4, <2>5, <2>6
<1>12. done <= S + 1  BY <1>1
<1>13. FramesOnce(new)  BY <1>2, <1>11 DEF FramesOnce
<1>14. \A i \in 1 .. L + n : InWholeFrame(new, lens2, done, i)
  BY <1>5, <1>6, <1>7
<1>15. Stream(new, lens2, done)
  BY <1>2, <1>3, <1>8, <1>9, <1>10, <1>12, <1>13, <1>14 DEF Stream
<1> QED  BY <1>b, <1>c, <1>d, <1>e, <1>15

\* A stream that is not empty starts with a whole frame.
LEMMA StreamStart ==
    ASSUME NEW rest \in Seq(Nat \X Nat), NEW lens \in Seq(Nat \ {0}),
           NEW done \in Nat, Stream(rest, lens, done), rest # <<>>
    PROVE  /\ done + 1 \in 1 .. Len(lens)
           /\ lens[done + 1] \in Nat \ {0}
           /\ lens[done + 1] <= Len(rest)
           /\ \A k \in 1 .. lens[done + 1] : rest[k] = <<done + 1, k>>
<1>1. 1 \in 1 .. Len(rest) /\ rest[1] = <<done + 1, 1>>
  BY DEF Stream
<1>2. InWholeFrame(rest, lens, done, 1)
  BY <1>1 DEF Stream
<1>3. PICK m \in done + 1 .. Len(lens), at \in Nat, l \in Nat \ {0} :
             /\ l = lens[m]
             /\ 1 \in at + 1 .. at + l
             /\ at + l <= Len(rest)
             /\ \A k \in 1 .. l : rest[at + k] = <<m, k>>
  BY <1>2 DEF InWholeFrame
<1>4. m \in 1 .. Len(lens)  BY <1>3
<1>5. at = 0  BY <1>3
<1>6. \A k \in 1 .. l : rest[k] = <<m, k>>  BY <1>3, <1>5
<1>7. rest[1] = <<m, 1>>  BY <1>6
<1>8. m = done + 1  BY <1>1, <1>7
<1> QED  BY <1>3, <1>4, <1>5, <1>6, <1>8

\* Its first frame is taken off.
LEMMA StreamShrinks ==
    ASSUME NEW rest \in Seq(Nat \X Nat), NEW lens \in Seq(Nat \ {0}),
           NEW done \in Nat, Stream(rest, lens, done), rest # <<>>
    PROVE  Stream(SubSeq(rest, lens[done + 1] + 1, Len(rest)), lens, done + 1)
<1>a. PICK F \in Nat \ {0} : F = lens[done + 1]  BY StreamStart
<1>b. PICK L \in Nat : L = Len(rest)  BY LenProperties
<1>c. PICK S \in Nat : S = Len(lens)  BY LenProperties
<1>1. /\ F \in Nat \ {0} /\ L \in Nat /\ S \in Nat
      /\ done + 1 \in 1 .. S /\ F <= L
      /\ \A k \in 1 .. F : rest[k] = <<done + 1, k>>
  BY <1>a, <1>b, <1>c, StreamStart, SMTT(30)
<1>2. /\ After(rest[L], lens) = <<S + 1, 1>>
      /\ \A i \in 1 .. L : InWholeFrame(rest, lens, done, i)
      /\ \A i \in 1 .. L - 1 : rest[i + 1] = After(rest[i], lens)
      /\ \A i, j \in 1 .. L :
            rest[i][1] = rest[j][1] => i + rest[j][2] = j + rest[i][2]
  BY <1>b, <1>c DEF Stream, FramesOnce
<1>3. PICK new : new = SubSeq(rest, F + 1, L)  OBVIOUS
<1>4. /\ new \in Seq(Nat \X Nat)
      /\ Len(new) = L - F
      /\ \A k \in 1 .. L - F : new[k] = rest[F + k]
  <2>1. \A k \in 1 .. L : rest[k] \in Nat \X Nat  BY <1>b, ElementOfSeq
  <2>2. F + 1 \in Int /\ L \in Int
        /\ \A k \in F + 1 .. L : rest[k] \in Nat \X Nat
    BY <1>1, <2>1
  <2>3. /\ SubSeq(rest, F + 1, L) \in Seq(Nat \X Nat)
        /\ Len(SubSeq(rest, F + 1, L)) = IF F + 1 <= L THEN L - (F + 1) + 1 ELSE 0
        /\ \A k \in 1 .. L - (F + 1) + 1 :
              SubSeq(rest, F + 1, L)[k] = rest[F + 1 + k - 1]
    BY <2>2, SubSeqProperties
  <2>4. \A k \in 1 .. L - F : F + 1 + k - 1 = F + k
    BY <1>1
  <2>5. L - (F + 1) + 1 = L - F /\ (~(F + 1 <= L) => L - F = 0)  BY <1>1
  <2> QED  BY <1>3, <2>3, <2>4, <2>5
<1>5. ASSUME NEW i \in 1 .. L - F
      PROVE  InWholeFrame(new, lens, done + 1, i)
  <2>1. F + i \in 1 .. L /\ 1 \in 1 .. L  BY <1>1
  <2>2. InWholeFrame(rest, lens, done, F + i)  BY <1>2, <2>1
  <2>3. PICK m \in done + 1 .. S, at \in Nat, l \in Nat \ {0} :
               /\ l = lens[m]
               /\ F + i \in at + 1 .. at + l
               /\ at + l <= L
               /\ \A k \in 1 .. l : rest[at + k] = <<m, k>>
    BY <1>b, <1>c, <2>2 DEF InWholeFrame
  <2>4. /\ at \in Nat /\ l \in Nat \ {0} /\ m \in done + 1 .. S
        /\ F + i \in at + 1 .. at + l /\ at + l <= L
    BY <2>3
  <2>5. /\ at + 1 \in 1 .. L /\ 1 \in 1 .. l /\ 1 \in 1 .. F
        /\ m \in Nat /\ done + 1 \in Nat
    BY <1>1, <2>4
  <2>6. rest[at + 1] = <<m, 1>> /\ rest[1] = <<done + 1, 1>>
    BY <1>1, <2>3, <2>5
  <2>7. m # done + 1
    <3> SUFFICES ASSUME m = done + 1 PROVE FALSE
      OBVIOUS
    <3>0. /\ rest[at + 1][1] = rest[1][1]
          /\ rest[at + 1][2] = 1 /\ rest[1][2] = 1
      BY <2>6
    <3>1. (at + 1) + 1 = 1 + 1  BY <1>2, <2>1, <2>5, <3>0
    <3>2. l = F  BY <1>a, <2>3
    <3> QED  BY <1>1, <2>4, <3>1, <3>2
  <2>8. at >= F
    <3> SUFFICES ASSUME at < F PROVE FALSE
      BY <1>1, <2>4
    <3>1. at + 1 \in 1 .. F  BY <1>1, <2>4
    <3>2. rest[at + 1] = <<done + 1, at + 1>>  BY <1>1, <3>1
    <3> QED  BY <2>6, <2>7, <3>2
  <2>9. PICK a \in Nat : at = F + a  BY <1>1, <2>4, <2>8
  <2>10. ASSUME NEW k \in 1 .. l PROVE new[a + k] = <<m, k>>
    <3>1. a + k \in 1 .. L - F /\ F + (a + k) = at + k
      BY <1>1, <2>4, <2>9
    <3>2. new[a + k] = rest[at + k]  BY <1>4, <3>1
    <3> QED  BY <2>3, <3>2
  <2>11. /\ i \in a + 1 .. a + l /\ a + l <= L - F
         /\ m \in (done + 1) + 1 .. S
    BY <1>1, <2>4, <2>7, <2>9
  <2> QED
    <3>1. a \in Nat /\ l \in Nat \ {0} /\ l = lens[m]  BY <2>3, <2>4, <2>9
    <3>2. m \in (done + 1) + 1 .. Len(lens) /\ a + l <= Len(new)
      BY <1>c, <1>4, <2>11
    <3> QED  BY <2>10, <2>11, <3>1, <3>2, ByteOfFrame
<1>6. ASSUME NEW i \in 1 .. (L - F) - 1 PROVE new[i + 1] = After(new[i], lens)
  <2>1. /\ i \in 1 .. L - F /\ i + 1 \in 1 .. L - F
        /\ F + i \in 1 .. L - 1 /\ F + (i + 1) = (F + i) + 1
    BY <1>1
  <2>2. new[i] = rest[F + i] /\ new[i + 1] = rest[(F + i) + 1]  BY <1>4, <2>1, SMTT(30)
  <2> QED  BY <1>2, <2>1, <2>2
<1>7. ASSUME NEW i \in 1 .. L - F, NEW j \in 1 .. L - F,
             new[i][1] = new[j][1]
      PROVE  i + new[j][2] = j + new[i][2]
  <2>1. F + i \in 1 .. L /\ F + j \in 1 .. L  BY <1>1
  <2>2. new[i] = rest[F + i] /\ new[j] = rest[F + j]  BY <1>4
  <2>3. (F + i) + new[j][2] = (F + j) + new[i][2]  BY <1>2, <1>7, <2>1, <2>2
  <2>4. \A p \in Nat \X Nat : p[2] \in Int  OBVIOUS
  <2>5. new[i] \in Nat \X Nat /\ new[j] \in Nat \X Nat
    BY <1>b, <2>1, <2>2, ElementOfSeq
  <2>6. F \in Int /\ i \in Int /\ j \in Int  BY <1>1
  <2>7. new[i][2] \in Int /\ new[j][2] \in Int  BY <2>4, <2>5
  <2>8. PICK x \in Int, y \in Int : x = new[j][2] /\ y = new[i][2]  BY <2>7
  <2>9. (F + i) + x = (F + j) + y  BY <2>3, <2>8
  <2>10. x \in Int /\ y \in Int  BY <2>8
  <2>11. i + x = j + y  BY <2>6, <2>9, <2>10
  <2> QED  BY <2>8, <2>11
<1>8. rest[F] = <<done + 1, F>> /\ After(rest[F], lens) = <<done + 2, 1>>
  <2>1. rest[F] = <<done + 1, F>>  BY <1>1
  <2>2. ~(F < lens[done + 1]) /\ (done + 1) + 1 = done + 2  BY <1>1, <1>a
  <2> QED  BY <2>1, <2>2 DEF After
<1>9. CASE L = F
  <2>1. L - F = 0 /\ 1 .. L - F = {} /\ 1 .. L - F - 1 = {}  BY <1>1, <1>9
  <2>2. new = <<>>  BY <1>4, <2>1, EmptySeq
  <2>3. <<done + 2, 1>> = <<S + 1, 1>>  BY <1>2, <1>8, <1>9
  <2>4. done + 1 = S  BY <1>1, <2>3
  <2>5. Stream(new, lens, done + 1)
    BY <1>c, <1>4, <2>1, <2>2, <2>4 DEF Stream, FramesOnce
  <2> QED  BY <1>a, <1>b, <1>3, <2>5
<1>10. CASE L # F
  <2>1. /\ F \in 1 .. L - 1 /\ 1 \in 1 .. L - F /\ L - F \in 1 .. L - F
        /\ F + (L - F) = L /\ F + 1 \in 1 .. L
    BY <1>1, <1>10
  <2>2. new[1] = rest[F + 1] /\ rest[F + 1] = After(rest[F], lens)
    BY <1>2, <1>4, <2>1
  <2>3. new[1] = <<(done + 1) + 1, 1>>  BY <1>8, <2>2
  <2>4. After(new[L - F], lens) = <<S + 1, 1>>  BY <1>2, <1>4, <2>1
  <2>5. new # <<>>  BY <1>4, <2>1
  <2>6. done + 1 <= S  BY <1>1
  <2>7. Stream(new, lens, done + 1)
    <3>1. FramesOnce(new)  BY <1>4, <1>7 DEF FramesOnce
    <3> QED
      BY <1>c, <1>4, <1>5, <1>6, <2>3, <2>4, <2>5, <2>6, <3>1 DEF Stream
  <2> QED  BY <1>a, <1>b, <1>3, <2>7
<1> QED  BY <1>9, <1>10

-----------------------------------------------------------------------------
(* The sequences the codec works on.                                        *)

\* The n elements of s behind its first a.
LEMMA SubSeqElements ==
    ASSUME NEW B, NEW s \in Seq(B), NEW a \in Nat, NEW n \in Nat, a + n <= Len(s)
    PROVE  /\ SubSeq(s, a + 1, a + n) \in Seq(B)
           /\ Len(SubSeq(s, a + 1, a + n)) = n
           /\ \A k \in 1 .. n : SubSeq(s, a + 1, a + n)[k] = s[a + k]
<1>1. \A k \in 1 .. Len(s) : s[k] \in B  BY ElementOfSeq
<1>2. a + 1 \in Int /\ a + n \in Int /\ \A k \in a + 1 .. a + n : s[k] \in B
  BY <1>1
<1>3. /\ SubSeq(s, a + 1, a + n) \in Seq(B)
      /\ Len(SubSeq(s, a + 1, a + n))
            = IF a + 1 <= a + n THEN (a + n) - (a + 1) + 1 ELSE 0
      /\ \A k \in 1 .. (a + n) - (a + 1) + 1 :
            SubSeq(s, a + 1, a + n)[k] = s[(a + 1) + k - 1]
  BY <1>2, SubSeqProperties
<1>4. (a + n) - (a + 1) + 1 = n /\ (~(a + 1 <= a + n) => n = 0)  OBVIOUS
<1>5. \A k \in 1 .. n : (a + 1) + k - 1 = a + k  OBVIOUS
<1> QED  BY <1>3, <1>4, <1>5

\* Cutting the front of s \o t inside s.
LEMMA CutFront ==
    ASSUME NEW B, NEW s \in Seq(B), NEW t \in Seq(B), NEW n \in 0 .. Len(s)
    PROVE  /\ SubSeq(s, n + 1, Len(s)) \in Seq(B)
           /\ SubSeq(s, n + 1, Len(s)) \o t
                = SubSeq(s \o t, n + 1, Len(s \o t))
<1>1. PICK r \in Nat : Len(s) = n + r  BY LenProperties
<1>2. PICK w \in Nat : w = Len(t)  BY LenProperties
<1>3. PICK st : st = s \o t  OBVIOUS
<1>4. PICK c : c = SubSeq(s, n + 1, n + r)  OBVIOUS
<1>5. /\ st \in Seq(B) /\ Len(st) = n + (r + w)
      /\ \A k \in 1 .. n + r : st[k] = s[k]
      /\ \A k \in 1 .. w : st[(n + r) + k] = t[k]
  <2>1. (n + r) + w = n + (r + w)  BY <1>1, <1>2
  <2>2. /\ s \o t \in Seq(B) /\ Len(s \o t) = Len(s) + Len(t)
        /\ \A k \in 1 .. Len(s) : (s \o t)[k] = s[k]
        /\ \A k \in 1 .. Len(t) : (s \o t)[Len(s) + k] = t[k]
    BY ConcatElements
  <2> QED  BY <1>1, <1>2, <1>3, <2>1, <2>2
<1>6. c \in Seq(B) /\ Len(c) = r /\ \A k \in 1 .. r : c[k] = s[n + k]
  BY <1>1, <1>4, SubSeqElements
<1>7. /\ c \o t \in Seq(B) /\ Len(c \o t) = r + w
      /\ \A k \in 1 .. r : (c \o t)[k] = c[k]
      /\ \A k \in 1 .. w : (c \o t)[r + k] = t[k]
  <2>1. c \in Seq(B)  BY <1>6
  <2>2. /\ c \o t \in Seq(B) /\ Len(c \o t) = Len(c) + Len(t)
        /\ \A k \in 1 .. Len(c) : (c \o t)[k] = c[k]
        /\ \A k \in 1 .. Len(t) : (c \o t)[Len(c) + k] = t[k]
    BY <2>1, ConcatElements
  <2> QED  BY <1>2, <1>6, <2>2
<1>8. PICK d : d = SubSeq(st, n + 1, n + (r + w))  OBVIOUS
<1>9. d \in Seq(B) /\ Len(d) = r + w /\ \A k \in 1 .. r + w : d[k] = st[n + k]
  BY <1>1, <1>2, <1>5, <1>8, SubSeqElements
<1>10. ASSUME NEW k \in 1 .. r + w PROVE (c \o t)[k] = d[k]
  <2>1. CASE k \in 1 .. r
    <3>1. n + k \in 1 .. n + r  BY <1>1, <2>1
    <3> QED  BY <1>5, <1>6, <1>7, <1>9, <2>1, <3>1, ZenonT(40)
  <2>2. CASE ~(k \in 1 .. r)
    <3>1. PICK q \in 1 .. w : k = r + q  BY <1>1, <1>2, <2>2
    <3>2. n + k = (n + r) + q  BY <1>1, <3>1
    <3>3. (c \o t)[k] = t[q]  BY <1>7, <3>1
    <3>4. d[k] = t[q]  BY <1>5, <1>9, <3>1, <3>2
    <3> QED  BY <3>3, <3>4
  <2> QED  BY <2>1, <2>2
<1>11. c \o t = d  BY <1>7, <1>9, <1>10, SeqEqual
<1> QED  BY <1>1, <1>3, <1>4, <1>5, <1>6, <1>8, <1>11

\* Moving the front of t behind s.
LEMMA MoveFront ==
    ASSUME NEW B, NEW s \in Seq(B), NEW t \in Seq(B), NEW n \in 0 .. Len(t)
    PROVE  /\ SubSeq(t, 1, n) \in Seq(B)
           /\ SubSeq(t, n + 1, Len(t)) \in Seq(B)
           /\ (s \o SubSeq(t, 1, n)) \o SubSeq(t, n + 1, Len(t)) = s \o t
<1>1. PICK r \in Nat : Len(t) = n + r  BY LenProperties
<1>2. PICK a : a = SubSeq(t, 1, n)  OBVIOUS
<1>3. PICK b : b = SubSeq(t, n + 1, n + r)  OBVIOUS
<1>4. b \in Seq(B)  BY <1>1, <1>3, SubSeqElements
<1>5. 0 + 1 = 1 /\ 0 + n = n /\ 0 + n <= Len(t) /\ n \in Nat /\ 0 \in Nat
  BY <1>1
<1>6. a \in Seq(B)
  <2>1. SubSeq(t, 0 + 1, 0 + n) \in Seq(B)  BY <1>5, SubSeqElements
  <2> QED  BY <1>2, <1>5, <2>1
<1>7. a \o b = t
  <2>1. 1 \in 1 .. Len(t) + 1 /\ n \in 1 - 1 .. Len(t) /\ Len(t) \in n .. Len(t)
    BY <1>1
  <2>2. SubSeq(t, 1, n) \o SubSeq(t, n + 1, Len(t)) = SubSeq(t, 1, Len(t))
    BY <2>1, ConcatAdjacentSubSeq
  <2>3. SubSeq(t, 1, Len(t)) = t  BY SubSeqFull
  <2> QED  BY <1>1, <1>2, <1>3, <2>2, <2>3
<1>8. (s \o a) \o b = s \o (a \o b)  BY <1>4, <1>6, ConcatAssociative
<1> QED  BY <1>1, <1>2, <1>3, <1>4, <1>6, <1>7, <1>8

\* A byte is a pair of numbers.
LEMMA BytesArePairs == ASSUME NEW s \in Seq(Bytes) PROVE s \in Seq(Nat \X Nat)
  BY CodecConstants DEF Bytes

-----------------------------------------------------------------------------
(* Headers and the front of read_buf_.                                      *)

\* A header is refused or announces a body; a frame is never empty.
LEMMA Lengths ==
    ASSUME codec \in Codecs, NEW h \in Headers
    PROVE  /\ ParsePacketHeader(h) \in Nat \cup {-1}
           /\ BodyLen(h) \in Nat
           /\ FrameLen(h) \in Nat \ {0}
           /\ FrameLen(h) = kPacketHeaderSize + BodyLen(h)
<1>1. h.len \in Nat
  <2>1. h.len \in Fields  BY DEF Headers
  <2>2. \A f \in Fields : f \in Nat  BY CodecConstants
  <2> QED  BY <2>1, <2>2
<1>2. ParsePacketHeader(h) \in Nat \cup {-1}
  BY <1>1, CodecConstants
     DEF Codecs, ParsePacketHeader, ParseZNet, ParseTeamTalk, ParseLengthHeader,
         PeekBigEndianInt32
<1>3. BodyLen(h) \in Nat  BY <1>2 DEF BodyLen
<1> QED  BY <1>2, <1>3, CodecConstants DEF FrameLen

\* They depend on the codec only, which a connection keeps.
LEMMA LengthsKept ==
    ASSUME codec' = codec
    PROVE  /\ \A h : ParsePacketHeader(h)' = ParsePacketHeader(h)
           /\ \A h : BodyLen(h)' = BodyLen(h)
           /\ \A h : FrameLen(h)' = FrameLen(h)
  BY DEF ParsePacketHeader, BodyLen, FrameLen, ParseZNet, ParseTeamTalk,
         ParseLengthHeader, PeekBigEndianInt32

\* What the invariant says of the stream, in the terms of the lemmas above.
LEMMA StreamTypes ==
    ASSUME TypeOK
    PROVE  /\ Lens \in Seq(Nat \ {0}) /\ Len(Lens) = Len(sent)
           /\ \A m \in 1 .. Len(sent) :
                 /\ sent[m] \in Headers
                 /\ Lens[m] = FrameLen(sent[m])
           /\ data \o wire \in Seq(Nat \X Nat)
           /\ Len(data) \in Nat /\ Len(delivered) \in Nat /\ Len(sent) \in Nat
<1>1. data \in Seq(Nat \X Nat) /\ wire \in Seq(Nat \X Nat)
  BY BytesArePairs DEF TypeOK
<1>2. data \o wire \in Seq(Nat \X Nat)  BY <1>1, ConcatElements
<1>3. \A m \in 1 .. Len(sent) : sent[m] \in Headers
  BY ElementOfSeq DEF TypeOK
<1>4. \A m \in 1 .. Len(sent) : FrameLen(sent[m]) \in Nat \ {0}
  BY <1>3, Lengths DEF TypeOK
<1>5. Len(data) \in Nat /\ Len(delivered) \in Nat /\ Len(sent) \in Nat
  BY DEF TypeOK
<1>6. Lens \in Seq(Nat \ {0}) /\ Len(Lens) = Len(sent)
  BY <1>4, <1>5 DEF Lens
<1>7. \A m \in 1 .. Len(sent) : Lens[m] = FrameLen(sent[m])
  BY DEF Lens
<1> QED  BY <1>2, <1>3, <1>5, <1>6, <1>7

\* When read_buf_ holds anything, it starts with the header of the frame
\* after the delivered ones.
LEMMA AtHeader ==
    ASSUME IInv, Len(data) >= 1
    PROVE  /\ Len(delivered) + 1 \in 1 .. Len(sent)
           /\ data[1] = <<Len(delivered) + 1, 1>>
           /\ Header = sent[Len(delivered) + 1]
           /\ Header \in Headers
           /\ Lens[Len(delivered) + 1] = FrameLen(Header)
           /\ data \o wire # <<>>
           /\ \A k \in 1 .. FrameLen(Header) :
                 (data \o wire)[k] = <<Len(delivered) + 1, k>>
<1>1. TypeOK /\ Stream(data \o wire, Lens, Len(delivered))  BY DEF IInv
<1>2. /\ Lens \in Seq(Nat \ {0}) /\ Len(Lens) = Len(sent)
      /\ \A m \in 1 .. Len(sent) :
            sent[m] \in Headers /\ Lens[m] = FrameLen(sent[m])
      /\ data \o wire \in Seq(Nat \X Nat)
      /\ Len(data) \in Nat /\ Len(delivered) \in Nat /\ Len(sent) \in Nat
  BY <1>1, StreamTypes
<1>3. data \in Seq(Bytes) /\ wire \in Seq(Bytes)  BY <1>1 DEF TypeOK
<1>4. /\ Len(data \o wire) = Len(data) + Len(wire)
      /\ \A k \in 1 .. Len(data) : (data \o wire)[k] = data[k]
  BY <1>3, ConcatElements
<1>5. Len(wire) \in Nat  BY <1>3
<1>6. Len(data \o wire) # 0 /\ 1 \in 1 .. Len(data)  BY <1>2, <1>4, <1>5
<1>7. data \o wire # <<>>  BY <1>6
<1>8. PICK rest \in Seq(Nat \X Nat) : rest = data \o wire  BY <1>2
<1>9. /\ Len(delivered) + 1 \in 1 .. Len(Lens)
      /\ \A k \in 1 .. Lens[Len(delivered) + 1] :
            rest[k] = <<Len(delivered) + 1, k>>
  BY <1>1, <1>2, <1>7, <1>8, StreamStart
<1>10. rest[1] = <<Len(delivered) + 1, 1>>  BY <1>1, <1>7, <1>8 DEF Stream
<1>11. data[1] = <<Len(delivered) + 1, 1>>  BY <1>4, <1>6, <1>8, <1>10
<1>12. Header = sent[Len(delivered) + 1]  BY <1>11 DEF Header
<1> QED  BY <1>2, <1>7, <1>8, <1>9, <1>11, <1>12

-----------------------------------------------------------------------------
(* The steps.                                                               *)

\* A connection starts with nothing sent.
LEMMA InitIInv == Init => IInv
<1> SUFFICES ASSUME Init PROVE IInv
  OBVIOUS
<1> USE DEF Init
<1>1. TypeOK  BY CodecConstants DEF TypeOK, Bytes
<1>2. Lens = <<>> /\ data \o wire = <<>> /\ Len(<<>>) = 0  BY DEF Lens
<1>3. Stream(data \o wire, Lens, Len(delivered))
  BY <1>2 DEF Stream, FramesOnce
<1>4. DeliveredAsSent  BY DEF DeliveredAsSent
<1>5. LengthHeaderDrains  BY CodecConstants DEF LengthHeaderDrains, HasHeader
<1> QED  BY <1>1, <1>3, <1>4, <1>5, CodecConstants DEF IInv

\* The peer's frame extends the stream; the header that read_buf_ starts
\* with is still the same.
LEMMA PeerSendsIInv ==
    ASSUME IInv, NEW h \in Headers, PeerSends(h)
    PROVE  IInv'
<1>1. TypeOK /\ Stream(data \o wire, Lens, Len(delivered))  BY DEF IInv
<1>2. /\ Lens \in Seq(Nat \ {0}) /\ Len(Lens) = Len(sent)
      /\ \A m \in 1 .. Len(sent) :
            sent[m] \in Headers /\ Lens[m] = FrameLen(sent[m])
      /\ data \o wire \in Seq(Nat \X Nat)
      /\ Len(data) \in Nat /\ Len(delivered) \in Nat /\ Len(sent) \in Nat
  BY <1>1, StreamTypes
<1>3. PICK n \in Nat \ {0} : n = FrameLen(h)  BY <1>1, Lengths DEF TypeOK
<1>4. PICK f : f = Frame(Len(sent) + 1, h)  OBVIOUS
<1>5. /\ sent' = Append(sent, h)
      /\ UNCHANGED <<codec, data, pc, ret, delivered>>
      /\ Len(sent) < MaxFrames
  BY DEF PeerSends
<1>6. /\ sent' \in Seq(Headers) /\ Len(sent') = Len(sent) + 1
      /\ \A m \in 1 .. Len(sent) : sent'[m] = sent[m]
      /\ sent'[Len(sent) + 1] = h
  BY <1>1, <1>5, AppendProperties DEF TypeOK
<1>7. f = [k \in 1 .. n |-> <<Len(sent) + 1, k>>]  BY <1>3, <1>4 DEF Frame
<1>8. f \in Seq(Bytes)
  <2>1. Len(sent) + 1 \in 1 .. MaxFrames  BY <1>2, <1>5, CodecConstants
  <2>2. \A k \in 1 .. n : <<Len(sent) + 1, k>> \in Bytes  BY <2>1 DEF Bytes
  <2> QED  BY <1>3, <1>7, <2>2
<1>9. wire' = wire \o f  BY <1>4, <1>6 DEF PeerSends
<1>10. data \in Seq(Bytes) /\ wire \in Seq(Bytes)  BY <1>1 DEF TypeOK
<1>11. wire' \in Seq(Bytes)  BY <1>8, <1>9, <1>10, ConcatElements
<1>12. TypeOK'  BY <1>1, <1>5, <1>6, <1>11 DEF TypeOK
<1>13. Len(sent') <= MaxFrames  BY <1>2, <1>5, <1>6, CodecConstants
<1>14. Lens' = Append(Lens, n)
  <2>1. Lens' = [m \in 1 .. Len(sent) + 1 |-> FrameLen(sent'[m])]
    BY <1>5, <1>6, LengthsKept DEF Lens
  <2>2. PICK a : a = Append(Lens, n)  OBVIOUS
  <2>3. /\ a \in Seq(Nat \ {0}) /\ Len(a) = Len(sent) + 1
        /\ \A m \in 1 .. Len(sent) : a[m] = Lens[m]
        /\ a[Len(sent) + 1] = n
    BY <1>2, <1>3, <2>2, AppendProperties
  <2>4. \A m \in 1 .. Len(sent) + 1 : a[m] = FrameLen(sent'[m])
    <3> SUFFICES ASSUME NEW m \in 1 .. Len(sent) + 1
                 PROVE  a[m] = FrameLen(sent'[m])
      OBVIOUS
    <3>1. CASE m \in 1 .. Len(sent)  BY <1>2, <1>6, <2>3, <3>1
    <3>2. CASE m = Len(sent) + 1  BY <1>3, <1>6, <2>3, <3>2
    <3> QED  BY <1>2, <3>1, <3>2
  <2>5. a = [m \in 1 .. Len(sent) + 1 |-> a[m]]
    BY <2>3
  <2> QED  BY <2>1, <2>2, <2>4, <2>5
<1>15. (data \o wire)' = (data \o wire) \o f
  BY <1>5, <1>8, <1>9, <1>10, ConcatAssociative, SMTT(30)
<1>16. Stream(data \o wire, Lens, Len(delivered))'
  <2>1. PICK rest \in Seq(Nat \X Nat), lens \in Seq(Nat \ {0}), done \in Nat :
               rest = data \o wire /\ lens = Lens /\ done = Len(delivered)
    BY <1>2
  <2>2. Stream(rest \o [k \in 1 .. n |-> <<Len(lens) + 1, k>>],
               Append(lens, n), done)
    BY <1>1, <1>3, <2>1, StreamGrows
  <2>3. Stream((data \o wire) \o f, Append(Lens, n), Len(delivered))
    BY <1>2, <1>7, <2>1, <2>2
  <2>4. Stream((data \o wire)', Lens', Len(delivered'))
    BY <1>5, <1>14, <1>15, <2>3
  <2> QED  BY <2>4 DEF Stream, InWholeFrame, FramesOnce, After
<1>17. DeliveredAsSent'
  <2>1. DeliveredAsSent  BY DEF IInv
  <2>2. Len(delivered) <= Len(sent)  BY <2>1 DEF DeliveredAsSent
  <2>3. /\ Len(delivered) <= Len(sent) + 1
        /\ \A m \in 1 .. Len(delivered) : m \in 1 .. Len(sent)
    BY <1>2, <2>2
  <2> QED  BY <1>5, <1>6, <2>1, <2>3, LengthsKept DEF DeliveredAsSent
<1>18. LengthHeaderDrains'
  <2> SUFFICES ASSUME codec = "LengthHeader", pc = "idle", HasHeader
               PROVE  (ParsePacketHeader(Header) # -1 /\ ~HasPacket)'
    BY <1>5 DEF LengthHeaderDrains, HasHeader
  <2>1. ParsePacketHeader(Header) # -1 /\ ~HasPacket
    BY DEF IInv, LengthHeaderDrains
  <2>2. Len(data) >= 1  BY <1>2, CodecConstants DEF HasHeader
  <2>3. Header' = Header
    <3>1. data[1][1] \in 1 .. Len(sent)  BY <2>2, AtHeader
    <3> QED  BY <1>5, <1>6, <3>1 DEF Header
  <2> QED  BY <1>5, <2>1, <2>3, LengthsKept DEF HasPacket
<1> QED  BY <1>12, <1>13, <1>16, <1>17, <1>18 DEF IInv

\* A read moves bytes from the network to read_buf_.
LEMMA ReadIInv ==
    ASSUME IInv, NEW n \in 1 .. Len(wire), Read(n)
    PROVE  IInv'
<1>1. TypeOK /\ Stream(data \o wire, Lens, Len(delivered)) /\ DeliveredAsSent
      /\ Len(sent) <= MaxFrames
  BY DEF IInv
<1>2. data \in Seq(Bytes) /\ wire \in Seq(Bytes) /\ n \in 0 .. Len(wire)
  BY <1>1 DEF TypeOK
<1>3. /\ UNCHANGED <<codec, sent, delivered>> /\ pc' = "decode" /\ ret' = 0
      /\ data' = data \o SubSeq(wire, 1, n)
      /\ wire' = SubSeq(wire, n + 1, Len(wire))
  BY DEF Read
<1>4. /\ SubSeq(wire, 1, n) \in Seq(Bytes)
      /\ wire' \in Seq(Bytes)
      /\ (data \o wire)' = data \o wire
  BY <1>2, <1>3, MoveFront, ZenonT(40)
<1>5. data' \in Seq(Bytes)  BY <1>2, <1>3, <1>4, ConcatElements
<1>6. TypeOK'  BY <1>1, <1>3, <1>4, <1>5 DEF TypeOK
<1>7. Lens' = Lens  BY <1>3, LengthsKept DEF Lens
<1>8. Stream(data \o wire, Lens, Len(delivered))'
  <2>1. Stream((data \o wire)', Lens', Len(delivered'))
    BY <1>1, <1>3, <1>4, <1>7
  <2> QED  BY <2>1 DEF Stream, InWholeFrame, FramesOnce, After
<1>9. DeliveredAsSent'  BY <1>1, <1>3, LengthsKept DEF DeliveredAsSent
<1>10. LengthHeaderDrains'  BY <1>3 DEF LengthHeaderDrains
<1> QED  BY <1>1, <1>3, <1>6, <1>8, <1>9, <1>10 DEF IInv

\* The loop ends without touching the buffer.
LEMMA LoopEndsIInv ==
    ASSUME IInv, Incomplete \/ Refuse
    PROVE  IInv'
<1>1. TypeOK /\ Stream(data \o wire, Lens, Len(delivered)) /\ DeliveredAsSent
      /\ Len(sent) <= MaxFrames
  BY DEF IInv
<1>2. UNCHANGED <<codec, sent, wire, data, ret, delivered>>
  BY DEF Incomplete, Refuse
<1>3. pc' \in {"idle", "closed"}  BY DEF Incomplete, Refuse, Return
<1>4. TypeOK'  BY <1>1, <1>2, <1>3 DEF TypeOK
<1>5. Lens' = Lens  BY <1>2, LengthsKept DEF Lens
<1>6. Stream(data \o wire, Lens, Len(delivered))'
  <2>1. Stream((data \o wire)', Lens', Len(delivered'))  BY <1>1, <1>2, <1>5
  <2> QED  BY <2>1 DEF Stream, InWholeFrame, FramesOnce, After
<1>7. DeliveredAsSent'  BY <1>1, <1>2, LengthsKept DEF DeliveredAsSent
<1>8. LengthHeaderDrains'
  <2>1. CASE Incomplete
    <3>1. HasHeader => ParsePacketHeader(Header) # -1 /\ ~HasPacket
      BY <2>1 DEF Incomplete
    <3>2. Header' = Header  BY <1>2 DEF Header
    <3> QED
      BY <1>2, <3>1, <3>2, LengthsKept DEF LengthHeaderDrains, HasHeader,
         HasPacket
  <2>2. CASE Refuse
    BY <2>2 DEF Refuse, Return, LengthHeaderDrains
  <2> QED  BY <2>1, <2>2
<1> QED  BY <1>1, <1>2, <1>4, <1>6, <1>7, <1>8 DEF IInv

\* A packet is the frame at the front of the stream, which is taken off.
LEMMA DeliverIInv ==
    ASSUME IInv, NEW r \in {-1, 0, 1}, Deliver(r)
    PROVE  IInv'
<1>1. TypeOK /\ Stream(data \o wire, Lens, Len(delivered)) /\ DeliveredAsSent
      /\ Len(sent) <= MaxFrames
  BY DEF IInv
<1>2. /\ Lens \in Seq(Nat \ {0}) /\ Len(Lens) = Len(sent)
      /\ \A m \in 1 .. Len(sent) :
            sent[m] \in Headers /\ Lens[m] = FrameLen(sent[m])
      /\ data \o wire \in Seq(Nat \X Nat)
      /\ Len(data) \in Nat /\ Len(delivered) \in Nat /\ Len(sent) \in Nat
  BY <1>1, StreamTypes
<1>3. /\ delivered' = Append(delivered, Packet)
      /\ data' = RetrievePacket
      /\ ret' = r
      /\ pc' \in {"idle", "decode", "closed"}
      /\ codec = "LengthHeader" => pc' \in {"decode", "closed"}
      /\ UNCHANGED <<codec, sent, wire>>
      /\ Len(data) >= kPacketHeaderSize
      /\ Len(data) >= FrameLen(Header)
  BY DEF Deliver, AfterPacket, Return, HasHeader, HasPacket
<1>4. Len(data) >= 1  BY <1>2, <1>3, CodecConstants
<1>5. /\ Len(delivered) + 1 \in 1 .. Len(sent)
      /\ Header = sent[Len(delivered) + 1]
      /\ Header \in Headers
      /\ Lens[Len(delivered) + 1] = FrameLen(Header)
      /\ data \o wire # <<>>
      /\ \A k \in 1 .. FrameLen(Header) :
            (data \o wire)[k] = <<Len(delivered) + 1, k>>
  BY <1>4, AtHeader
<1>6. PICK b \in Nat : b = BodyLen(Header)  BY <1>1, <1>5, Lengths DEF TypeOK
<1>7. FrameLen(Header) = kPacketHeaderSize + b  BY <1>6 DEF FrameLen
<1>8. PICK H \in Nat : H = kPacketHeaderSize  BY CodecConstants
<1>9. data \in Seq(Bytes) /\ wire \in Seq(Bytes)  BY <1>1 DEF TypeOK
<1>10. \A k \in 1 .. H + b : data[k] = <<Len(delivered) + 1, k>>
  <2>1. \A k \in 1 .. Len(data) : (data \o wire)[k] = data[k]
    BY <1>9, ConcatElements
  <2>2. \A k \in 1 .. H + b : k \in 1 .. Len(data)
    BY <1>2, <1>3, <1>6, <1>7, <1>8
  <2> QED  BY <1>5, <1>7, <1>8, <2>1, <2>2
<1>11. /\ Packet.header = Header
       /\ Packet.body \in Seq(Bytes)
       /\ Packet.body = [k \in 1 .. b |-> <<Len(delivered) + 1, H + k>>]
       /\ Packet \in [header : Headers, body : Seq(Bytes)]
  <2>1. H + b <= Len(data)  BY <1>3, <1>7, <1>8
  <2>2. /\ SubSeq(data, H + 1, H + b) \in Seq(Bytes)
        /\ SubSeq(data, H + 1, H + b)
              = [k \in 1 .. b |-> <<Len(delivered) + 1, H + k>>]
    <3>1. H \in Nat /\ b \in Nat  BY <1>6, <1>8
    <3>2. PICK c : c = SubSeq(data, H + 1, H + b)  OBVIOUS
    <3>3. c \in Seq(Bytes) /\ Len(c) = b /\ \A k \in 1 .. b : c[k] = data[H + k]
      BY <1>9, <2>1, <3>1, <3>2, SubSeqElements
    <3>4. \A k \in 1 .. b : H + k \in 1 .. H + b  BY <3>1
    <3>5. \A k \in 1 .. b : c[k] = <<Len(delivered) + 1, H + k>>
      BY <1>10, <3>3, <3>4
    <3>6. c \in [1 .. b -> Bytes]  BY <3>3, LenProperties
    <3>7. c = [k \in 1 .. b |-> c[k]]  BY <3>6
    <3>8. c = [k \in 1 .. b |-> <<Len(delivered) + 1, H + k>>]  BY <3>5, <3>7
    <3> QED  BY <3>2, <3>3, <3>8
  <2>3. Packet = [header |-> Header, body |-> SubSeq(data, H + 1, H + b)]
    BY <1>7, <1>8 DEF Packet
  <2> QED  BY <1>5, <2>2, <2>3
<1>12. /\ data' \in Seq(Bytes)
       /\ (data \o wire)'
            = SubSeq(data \o wire, FrameLen(Header) + 1, Len(data \o wire))
  <2>1. FrameLen(Header) \in 0 .. Len(data)
    BY <1>1, <1>2, <1>3, <1>5, Lengths DEF TypeOK
  <2> QED  BY <1>3, <1>9, <2>1, CutFront, ZenonT(40) DEF RetrievePacket
<1>13. /\ delivered' \in Seq([header : Headers, body : Seq(Bytes)])
       /\ Len(delivered') = Len(delivered) + 1
       /\ \A m \in 1 .. Len(delivered) : delivered'[m] = delivered[m]
       /\ delivered'[Len(delivered) + 1] = Packet
  BY <1>1, <1>3, <1>11, AppendProperties DEF TypeOK
<1>14. TypeOK'  BY <1>1, <1>3, <1>12, <1>13 DEF TypeOK
<1>15. Lens' = Lens  BY <1>3, LengthsKept DEF Lens
<1>16. Stream(data \o wire, Lens, Len(delivered))'
  <2>1. PICK rest \in Seq(Nat \X Nat), lens \in Seq(Nat \ {0}), done \in Nat :
               rest = data \o wire /\ lens = Lens /\ done = Len(delivered)
    BY <1>2
  <2>2. Stream(SubSeq(rest, lens[done + 1] + 1, Len(rest)), lens, done + 1)
    BY <1>1, <1>5, <2>1, StreamShrinks
  <2>3. Stream((data \o wire)', Lens', Len(delivered'))
    BY <1>5, <1>12, <1>13, <1>15, <2>1, <2>2
  <2> QED  BY <2>3 DEF Stream, InWholeFrame, FramesOnce, After
<1>17. DeliveredAsSent'
  <2>1. Len(delivered') <= Len(sent')  BY <1>2, <1>3, <1>5, <1>13
  <2>2. ASSUME NEW m \in 1 .. Len(delivered')
        PROVE  /\ delivered'[m].header = sent'[m]
               /\ delivered'[m].body =
                     [k \in 1 .. BodyLen(sent[m])' |-> <<m, kPacketHeaderSize + k>>]
    <3>0. BodyLen(sent[m])' = BodyLen(sent[m])  BY <1>3, LengthsKept
    <3>1. CASE m \in 1 .. Len(delivered)
      BY <1>1, <1>3, <1>13, <3>0, <3>1 DEF DeliveredAsSent
    <3>2. CASE m = Len(delivered) + 1
      BY <1>3, <1>5, <1>6, <1>8, <1>11, <1>13, <3>0, <3>2, ZenonT(40)
    <3> QED  BY <1>2, <1>13, <3>1, <3>2
  <2> QED  BY <2>1, <2>2 DEF DeliveredAsSent
<1>18. LengthHeaderDrains'  BY <1>3 DEF LengthHeaderDrains
<1> QED  BY <1>1, <1>3, <1>14, <1>16, <1>17, <1>18 DEF IInv

\* The invariant, for the theorems below.
LEMMA Invariance == Spec => []IInv
<1>1. IInv /\ [Next]_vars => IInv'
  <2> SUFFICES ASSUME IInv, [Next]_vars PROVE IInv'
    OBVIOUS
  <2>1. CASE Next
    <3>1. CASE \E h \in Headers : PeerSends(h)  BY <3>1, PeerSendsIInv
    <3>2. CASE \E n \in 1 .. Len(wire) : Read(n)  BY <3>2, ReadIInv
    <3>3. CASE Incomplete \/ Refuse  BY <3>3, LoopEndsIInv
    <3>4. CASE \E r \in {-1, 0, 1} : Deliver(r)  BY <3>4, DeliverIInv
    <3> QED  BY <2>1, <3>1, <3>2, <3>3, <3>4 DEF Next
  <2>2. CASE UNCHANGED vars
    <3>1. UNCHANGED <<codec, sent, wire, data, pc, ret, delivered>>
      BY <2>2 DEF vars
    <3>2. Lens' = Lens /\ Header' = Header
      BY <3>1, LengthsKept DEF Lens, Header
    <3>3. TypeOK' /\ Len(sent') <= MaxFrames  BY <3>1 DEF IInv, TypeOK
    <3>4. Stream(data \o wire, Lens, Len(delivered))'
      <4>1. Stream((data \o wire)', Lens', Len(delivered'))
        BY <3>1, <3>2 DEF IInv
      <4> QED  BY <4>1 DEF Stream, InWholeFrame, FramesOnce, After
    <3>5. DeliveredAsSent'  BY <3>1, LengthsKept DEF IInv, DeliveredAsSent
    <3>6. LengthHeaderDrains'
      BY <3>1, <3>2, LengthsKept DEF IInv, LengthHeaderDrains, HasHeader,
         HasPacket
    <3> QED  BY <3>3, <3>4, <3>5, <3>6 DEF IInv
  <2> QED  BY <2>1, <2>2
<1> QED  BY <1>1, InitIInv, PTL DEF Spec

-----------------------------------------------------------------------------

\* The codec's variables keep their types.
THEOREM TypeCorrect == Spec => []TypeOK
<1>1. IInv => TypeOK  BY DEF IInv
<1> QED  BY <1>1, Invariance, PTL

\* Whatever cuts TCP makes in the stream, and whichever codec reads it, the
\* packets handed to the application are the first frames the peer sent, in
\* order, each with its own header and its whole body.
THEOREM PacketsAsSent == Spec => []DeliveredAsSent
<1>1. IInv => DeliveredAsSent  BY DEF IInv
<1> QED  BY <1>1, Invariance, PTL

\* read_buf_ starts at the header of the next frame, and it and the network
\* hold the rest of the stream byte after byte.
THEOREM Aligned == Spec => []StreamAligned
<1>1. ASSUME IInv PROVE StreamAligned
  <2>1. TypeOK /\ Stream(data \o wire, Lens, Len(delivered))  BY <1>1 DEF IInv
  <2>2. /\ Lens \in Seq(Nat \ {0}) /\ Len(Lens) = Len(sent)
        /\ \A m \in 1 .. Len(sent) : Lens[m] = FrameLen(sent[m])
        /\ data \o wire \in Seq(Nat \X Nat)
        /\ Len(delivered) \in Nat /\ Len(sent) \in Nat
    BY <2>1, StreamTypes
  <2>3. PICK rest \in Seq(Nat \X Nat) : rest = data \o wire  BY <2>2
  <2>4. ASSUME NEW i \in 1 .. Len(rest)
        PROVE  After(rest[i], Lens) =
                  IF rest[i][2] < FrameLen(sent[rest[i][1]])
                  THEN <<rest[i][1], rest[i][2] + 1>> ELSE <<rest[i][1] + 1, 1>>
    <3>1. InWholeFrame(rest, Lens, Len(delivered), i)  BY <2>1, <2>3 DEF Stream
    <3>2. PICK m \in Len(delivered) + 1 .. Len(Lens), at \in Nat, l \in Nat \ {0} :
                 /\ i \in at + 1 .. at + l
                 /\ \A k \in 1 .. l : rest[at + k] = <<m, k>>
      BY <3>1 DEF InWholeFrame
    <3>3. m \in 1 .. Len(sent) /\ i - at \in 1 .. l /\ at + (i - at) = i
      <4>1. m \in Len(delivered) + 1 .. Len(Lens) /\ at \in Nat /\ l \in Nat
            /\ i \in at + 1 .. at + l
        BY <3>2
      <4> QED  BY <2>2, <4>1
    <3>a. rest[at + (i - at)] = <<m, i - at>>  BY <3>2, <3>3
    <3>4. rest[i][1] = m  BY <3>3, <3>a, SMTT(30)
    <3> QED  BY <2>2, <3>3, <3>4 DEF After
  <2>5. CASE rest = <<>>
    BY <2>1, <2>2, <2>3, <2>5 DEF Stream, StreamAligned
  <2>6. CASE rest # <<>>
    <3>1. PICK L \in Nat : L = Len(rest)  BY <2>3, LenProperties
    <3>2. L \in 1 .. L /\ \A i \in 1 .. L - 1 : i \in 1 .. L
      BY <2>3, <2>6, <3>1, EmptySeq
    <3>3. /\ rest[1] = <<Len(delivered) + 1, 1>>
          /\ After(rest[L], Lens) = <<Len(sent) + 1, 1>>
          /\ \A i \in 1 .. L - 1 : rest[i + 1] = After(rest[i], Lens)
      BY <2>1, <2>2, <2>3, <2>6, <3>1 DEF Stream
    <3> QED  BY <2>3, <2>4, <2>6, <3>1, <3>2, <3>3 DEF StreamAligned
  <2> QED  BY <2>5, <2>6
<1> QED  BY <1>1, Invariance, PTL

\* LengthHeaderCodec returns to the loop only when no packet is left to
\* decode and no bad header waits.
THEOREM DrainsWhatItCan == Spec => []LengthHeaderDrains
<1>1. IInv => LengthHeaderDrains  BY DEF IInv
<1> QED  BY <1>1, Invariance, PTL
=============================================================================
