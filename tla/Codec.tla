------------------------------- MODULE Codec --------------------------------
(***************************************************************************)
(* The framing codecs of net/codec: ZNetCodec, TeamTalkCodec and            *)
(* LengthHeaderCodec.  Each is the IOHandler delegate that cuts the bytes   *)
(* IOHandler::Read appended to read_buf_ into packets and hands them to the *)
(* application, which answers each with a result.                           *)
(*                                                                          *)
(* The peer sends frames, a header and the body it announces; TCP delivers  *)
(* the bytes in order, cut anywhere.  Byte <<m, k>> is the k-th byte of the *)
(* m-th frame.  A header is its length field and its version; what the      *)
(* packet means is left out.  One iteration of OnDataReceived's loop is one *)
(* step.                                                                    *)
(***************************************************************************)
EXTENDS Integers, Sequences

CONSTANTS
    kPacketHeaderSize,  \* bytes of a header (8, 12 and 4)
    kMaxPacketSize,     \* the limit of the length field (2MB, 64MB and 65536)
    UInt32,             \* number of values of the length field
    Fields,             \* the length fields peers send
    MaxFrames           \* bound: frames sent in a behaviour

ASSUME CodecConstants ==
    /\ kPacketHeaderSize \in Nat \ {0}
    /\ kMaxPacketSize \in Nat
    /\ UInt32 \in Nat
    /\ kMaxPacketSize + kPacketHeaderSize < UInt32 \div 2
    /\ Fields \subseteq 0 .. UInt32 - 1
    /\ MaxFrames \in Nat

VARIABLES
    codec,      \* which codec serves the connection
    sent,       \* the peer: headers of the frames sent
    wire,       \* the network: bytes on their way
    data,       \* the content of read_buf_
    pc,         \* "idle", "decode" inside OnDataReceived, or "closed"
    ret,        \* the application's last answer in this call
    delivered   \* packets handed to the application

vars == <<codec, sent, wire, data, pc, ret, delivered>>

Codecs == {"ZNet", "TeamTalk", "LengthHeader"}
Headers == [len : Fields, version : {"kPacketVersion", "other"}]

-----------------------------------------------------------------------------
(* Headers: the body length, or -1 when the header is refused.              *)

\* ZNetPacketHeader::ParsePacketHeader; the version test is commented out.
ParseZNet(h) == IF h.len > kMaxPacketSize THEN -1 ELSE h.len

\* TeamTalkPacket::ParsePacketHeader; its length field counts the header.
ParseTeamTalk(h) ==
    IF \/ h.version # "kPacketVersion"
       \/ h.len > kMaxPacketSize
       \/ h.len < kPacketHeaderSize
    THEN -1 ELSE h.len - kPacketHeaderSize

\* PeekBigEndianInt32: the field is read as a signed integer.
PeekBigEndianInt32(h) == IF h.len < UInt32 \div 2 THEN h.len ELSE h.len - UInt32

ParseLengthHeader(h) ==
    LET len == PeekBigEndianInt32(h)
    IN  IF len > kMaxPacketSize \/ len < 0 THEN -1 ELSE len

ParsePacketHeader(h) ==
    CASE codec = "ZNet" -> ParseZNet(h)
      [] codec = "TeamTalk" -> ParseTeamTalk(h)
      [] codec = "LengthHeader" -> ParseLengthHeader(h)

\* The bytes of the m-th frame; no body follows a header the codec refuses.
BodyLen(h) == IF ParsePacketHeader(h) = -1 THEN 0 ELSE ParsePacketHeader(h)
FrameLen(h) == kPacketHeaderSize + BodyLen(h)
Frame(m, h) == [k \in 1 .. FrameLen(h) |-> <<m, k>>]

\* The header at Peek(), valid once HasHeader.
HasHeader == Len(data) >= kPacketHeaderSize
Header == sent[data[1][1]]
HasPacket == Len(data) >= FrameLen(Header)

Init ==
    /\ codec \in Codecs
    /\ sent = <<>>
    /\ wire = <<>>
    /\ data = <<>>
    /\ pc = "idle"
    /\ ret = 0
    /\ delivered = <<>>

-----------------------------------------------------------------------------

\* The peer sends a frame, external.
PeerSends(h) ==
    /\ Len(sent) < MaxFrames
    /\ sent' = Append(sent, h)
    /\ wire' = wire \o Frame(Len(sent'), h)
    /\ UNCHANGED <<codec, data, pc, ret, delivered>>

\* IOHandler::Read appends what has arrived and calls OnDataReceived.
Read(n) ==
    /\ pc = "idle"
    /\ data' = data \o SubSeq(wire, 1, n)
    /\ wire' = SubSeq(wire, n + 1, Len(wire))
    /\ pc' = "decode"
    /\ ret' = 0
    /\ UNCHANGED <<codec, sent, delivered>>

\* Mutant: the connection is only marked for closing.
ReturnMarking(r) == pc' = IF r = 0 THEN "idle" ELSE "WAITING_CLOSE"

\* OnDataReceived returns r: IOHandler::Read closes on anything but 0.
Return(r) == pc' = IF r = 0 THEN "idle" ELSE "closed"

\* The loop ends: less than a header, or less than the packet it announces.
\* ZNetCodec and TeamTalkCodec return 0, LengthHeaderCodec its last result.
Incomplete ==
    /\ pc = "decode"
    /\ HasHeader => ParsePacketHeader(Header) # -1 /\ ~HasPacket
    /\ Return(IF codec = "LengthHeader" THEN ret ELSE 0)
    /\ UNCHANGED <<codec, sent, wire, data, ret, delivered>>

\* A refused header ends the loop with -1.
Refuse ==
    /\ pc = "decode"
    /\ HasHeader /\ ParsePacketHeader(Header) = -1
    /\ Return(-1)
    /\ UNCHANGED <<codec, sent, wire, data, ret, delivered>>

\* Mutant: the body is copied from Peek(), header included.
PacketFromPeek == [header |-> Header, body |-> SubSeq(data, 1, BodyLen(Header))]

\* The packet built from the bytes behind the header.
Packet == [header |-> Header,
           body |-> SubSeq(data, kPacketHeaderSize + 1, FrameLen(Header))]

\* Mutant: only the body is retrieved.
RetrieveBodyOnly == SubSeq(data, BodyLen(Header) + 1, Len(data))

\* What is left after Retrieve(body_len + kPacketHeaderSize).
RetrievePacket == SubSeq(data, FrameLen(Header) + 1, Len(data))

\* Mutant: LengthHeaderCodec returns after one packet, too.
AfterPacketReturning(r) == Return(r) /\ ret' = r

\* After a packet: ZNetCodec and TeamTalkCodec return the application's
\* result; LengthHeaderCodec goes on unless it was -1.
AfterPacket(r) ==
    /\ ret' = r
    /\ IF codec # "LengthHeader" \/ r = -1 THEN Return(r) ELSE UNCHANGED pc

\* A complete packet is handed to the application, which answers r.
Deliver(r) ==
    /\ pc = "decode"
    /\ HasHeader /\ ParsePacketHeader(Header) # -1 /\ HasPacket
    /\ delivered' = Append(delivered, Packet)
    /\ data' = RetrievePacket
    /\ AfterPacket(r)
    /\ UNCHANGED <<codec, sent, wire>>

Next ==
    \/ \E h \in Headers : PeerSends(h)
    \/ \E n \in 1 .. Len(wire) : Read(n)
    \/ Incomplete
    \/ Refuse
    \/ \E r \in {-1, 0, 1} : Deliver(r)

Spec == Init /\ [][Next]_vars

\* The loop reads what is readable (not necessarily all of it) and
\* OnDataReceived returns.
FairSpec ==
    /\ Spec
    /\ WF_vars(\E n \in 1 .. Len(wire) : Read(n))
    /\ WF_vars(Incomplete \/ Refuse \/ \E r \in {-1, 0, 1} : Deliver(r))

-----------------------------------------------------------------------------

Bytes == (1 .. MaxFrames) \X Nat

TypeOK ==
    /\ codec \in Codecs
    /\ sent \in Seq(Headers)
    /\ wire \in Seq(Bytes)
    /\ data \in Seq(Bytes)
    /\ pc \in {"idle", "decode", "closed"}
    /\ ret \in {-1, 0, 1}
    /\ delivered \in Seq([header : Headers, body : Seq(Bytes)])

\* However the bytes are cut into reads, the packets delivered are the first
\* frames sent, in order, each once, with its own header and its whole body.
DeliveredAsSent ==
    /\ Len(delivered) <= Len(sent)
    /\ \A m \in 1 .. Len(delivered) :
          /\ delivered[m].header = sent[m]
          /\ delivered[m].body =
                [k \in 1 .. BodyLen(sent[m]) |-> <<m, kPacketHeaderSize + k>>]

\* Nothing is lost or skipped in between: read_buf_ starts at the header of
\* the next frame, and what it holds and the network holds is the rest of
\* the stream, byte after byte.
StreamAligned ==
    LET rest == data \o wire
        after(b) == IF b[2] < FrameLen(sent[b[1]])
                    THEN <<b[1], b[2] + 1>> ELSE <<b[1] + 1, 1>>
    IN  IF rest = <<>> THEN Len(delivered) = Len(sent)
        ELSE /\ rest[1] = <<Len(delivered) + 1, 1>>
             /\ \A i \in 1 .. Len(rest) - 1 : rest[i + 1] = after(rest[i])
             /\ after(rest[Len(rest)]) = <<Len(sent) + 1, 1>>

\* LengthHeaderCodec leaves nothing behind that it could decode: when it is
\* idle, read_buf_ holds less than one packet and no bad header.
LengthHeaderDrains ==
    codec = "LengthHeader" /\ pc = "idle" /\ HasHeader =>
        ParsePacketHeader(Header) # -1 /\ ~HasPacket

\* So every frame sent reaches the application without waiting for a later
\* one, unless the connection closes.
LengthHeaderDelivers ==
    \A m \in 1 .. MaxFrames :
        (codec = "LengthHeader" /\ Len(sent) >= m)
            ~> (Len(delivered) >= m \/ pc = "closed")
=============================================================================
