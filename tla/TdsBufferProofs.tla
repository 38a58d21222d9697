-------------------------- MODULE TdsBufferProofs ---------------------------
(***************************************************************************)
(* Messages survive their way through two packet buffers, for every packet *)
(* size and however they are written and read.                             *)
(***************************************************************************)
EXTENDS TdsBuffer, SequenceTheorems, TLAPS

\* The packet sent last.
Newest == IF wire = <<>> THEN rbuf ELSE wire[Len(wire)]

\* What the writer is about to send follows it; the writer never stands
\* between two packets of a message with nothing to put into the next.
WriterInv ==
    /\ Newest.hi = flushed
    /\ Newest.final =>
          Newest.msg = Len(ends) /\ (open => wPacketSeq = 1 % SeqMod)
    /\ ~Newest.final =>
          /\ open /\ Newest.msg = Len(ends) + 1
          /\ wPacketSeq = (Newest.seq + 1) % SeqMod
          /\ wpos > headerSize \/ todo > 0
    /\ ~open => wpos = headerSize /\ todo = 0

\* The messages of the packets, and where they end.
MsgInv ==
    \A i \in 1..Len(wire) :
        /\ wire[i].lo <= wire[i].hi
        /\ wire[i].msg = IF Before(i).final THEN Before(i).msg + 1 ELSE Before(i).msg
        /\ wire[i].final => /\ wire[i].msg \in 1..Len(ends)
                            /\ wire[i].hi = ends[wire[i].msg]

ReaderInv ==
    /\ rbuf.lo <= rbuf.hi /\ rbuf.msg = rmsg
    /\ headerSize <= rpos
    /\ got = rbuf.lo + (rpos - headerSize)

IInv ==
    /\ TypeOK /\ WriterInv /\ MsgInv /\ ReaderInv
    /\ WithinPacket /\ MessagesKept /\ WellFramed

USE PacketSizesAssumption, SeqModAssumption, MaxWriteAssumption,
    MaxBytesAssumption, MaxMsgsAssumption

\* Packet numbers are bytes.
LEMMA SeqType == \A x \in Nat : x % SeqMod \in 0..(SeqMod - 1)
  OBVIOUS

\* What Append does to the entries of a sequence.
LEMMA AppendEntries ==
    ASSUME NEW S, NEW s \in Seq(S), NEW e \in S
    PROVE  /\ Append(s, e) \in Seq(S) /\ Len(Append(s, e)) = Len(s) + 1
           /\ Len(s) \in Nat
           /\ \A i \in 1..Len(s) : Append(s, e)[i] = s[i]
           /\ Append(s, e)[Len(s) + 1] = e /\ Append(s, e) # <<>>
  BY AppendProperties, LenProperties

\* The same for Tail.
LEMMA TailEntries ==
    ASSUME NEW S, NEW s \in Seq(S), s # <<>>
    PROVE  /\ Tail(s) \in Seq(S) /\ Len(Tail(s)) = Len(s) - 1
           /\ Len(s) \in Nat /\ Len(s) >= 1
           /\ Head(s) = s[1] /\ s[1] \in S
           /\ \A i \in 1..Len(Tail(s)) : Tail(s)[i] = s[i + 1]
           /\ Tail(s) = <<>> <=> Len(s) = 1
  <1>1. Len(s) \in Nat /\ Len(s) >= 1
    BY EmptySeq, LenProperties
  <1>2. Tail(s) \in Seq(S) /\ Len(Tail(s)) = Len(s) - 1 /\ Head(s) = s[1]
        /\ \A i \in 1..Len(Tail(s)) : Tail(s)[i] = s[i + 1]
    BY HeadTailProperties
  <1>3. s[1] \in S
    BY <1>1, ElementOfSeq
  <1>4. Tail(s) = <<>> <=> Len(s) = 1
    <2>1. Tail(s) = <<>> <=> Len(Tail(s)) = 0
      BY <1>2, EmptySeq, Zenon
    <2>. QED  BY <1>1, <1>2, <2>1
  <1>. QED  BY <1>1, <1>2, <1>3, <1>4, Zenon

\* The types of what is on the wire.
LEMMA WireTypes ==
    ASSUME TypeOK
    PROVE  /\ Len(wire) \in Nat /\ Len(ends) \in Nat
           /\ \A i \in 1..Len(wire) : wire[i] \in Packet /\ Before(i) \in Packet
           /\ wire = <<>> <=> Len(wire) = 0
           /\ Newest \in Packet
  <1>1. Len(wire) \in Nat /\ Len(ends) \in Nat
    BY LenProperties, Zenon DEF TypeOK
  <1>2. \A i \in 1..Len(wire) : wire[i] \in Packet
    BY ElementOfSeq, Zenon DEF TypeOK
  <1>3. \A i \in 1..Len(wire) : Before(i) \in Packet
    BY <1>1, <1>2 DEF Before, TypeOK
  <1>4. wire = <<>> <=> Len(wire) = 0
    BY EmptySeq, Zenon DEF TypeOK
  <1>5. Newest \in Packet
    BY <1>1, <1>2, <1>4 DEF Newest, TypeOK
  <1>. QED  BY <1>1, <1>2, <1>3, <1>4, <1>5, Zenon

-----------------------------------------------------------------------------
(* A packet is sent.                                                        *)

\* The packet that flush(hi, last) sends.
Sent(hi, last) ==
    [seq |-> wPacketSeq, final |-> last,
     lo |-> flushed, hi |-> hi, msg |-> Len(ends) + 1]

\* A packet is added to the wire, and keeps it in order.
LEMMA SendStep ==
    ASSUME IInv, open, NEW hi \in Nat, NEW last \in BOOLEAN, flush(hi, last),
           hi >= flushed, headerSize + (hi - flushed) <= packetSize,
           ~last => headerSize + (hi - flushed) = packetSize,
           ~Newest.final => hi > flushed,
           ends' = IF last THEN Append(ends, hi) ELSE ends,
           UNCHANGED <<packetSize, rVars>>
    PROVE  /\ wire' \in Seq(Packet) /\ flushed' = hi
           /\ wPacketSeq' = (wPacketSeq + 1) % SeqMod
           /\ wPacketSeq' \in 0..(SeqMod - 1)
           /\ ends' \in Seq(Nat) /\ Len(ends') = Len(ends) + (IF last THEN 1 ELSE 0)
           /\ Newest' = Sent(hi, last)
           /\ MsgInv' /\ WellFramed' /\ MessagesKept' /\ ReaderInv' /\ WithinPacket'
  <1>. DEFINE b == Sent(hi, last)
  <1>. USE DEF IInv
  <1>0. PICK n \in Nat : n = Len(wire)
    BY WireTypes, Zenon
  <1>1. b \in Packet
    BY WireTypes DEF Sent, Packet, TypeOK
  <1>2. /\ wire' = Append(wire, b) /\ flushed' = hi
        /\ wPacketSeq' = (wPacketSeq + 1) % SeqMod
    BY Zenon DEF flush, Sent
  <1>21. wPacketSeq' \in 0..(SeqMod - 1)
    <2>1. wPacketSeq + 1 \in Nat
      BY DEF TypeOK
    <2>. QED  BY <1>2, <2>1, SeqType, Zenon
  <1>. HIDE DEF b
  <1>3. /\ wire' \in Seq(Packet) /\ Len(wire') = n + 1
        /\ \A i \in 1..n : wire'[i] = wire[i]
        /\ wire'[n + 1] = b /\ wire' # <<>>
    <2>1. wire \in Seq(Packet)
      BY Zenon DEF TypeOK
    <2>. QED  BY <1>0, <1>1, <1>2, <2>1, AppendEntries
  <1>4. /\ ends' \in Seq(Nat) /\ Len(ends') = Len(ends) + (IF last THEN 1 ELSE 0)
        /\ \A m \in 1..Len(ends) : ends'[m] = ends[m]
        /\ last => ends'[Len(ends) + 1] = hi
    BY AppendEntries, WireTypes DEF TypeOK
  <1>5. Newest' = b
    BY <1>0, <1>3, WireTypes, Zenon DEF Newest
  <1>6. /\ \A i \in 1..n : Before(i)' = Before(i)
        /\ Before(n + 1)' = Newest
    <2>1. rbuf' = rbuf
      BY Zenon DEF rVars
    <2>2. \A i \in 1..n : Before(i)' = Before(i)
      BY <1>3, <2>1 DEF Before
    <2>3. Before(n + 1)' = Newest
      <3>1. CASE n = 0
        BY <1>0, <2>1, <3>1, WireTypes DEF Before, Newest
      <3>2. CASE n # 0
        <4>1. wire # <<>> /\ n \in 1..n /\ n + 1 # 1 /\ (n + 1) - 1 = n
          BY <1>0, <3>2, WireTypes
        <4>2. Before(n + 1)' = wire'[n]
          BY <4>1, Zenon DEF Before
        <4>. QED  BY <1>0, <1>3, <4>1, <4>2, Zenon DEF Newest
      <3>. QED  BY <3>1, <3>2, Zenon
    <2>. QED  BY <2>2, <2>3, Zenon
  <1>7. MsgInv'
    <2>. SUFFICES ASSUME NEW i \in 1..Len(wire')
                  PROVE  /\ wire'[i].lo <= wire'[i].hi
                         /\ wire'[i].msg = IF Before(i)'.final THEN Before(i)'.msg + 1
                                                               ELSE Before(i)'.msg
                         /\ wire'[i].final => /\ wire'[i].msg \in 1..Len(ends')
                                              /\ wire'[i].hi = ends'[wire'[i].msg]
      BY Zenon DEF MsgInv
    <2>1. CASE i \in 1..n
      <3>1. wire'[i] = wire[i] /\ Before(i)' = Before(i) /\ i \in 1..Len(wire)
        BY <1>0, <1>3, <1>6, <2>1, Zenon
      <3>2. wire[i].final => /\ wire[i].msg \in 1..Len(ends')
                             /\ wire[i].hi = ends'[wire[i].msg]
        <4>1. wire[i].final => wire[i].msg \in 1..Len(ends) /\ wire[i].hi = ends[wire[i].msg]
          BY <3>1, Zenon DEF MsgInv
        <4>2. \A m \in 1..Len(ends) : m \in 1..Len(ends') /\ ends'[m] = ends[m]
          BY <1>4, WireTypes
        <4>. QED  BY <4>1, <4>2, Zenon
      <3>. QED  BY <3>1, <3>2, Zenon DEF MsgInv
    <2>2. CASE i = n + 1
      <3>1. b.msg = IF Newest.final THEN Newest.msg + 1 ELSE Newest.msg
        BY WireTypes, Zenon DEF b, Sent, WriterInv
      <3>2. b.lo <= b.hi /\ b.hi = hi /\ b.msg = Len(ends) + 1 /\ b.final = last
        BY Zenon DEF b, Sent, TypeOK
      <3>. QED  BY <1>3, <1>4, <1>6, <2>2, <3>1, <3>2, WireTypes
    <2>. QED  BY <1>3, <2>1, <2>2
  <1>8. WellFramed'
    <2>. SUFFICES ASSUME NEW i \in 1..Len(wire')
                  PROVE  /\ Size(wire'[i]) <= packetSize
                         /\ ~wire'[i].final => Size(wire'[i]) = packetSize
                         /\ Follows(Before(i)', wire'[i])
      BY Zenon DEF WellFramed, Size, Follows
    <2>1. CASE i \in 1..n
      <3>1. wire'[i] = wire[i] /\ Before(i)' = Before(i) /\ i \in 1..Len(wire)
        BY <1>0, <1>3, <1>6, <2>1, Zenon
      <3>. QED  BY <3>1, Zenon DEF WellFramed
    <2>2. CASE i = n + 1
      <3>1. Follows(Newest, b)
        BY Zenon DEF b, Follows, Sent, WriterInv, TypeOK
      <3>2. Size(b) <= packetSize /\ (~b.final => Size(b) = packetSize)
        BY Zenon DEF b, Size, Sent, TypeOK
      <3>. QED  BY <1>3, <1>6, <2>2, <3>1, <3>2, Zenon
    <2>. QED  BY <1>3, <2>1, <2>2
  <1>9. MessagesKept' /\ ReaderInv' /\ WithinPacket'
    BY <1>4, WireTypes
    DEF MessagesKept, ReaderInv, WithinPacket, rVars, rsize, Size, TypeOK
  <1>. QED  BY <1>2, <1>21, <1>3, <1>4, <1>5, <1>7, <1>8, <1>9, Zenon DEF b

-----------------------------------------------------------------------------
(* A packet is read.                                                        *)

\* The next packet becomes the reader's, which stands k bytes into it.
LEMMA NextPacketStep ==
    ASSUME IInv, NEW k \in Nat, NextPacket(k),
           k <= Size(Head(wire)) - headerSize,
           rmsg' = IF rbuf.final THEN rmsg + 1 ELSE rmsg,
           UNCHANGED <<packetSize, wVars>>
    PROVE  /\ wire' \in Seq(Packet) /\ rbuf' \in Packet
           /\ rpos' \in Nat /\ got' \in Nat /\ rmsg' \in Nat
           /\ Newest' = Newest
           /\ MsgInv' /\ WellFramed' /\ MessagesKept' /\ ReaderInv' /\ WithinPacket'
  <1>. USE DEF IInv
  <1>1. /\ wire # <<>> /\ wire' = Tail(wire) /\ rbuf' = wire[1]
        /\ rpos' = headerSize + k /\ got' = wire[1].lo + k
    BY TailEntries, Zenon DEF NextPacket, TypeOK
  <1>2. /\ wire' \in Seq(Packet) /\ Len(wire') = Len(wire) - 1
        /\ Len(wire) \in Nat /\ Len(wire) >= 1 /\ wire[1] \in Packet
        /\ \A i \in 1..Len(wire') : wire'[i] = wire[i + 1]
        /\ wire' = <<>> <=> Len(wire) = 1
        /\ Head(wire) = wire[1]
    BY <1>1, TailEntries, Zenon DEF TypeOK
  <1>3. Newest' = Newest
    BY <1>1, <1>2 DEF Newest
  <1>4. \A i \in 1..Len(wire') : Before(i)' = Before(i + 1)
    BY <1>1, <1>2 DEF Before
  <1>5. \A i \in 1..Len(wire') : i + 1 \in 1..Len(wire)
    BY <1>2
  <1>6. MsgInv'
    BY <1>2, <1>4, <1>5 DEF MsgInv, wVars
  <1>7. WellFramed'
    <2>. SUFFICES ASSUME NEW i \in 1..Len(wire')
                  PROVE  /\ Size(wire'[i]) <= packetSize
                         /\ ~wire'[i].final => Size(wire'[i]) = packetSize
                         /\ Follows(Before(i)', wire'[i])
      BY Zenon DEF WellFramed, Size, Follows
    <2>1. wire'[i] = wire[i + 1] /\ Before(i)' = Before(i + 1) /\ i + 1 \in 1..Len(wire)
      BY <1>2, <1>4, <1>5, Zenon
    <2>. QED  BY <2>1, Zenon DEF WellFramed
  <1>8. /\ wire[1].lo <= wire[1].hi /\ wire[1].msg = rmsg'
        /\ wire[1].final => /\ wire[1].msg \in 1..Len(ends)
                            /\ wire[1].hi = ends[wire[1].msg]
    <2>1. 1 \in 1..Len(wire) /\ Before(1) = rbuf
      BY <1>2 DEF Before
    <2>. QED  BY <2>1, Zenon DEF MsgInv, ReaderInv
  <1>9. wire[1].lo \in Nat /\ wire[1].hi \in Nat /\ headerSize \in Nat
    BY <1>2, Zenon DEF Packet, headerSize
  <1>10. k <= wire[1].hi - wire[1].lo
    BY <1>2, <1>9 DEF Size
  <1>11. ReaderInv'
    BY <1>1, <1>8, <1>9 DEF ReaderInv
  <1>12. WithinPacket'
    BY <1>1, <1>9, <1>10 DEF WithinPacket, rsize, Size
  <1>13. MessagesKept'
    BY <1>1, <1>8 DEF MessagesKept, wVars
  <1>14. rpos' \in Nat /\ got' \in Nat
    BY <1>1, <1>9
  <1>15. rmsg' \in Nat
    BY DEF TypeOK
  <1>. QED
    BY <1>1, <1>2, <1>3, <1>6, <1>7, <1>11, <1>12, <1>13, <1>14, <1>15, Zenon

-----------------------------------------------------------------------------
(* The steps.                                                               *)

\* The steps of the writer that send nothing.
LEMMA QuietWriter ==
    ASSUME IInv, UNCHANGED <<wire, rVars, ends, flushed, packetSize>>,
           wpos' \in headerSize..packetSize, wPacketSeq' \in 0..(SeqMod - 1),
           open' \in BOOLEAN, todo' \in Nat,
           WriterInv'
    PROVE  IInv'
  <1>. USE DEF IInv
  <1>1. TypeOK'
    BY Zenon DEF TypeOK, rVars
  <1>2. MsgInv'
    BY Zenon DEF MsgInv, Before, rVars
  <1>3. WellFramed'
    BY Zenon DEF WellFramed, Before, rVars, Size, Follows
  <1>4. ReaderInv' /\ WithinPacket' /\ MessagesKept'
    BY Zenon DEF ReaderInv, WithinPacket, MessagesKept, rVars, rsize, Size
  <1>. QED  BY <1>1, <1>2, <1>3, <1>4, Zenon

\* The steps of the writer.
LEMMA WriterStep ==
    ASSUME IInv,
           \/ \E s \in PacketSizes : Resize(s)
           \/ \E k \in 0..MaxWrite : Write(k)
           \/ BeginPacket \/ Copy \/ WriteByte \/ FinishPacket
    PROVE  IInv'
  <1>. USE DEF IInv
  <1>. headerSize \in Nat /\ packetSize > headerSize /\ packetSize \in Nat
    BY Zenon DEF headerSize, TypeOK
  <1>0. wpos \in headerSize..packetSize /\ todo \in Nat /\ flushed \in Nat
        /\ written \in Nat /\ written >= flushed
    BY DEF TypeOK, written
  <1>1. ASSUME NEW s \in PacketSizes, Resize(s)
        PROVE  IInv'
    <2>1. /\ wire = <<>> /\ wire' = <<>> /\ packetSize' = s /\ wpos = headerSize
          /\ UNCHANGED <<wVars, rVars>>
      BY <1>1, Zenon DEF Resize, WriterInv
    <2>2. s \in Nat /\ s > headerSize
      BY Zenon
    <2>3. TypeOK'
      BY <2>1, <2>2 DEF TypeOK, wVars, rVars
    <2>4. Newest' = Newest
      BY <2>1, Zenon DEF Newest, rVars
    <2>5. WriterInv'
      BY <2>1, <2>4, Zenon DEF WriterInv, wVars
    <2>6. MsgInv' /\ WellFramed'
      <3>1. Len(wire') = 0
        BY <2>1, Zenon
      <3>. QED  BY <3>1 DEF MsgInv, WellFramed
    <2>7. ReaderInv' /\ WithinPacket' /\ MessagesKept'
      BY <2>1, Zenon DEF ReaderInv, WithinPacket, MessagesKept, wVars, rVars, rsize, Size
    <2>. QED  BY <2>3, <2>5, <2>6, <2>7, Zenon
  <1>2. CASE BeginPacket
    <2>1. /\ ~open /\ open' = TRUE /\ wpos' = headerSize
          /\ wPacketSeq' = 1 % SeqMod
          /\ UNCHANGED <<packetSize, todo, flushed, ends, wire, rVars>>
      BY <1>2, Zenon DEF BeginPacket
    <2>2. Newest' = Newest
      BY <2>1, Zenon DEF Newest, rVars
    <2>3. WriterInv'
      BY <2>1, <2>2, Zenon DEF WriterInv
    <2>4. wPacketSeq' \in 0..(SeqMod - 1) /\ wpos' \in headerSize..packetSize
      BY <2>1, SeqType
    <2>. QED  BY <1>0, <2>1, <2>3, <2>4, QuietWriter, Zenon
  <1>3. ASSUME NEW k \in 0..MaxWrite, Write(k)
        PROVE  IInv'
    <2>1. /\ open /\ todo = 0 /\ todo' = k
          /\ UNCHANGED <<packetSize, wpos, wPacketSeq, open, flushed, ends,
                         wire, rVars>>
      BY <1>3, Zenon DEF Write
    <2>2. Newest' = Newest
      BY <2>1, Zenon DEF Newest, rVars
    <2>3. WriterInv'
      BY <2>1, <2>2 DEF WriterInv
    <2>. QED  BY <1>0, <2>1, <2>3, QuietWriter DEF TypeOK
  <1>4. CASE Copy
    <2>. DEFINE copied == Lesser(todo, packetSize - wpos)
    <2>1. /\ todo > 0 /\ open /\ todo' = todo - copied
          /\ UNCHANGED <<packetSize, open, ends, rVars>>
      BY <1>0, <1>4 DEF Copy, WriterInv
    <2>2. copied \in Nat /\ copied <= todo /\ copied <= packetSize - wpos
          /\ (copied # todo => copied = packetSize - wpos)
      BY <1>0 DEF Lesser
    <2>3. CASE copied = todo
      <3>1. wpos' = wpos + copied /\ UNCHANGED <<flushed, wire, wPacketSeq>>
        BY <1>4, <2>3, Zenon DEF Copy
      <3>2. Newest' = Newest
        BY <2>1, <3>1, Zenon DEF Newest, rVars
      <3>3. WriterInv'
        BY <1>0, <2>1, <2>2, <2>3, <3>1, <3>2 DEF WriterInv
      <3>. QED  BY <1>0, <2>1, <2>2, <3>1, <3>3, QuietWriter DEF TypeOK
    <2>4. CASE copied # todo
      <3>. DEFINE hi == written + copied
      <3>1. wpos' = headerSize /\ flush(hi, FALSE)
        BY <1>4, <2>4, Zenon DEF Copy
      <3>2. hi \in Nat /\ hi >= flushed /\ headerSize + (hi - flushed) = packetSize
            /\ hi > flushed
        BY <1>0, <2>2, <2>4 DEF written
      <3>. HIDE DEF hi, copied
      <3>3. /\ wire' \in Seq(Packet) /\ flushed' = hi
            /\ wPacketSeq' = (wPacketSeq + 1) % SeqMod
            /\ wPacketSeq' \in 0..(SeqMod - 1)
            /\ Newest' = Sent(hi, FALSE)
            /\ MsgInv' /\ WellFramed' /\ MessagesKept' /\ ReaderInv' /\ WithinPacket'
        <4>1. /\ headerSize + (hi - flushed) <= packetSize
              /\ ends' = IF FALSE THEN Append(ends, hi) ELSE ends
              /\ UNCHANGED <<packetSize, rVars>>
          BY <2>1, <3>2
        <4>. HIDE DEF IInv
        <4>. QED  BY <2>1, <3>1, <3>2, <4>1, SendStep, Zenon
      <3>4. todo' > 0 /\ todo' \in Nat
        BY <1>0, <2>1, <2>2, <2>4
      <3>5. TypeOK'
        BY <2>1, <3>1, <3>2, <3>3, <3>4 DEF TypeOK, rVars
      <3>6. WriterInv'
        BY <2>1, <3>3, <3>4, Zenon DEF WriterInv, Sent
      <3>. QED  BY <3>3, <3>5, <3>6, Zenon
    <2>. QED  BY <2>3, <2>4, Zenon
  <1>5. CASE WriteByte
    <2>1. open /\ todo = 0 /\ UNCHANGED <<packetSize, open, todo, ends, rVars>>
      BY <1>5, Zenon DEF WriteByte
    <2>2. CASE wpos # packetSize
      <3>1. wpos' = wpos + 1 /\ UNCHANGED <<flushed, wire, wPacketSeq>>
        BY <1>5, <2>2, Zenon DEF WriteByte
      <3>2. Newest' = Newest
        BY <2>1, <3>1, Zenon DEF Newest, rVars
      <3>3. WriterInv'
        BY <1>0, <2>1, <3>1, <3>2 DEF WriterInv
      <3>. QED  BY <1>0, <2>1, <2>2, <3>1, <3>3, QuietWriter DEF TypeOK
    <2>3. CASE wpos = packetSize
      <3>1. wpos' = headerSize + 1 /\ flush(written, FALSE)
        BY <1>5, <2>3, Zenon DEF WriteByte
      <3>2. headerSize + (written - flushed) = packetSize /\ written > flushed
        BY <1>0, <2>3 DEF written
      <3>3. /\ wire' \in Seq(Packet) /\ flushed' = written
            /\ wPacketSeq' = (wPacketSeq + 1) % SeqMod
            /\ wPacketSeq' \in 0..(SeqMod - 1)
            /\ Newest' = Sent(written, FALSE)
            /\ MsgInv' /\ WellFramed' /\ MessagesKept' /\ ReaderInv' /\ WithinPacket'
        <4>1. /\ headerSize + (written - flushed) <= packetSize
              /\ ends' = IF FALSE THEN Append(ends, written) ELSE ends
              /\ UNCHANGED <<packetSize, rVars>>
          BY <2>1, <3>2
        <4>. HIDE DEF IInv
        <4>. QED  BY <1>0, <2>1, <3>1, <3>2, <4>1, SendStep, Zenon
      <3>4. TypeOK'
        BY <1>0, <2>1, <3>1, <3>3 DEF TypeOK, rVars
      <3>5. WriterInv'
        BY <2>1, <3>1, <3>3 DEF WriterInv, Sent
      <3>. QED  BY <3>3, <3>4, <3>5, Zenon
    <2>. QED  BY <2>2, <2>3, Zenon
  <1>6. CASE FinishPacket
    <2>1. /\ open /\ todo = 0 /\ flush(written, TRUE)
          /\ wpos' = headerSize /\ open' = FALSE /\ ends' = Append(ends, written)
          /\ UNCHANGED <<packetSize, todo, rVars>>
      BY <1>6, Zenon DEF FinishPacket
    <2>2. headerSize + (written - flushed) <= packetSize
          /\ (~Newest.final => written > flushed)
      BY <1>0, <2>1 DEF written, WriterInv
    <2>3. /\ wire' \in Seq(Packet) /\ flushed' = written
          /\ wPacketSeq' \in 0..(SeqMod - 1)
          /\ ends' \in Seq(Nat) /\ Len(ends') = Len(ends) + 1
          /\ Newest' = Sent(written, TRUE)
          /\ MsgInv' /\ WellFramed' /\ MessagesKept' /\ ReaderInv' /\ WithinPacket'
      BY <1>0, <2>1, <2>2, SendStep, Zenon
    <2>4. TypeOK'
      <3>1. open' \in BOOLEAN
        BY <2>1, Zenon
      <3>. QED  BY <1>0, <2>1, <2>3, <3>1 DEF TypeOK, rVars
    <2>5. WriterInv'
      BY <2>1, <2>3, Zenon DEF WriterInv, Sent
    <2>. QED  BY <2>3, <2>4, <2>5, Zenon
  <1>. QED  BY <1>1, <1>2, <1>3, <1>4, <1>5, <1>6, Zenon

\* The reader takes bytes from its packet, or only waits for more.
LEMMA QuietReader ==
    ASSUME IInv, UNCHANGED <<packetSize, wVars, wire, rbuf, rmsg>>,
           need' \in Nat, rpos' \in Nat, headerSize <= rpos', rpos' <= rsize,
           got' = rbuf.lo + (rpos' - headerSize)
    PROVE  IInv'
  <1>. USE DEF IInv
  <1>1. headerSize \in Nat /\ rbuf.lo \in Nat
    BY Zenon DEF headerSize, TypeOK, Packet
  <1>2. TypeOK'
    BY <1>1 DEF TypeOK, wVars
  <1>3. WriterInv'
    BY Zenon DEF WriterInv, Newest, wVars
  <1>4. MsgInv'
    BY Zenon DEF MsgInv, Before, wVars
  <1>5. WellFramed'
    BY Zenon DEF WellFramed, Before, Size, Follows
  <1>6. ReaderInv' /\ WithinPacket' /\ MessagesKept'
    BY Zenon DEF ReaderInv, WithinPacket, MessagesKept, wVars, rsize, Size
  <1>. QED  BY <1>2, <1>3, <1>4, <1>5, <1>6, Zenon

\* The reader goes on to the next packet.
LEMMA ReaderGoesOn ==
    ASSUME IInv, NEW k \in Nat, NextPacket(k), need' \in Nat,
           k <= Size(Head(wire)) - headerSize,
           rmsg' = IF rbuf.final THEN rmsg + 1 ELSE rmsg,
           UNCHANGED <<packetSize, wVars>>
    PROVE  IInv'
  <1>1. /\ wire' \in Seq(Packet) /\ rbuf' \in Packet
        /\ rpos' \in Nat /\ got' \in Nat /\ rmsg' \in Nat
        /\ Newest' = Newest
        /\ MsgInv' /\ WellFramed' /\ MessagesKept' /\ ReaderInv' /\ WithinPacket'
    BY NextPacketStep, Zenon
  <1>2. TypeOK'
    BY <1>1, Zenon DEF IInv, TypeOK, wVars
  <1>3. WriterInv'
    BY <1>1, Zenon DEF IInv, WriterInv, wVars
  <1>. QED  BY <1>1, <1>2, <1>3, Zenon DEF IInv

\* The packet that the reader is about to get.
LEMMA NextPacketType ==
    ASSUME IInv, wire # <<>>
    PROVE  /\ Head(wire) \in Packet /\ Size(Head(wire)) - headerSize \in Nat
           /\ Head(wire).lo = rbuf.hi
           /\ ~rbuf.final => Size(Head(wire)) - headerSize > 0
  <1>1. Head(wire) = wire[1] /\ wire[1] \in Packet /\ 1 \in 1..Len(wire)
    BY TailEntries DEF IInv, TypeOK
  <1>2. Before(1) = rbuf
    BY Zenon DEF Before
  <1>3. wire[1].lo <= wire[1].hi /\ Follows(rbuf, wire[1])
    BY <1>1, <1>2, Zenon DEF IInv, MsgInv, WellFramed
  <1>. QED  BY <1>1, <1>3 DEF Size, Follows, Packet, headerSize

\* The steps of the reader.
LEMMA ReaderStep ==
    ASSUME IInv, BeginRead \/ ReadByte \/ ReadMore \/ \E k \in {2, 4, 8} : ReadInt(k)
    PROVE  IInv'
  <1>0. /\ rpos \in Nat /\ rsize \in Nat /\ rpos <= rsize /\ headerSize <= rpos
        /\ need \in Nat /\ rmsg \in Nat /\ headerSize \in Nat /\ rbuf.lo \in Nat
    <2>1. rbuf.lo \in Nat /\ rbuf.hi \in Nat /\ rbuf.lo <= rbuf.hi
      BY Zenon DEF IInv, TypeOK, Packet, ReaderInv
    <2>2. rpos \in Nat /\ need \in Nat /\ rmsg \in Nat /\ rpos <= rsize /\ headerSize <= rpos
      BY Zenon DEF IInv, TypeOK, WithinPacket, ReaderInv
    <2>. QED
      BY <2>1, <2>2 DEF rsize, Size, headerSize
  <1>1. ASSUME NEW k \in Nat, Take(k), rpos + k <= rsize, need' \in Nat,
               UNCHANGED <<packetSize, wVars, rmsg>>
        PROVE  IInv'
    <2>1. rpos' = rpos + k /\ got' = rbuf.lo + (rpos - headerSize) + k
          /\ UNCHANGED <<wire, rbuf>>
      BY <1>1, Zenon DEF Take
    <2>2. /\ rpos' \in Nat /\ headerSize <= rpos' /\ rpos' <= rsize
          /\ got' = rbuf.lo + (rpos' - headerSize)
      BY <1>0, <1>1, <2>1
    <2>. QED  BY <1>1, <2>1, <2>2, QuietReader, Zenon
  <1>2. CASE BeginRead
    <2>1. rbuf.final /\ NextPacket(0) /\ rmsg' = rmsg + 1 /\ need' = need
          /\ UNCHANGED <<packetSize, wVars>> /\ wire # <<>>
      BY <1>2, Zenon DEF BeginRead, NextPacket
    <2>2. 0 <= Size(Head(wire)) - headerSize
      BY <2>1, NextPacketType
    <2>. QED  BY <1>0, <2>1, <2>2, ReaderGoesOn, Zenon
  <1>3. CASE ReadByte
    <2>1. ~EndOfMessage /\ UNCHANGED <<packetSize, wVars, need, rmsg>>
      BY <1>3, Zenon DEF ReadByte
    <2>2. CASE EndOfPacket
      <3>1. NextPacket(1) /\ wire # <<>> /\ ~rbuf.final
        BY <1>3, <2>1, <2>2, Zenon DEF ReadByte, NextPacket, EndOfMessage
      <3>2. 1 <= Size(Head(wire)) - headerSize
        BY <3>1, NextPacketType
      <3>. QED  BY <1>0, <2>1, <3>1, <3>2, ReaderGoesOn, Zenon
    <2>3. CASE ~EndOfPacket
      <3>1. Take(1)
        BY <1>3, <2>3, Zenon DEF ReadByte
      <3>2. rpos + 1 <= rsize
        BY <1>0, <2>3 DEF EndOfPacket
      <3>. QED  BY <1>0, <1>1, <2>1, <3>1, <3>2, Zenon
    <2>. QED  BY <2>2, <2>3, Zenon
  <1>4. CASE ReadMore
    <2>1. need > 0 /\ UNCHANGED <<packetSize, wVars, rmsg>>
      BY <1>4, Zenon DEF ReadMore
    <2>2. CASE need' = 0 /\ UNCHANGED <<wire, rbuf, rpos, got>>
      BY <1>0, <2>1, <2>2, QuietReader, Zenon DEF IInv, ReaderInv
    <2>3. CASE /\ EndOfPacket /\ ~rbuf.final /\ wire # <<>>
               /\ LET copied == Lesser(need, Size(Head(wire)) - headerSize)
                  IN  NextPacket(copied) /\ need' = need - copied
      <3>. DEFINE copied == Lesser(need, Size(Head(wire)) - headerSize)
      <3>1. copied \in Nat /\ copied <= need /\ copied <= Size(Head(wire)) - headerSize
        BY <1>0, <2>3, NextPacketType DEF Lesser
      <3>2. NextPacket(copied) /\ need' = need - copied
        BY <2>3, Zenon
      <3>. HIDE DEF copied
      <3>. QED  BY <1>0, <2>1, <2>3, <3>1, <3>2, ReaderGoesOn
    <2>4. CASE /\ ~EndOfPacket
               /\ LET copied == Lesser(need, rsize - rpos)
                  IN  Take(copied) /\ need' = need - copied
      <3>. DEFINE copied == Lesser(need, rsize - rpos)
      <3>1. copied \in Nat /\ copied <= need /\ rpos + copied <= rsize
        BY <1>0 DEF Lesser
      <3>2. Take(copied) /\ need' = need - copied
        BY <2>4, Zenon
      <3>. HIDE DEF copied
      <3>. QED  BY <1>0, <1>1, <2>1, <3>1, <3>2
    <2>. QED  BY <1>4, <2>2, <2>3, <2>4, Zenon DEF ReadMore
  <1>5. ASSUME NEW k \in {2, 4, 8}, ReadInt(k)
        PROVE  IInv'
    <2>1. UNCHANGED <<packetSize, wVars, rmsg>>
      BY <1>5, Zenon DEF ReadInt
    <2>2. CASE rpos + (k - 1) >= rsize
      <3>1. need' = k /\ UNCHANGED <<rpos, got, wire, rbuf>>
        BY <1>5, <2>2, Zenon DEF ReadInt
      <3>. QED  BY <1>0, <2>1, <3>1, QuietReader DEF IInv, ReaderInv
    <2>3. CASE ~(rpos + (k - 1) >= rsize)
      <3>1. Take(k) /\ need' = need
        BY <1>5, <2>3, Zenon DEF ReadInt
      <3>2. rpos + k <= rsize /\ k \in Nat
        BY <1>0, <2>3
      <3>. QED  BY <1>0, <1>1, <2>1, <3>1, <3>2, Zenon
    <2>. QED  BY <2>2, <2>3, Zenon
  <1>. QED  BY <1>2, <1>3, <1>4, <1>5, Zenon

-----------------------------------------------------------------------------
(* The theorems.                                                            *)

\* The inductive invariant holds at first.
LEMMA InitIInv == Init => IInv
  <1>. SUFFICES ASSUME Init
                PROVE  IInv
    BY Zenon
  <1>1. /\ packetSize \in PacketSizes /\ packetSize \in Nat /\ headerSize \in Nat
        /\ packetSize > headerSize
    BY Zenon DEF Init, headerSize
  <1>2. rbuf \in Packet
    BY DEF Init, Packet
  <1>3. wire = <<>> /\ Len(wire) = 0 /\ Len(ends) = 0 /\ ends = <<>>
    BY Zenon DEF Init
  <1>4. open \in BOOLEAN
    BY Zenon DEF Init
  <1>5. TypeOK
    <2>1. wire \in Seq(Packet) /\ ends \in Seq(Nat)
      BY <1>3
    <2>. QED  BY <1>1, <1>2, <1>4, <2>1 DEF Init, TypeOK
  <1>6. WriterInv
    BY <1>3, Zenon DEF Init, WriterInv, Newest
  <1>7. MsgInv /\ WellFramed
    BY <1>3 DEF MsgInv, WellFramed
  <1>8. ReaderInv /\ WithinPacket /\ MessagesKept
    BY <1>1 DEF Init, ReaderInv, WithinPacket, MessagesKept, rsize, Size
  <1>. QED  BY <1>5, <1>6, <1>7, <1>8, Zenon DEF IInv

\* It holds always.
LEMMA InductiveInvariant == Spec => []IInv
  <1>1. IInv /\ [Next]_vars => IInv'
    <2>1. IInv /\ Next => IInv'
      BY WriterStep, ReaderStep, Zenon DEF Next
    <2>2. IInv /\ UNCHANGED vars => IInv'
      <3>. SUFFICES ASSUME IInv, UNCHANGED vars
                    PROVE  IInv'
        BY Zenon
      <3>1. UNCHANGED <<packetSize, wVars, wire, rbuf, rmsg, need, rpos, got>>
        BY Zenon DEF vars, rVars
      <3>2. need \in Nat /\ rpos \in Nat /\ headerSize <= rpos /\ rpos <= rsize
            /\ got = rbuf.lo + (rpos - headerSize)
        BY Zenon DEF IInv, TypeOK, ReaderInv, WithinPacket
      <3>. QED  BY <3>1, <3>2, QuietReader, Zenon
    <2>. QED  BY <2>1, <2>2, Zenon
  <1>. QED  BY <1>1, InitIInv, PTL DEF Spec

\* Every variable has its type; wpos stays within the packet.
THEOREM TypeCorrect == Spec => []TypeOK
  BY InductiveInvariant, PTL DEF IInv

\* The reader never goes past the end of its packet (ReadByte, uint16, uint32,
\* uint64, Read).
THEOREM NoStaleBytes == Spec => []WithinPacket
  BY InductiveInvariant, PTL DEF IInv

\* Messages end for the reader where they ended for the writer.
THEOREM MessagesSurvive == Spec => []MessagesKept
  BY InductiveInvariant, PTL DEF IInv

\* The packets on the wire are framed as the reader expects them, for every
\* packet size and every division of a message into writes.
THEOREM Framing == Spec => []WellFramed
  BY InductiveInvariant, PTL DEF IInv

\* The bytes of a message are delivered in order and without gaps.
THEOREM BytesInOrder == Spec => InOrder
  <1>. DEFINE A == rmsg' = rmsg =>
                got' = got + IF rbuf' = rbuf THEN rpos' - rpos ELSE rpos' - headerSize
  <1>1. IInv /\ IInv' /\ [Next]_vars => [A]_vars
    <2>. SUFFICES ASSUME IInv, IInv', Next, rmsg' = rmsg
                  PROVE  got' = got + IF rbuf' = rbuf THEN rpos' - rpos
                                                      ELSE rpos' - headerSize
      BY Zenon
    <2>1. /\ got = rbuf.lo + (rpos - headerSize)
          /\ got' = rbuf'.lo + (rpos' - headerSize)
          /\ rpos \in Nat /\ rpos' \in Nat /\ headerSize \in Nat
          /\ rbuf.lo \in Nat /\ rbuf.hi \in Nat /\ rbuf'.lo \in Nat
      BY Zenon DEF IInv, TypeOK, ReaderInv, Packet, headerSize
    <2>2. CASE rbuf' = rbuf
      BY <2>1, <2>2
    <2>3. CASE rbuf' # rbuf
      <3>1. EndOfPacket /\ wire # <<>> /\ rbuf' = Head(wire)
        <4>1. rmsg \in Nat
          BY Zenon DEF IInv, TypeOK
        <4>2. ~BeginRead
          BY <4>1 DEF BeginRead
        <4>3. /\ \A s : ~Resize(s)
              /\ ~BeginPacket /\ ~Copy /\ ~WriteByte /\ ~FinishPacket
              /\ \A k : ~Write(k)
          BY <2>3, Zenon DEF Resize, BeginPacket, Write, Copy, WriteByte, FinishPacket, rVars
        <4>4. \A k : ~Take(k) /\ ~ReadInt(k)
          BY <2>3, Zenon DEF ReadInt, Take
        <4>5. ReadByte \/ ReadMore
          BY <4>2, <4>3, <4>4, Zenon DEF Next
        <4>6. CASE ReadByte
          BY <4>4, <4>6, Zenon DEF ReadByte, NextPacket
        <4>7. CASE ReadMore
          BY <2>3, <4>4, <4>7, Zenon DEF ReadMore, NextPacket
        <4>. QED  BY <4>5, <4>6, <4>7, Zenon
      <3>2. rbuf'.lo = rbuf.hi
        BY <3>1, NextPacketType, Zenon
      <3>3. rpos = headerSize + (rbuf.hi - rbuf.lo)
        BY <3>1, Zenon DEF EndOfPacket, rsize, Size
      <3>. QED  BY <2>1, <2>3, <3>2, <3>3
    <2>. QED  BY <2>2, <2>3, Zenon
  <1>. QED  BY <1>1, InductiveInvariant, PTL DEF Spec, InOrder
=============================================================================
