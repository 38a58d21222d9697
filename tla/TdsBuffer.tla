----------------------------- MODULE TdsBuffer ------------------------------
(***************************************************************************)
(* The packet buffer of buf.go: messages are cut into packets of at most   *)
(* packetSize bytes, eight of them the header, and put together again by a *)
(* tdsBuffer at the other end.  The writer sends a packet only when there  *)
(* is a byte that does not fit, so that the packet that FinishPacket sends *)
(* is never an empty one after others: ReadByte, which looks at the end of *)
(* a packet only before it asks for the next, relies on it.                *)
(*                                                                         *)
(* Bytes are numbered as they are written; a packet holds those after lo   *)
(* up to hi.  Write and ReadFull are loops, and take a step per round.     *)
(* The hook afterFirst of flush belongs to the login.  Of the status byte  *)
(* only the end-of-message bit is modelled: readNextPacket takes any other *)
(* bit for it too, but the one BeginPacket may set, the reset, is only     *)
(* sent to the server (module Session) and never read by a tdsBuffer.  A   *)
(* transport that fails ends the connection, and the use of the buffer.    *)
(***************************************************************************)
EXTENDS Integers, Sequences

CONSTANTS
    PacketSizes, \* the sizes that ResizeBuffer may be given
    SeqMod,      \* the packet number is a byte: 256
    MaxWrite,    \* bound: bytes in one Write
    MaxBytes,    \* bound: bytes written
    MaxMsgs      \* bound: messages

headerSize == 8

ASSUME PacketSizesAssumption ==
    PacketSizes \subseteq {s \in Nat : s > headerSize} /\ PacketSizes # {}
ASSUME SeqModAssumption == SeqMod \in Nat \ {0}
ASSUME MaxWriteAssumption == MaxWrite \in Nat
ASSUME MaxBytesAssumption == MaxBytes \in Nat
ASSUME MaxMsgsAssumption == MaxMsgs \in Nat

VARIABLES
    packetSize,  \* of both ends
    wpos,        \* where the next byte goes in wbuf
    wPacketSeq,  \* number of the packet in wbuf
    open,        \* between BeginPacket and FinishPacket
    todo,        \* bytes of the running Write that are not copied yet
    flushed,     \* bytes sent
    wire,        \* packets that are not read yet
    ends,        \* history: where each message ends
    rbuf,        \* the packet in rbuf, which gives rsize and final
    rpos,        \* where the next byte is in rbuf
    need,        \* bytes a running ReadFull still waits for
    rmsg,        \* the message that is read
    got          \* history: the last byte delivered

wVars == <<wpos, wPacketSeq, open, todo, flushed, ends>>
rVars == <<rbuf, rpos, need, rmsg, got>>
vars == <<packetSize, wVars, wire, rVars>>

written == flushed + (wpos - headerSize)
Lesser(a, b) == IF a <= b THEN a ELSE b

\* msg: history, the message that the packet belongs to
Packet == [seq : 0..(SeqMod - 1), final : BOOLEAN, lo : Nat, hi : Nat, msg : Nat]
Size(k) == headerSize + (k.hi - k.lo)
rsize == Size(rbuf)
EndOfPacket == rpos = rsize
EndOfMessage == EndOfPacket /\ rbuf.final

\* Every variable has its type.
TypeOK ==
    /\ packetSize \in PacketSizes
    /\ wpos \in headerSize..packetSize /\ wPacketSeq \in 0..(SeqMod - 1)
    /\ open \in BOOLEAN /\ todo \in Nat /\ flushed \in Nat
    /\ wire \in Seq(Packet) /\ ends \in Seq(Nat)
    /\ rbuf \in Packet /\ rpos \in Nat
    /\ need \in Nat /\ rmsg \in Nat /\ got \in Nat

\* newTdsBuffer; nothing has been read, as after the end of a message.
Init ==
    /\ packetSize \in PacketSizes
    /\ wpos = headerSize /\ wPacketSeq = 0 /\ open = FALSE
    /\ todo = 0 /\ flushed = 0 /\ wire = <<>> /\ ends = <<>>
    /\ rbuf = [seq |-> 0, final |-> TRUE, lo |-> 0, hi |-> 0, msg |-> 0]
    /\ rpos = headerSize /\ need = 0 /\ rmsg = 0 /\ got = 0

-----------------------------------------------------------------------------
(* The writer.                                                              *)

\* ResizeBuffer, from processEnvChg: the message that tells the size has arrived
\* and may still be read; nothing has been sent after it.
Resize(s) ==
    /\ ~open /\ wire = <<>>
    /\ packetSize' = s
    /\ UNCHANGED <<wVars, wire, rVars>>

\* Mutant: the packet number goes on.
BeginPacketKeepingSeq ==
    /\ ~open /\ Len(ends) < MaxMsgs
    /\ open' = TRUE /\ wpos' = headerSize
    /\ UNCHANGED <<packetSize, wPacketSeq, todo, flushed, ends, wire, rVars>>

BeginPacket ==
    /\ ~open /\ Len(ends) < MaxMsgs
    /\ open' = TRUE /\ wpos' = headerSize /\ wPacketSeq' = 1 % SeqMod
    /\ UNCHANGED <<packetSize, todo, flushed, ends, wire, rVars>>

\* flush of a packet that holds the bytes up to hi
flush(hi, last) ==
    /\ wire' = Append(wire,
         [seq |-> wPacketSeq, final |-> last,
          lo |-> flushed, hi |-> hi, msg |-> Len(ends) + 1])
    /\ flushed' = hi
    /\ wPacketSeq' = (wPacketSeq + 1) % SeqMod

\* Write is called with k bytes.
Write(k) ==
    /\ open /\ todo = 0 /\ written + k <= MaxBytes
    /\ todo' = k
    /\ UNCHANGED <<packetSize, wpos, wPacketSeq, open, flushed, ends,
                   wire, rVars>>

\* Mutant: every packet is marked as the last.
CopyMarked ==
    LET copied == Lesser(todo, packetSize - wpos)
    IN  /\ todo > 0
        /\ todo' = todo - copied
        /\ IF copied = todo
             THEN wpos' = wpos + copied /\ UNCHANGED <<flushed, wire, wPacketSeq>>
             ELSE wpos' = headerSize /\ flush(written + copied, TRUE)
        /\ UNCHANGED <<packetSize, open, ends, rVars>>

\* A round of the loop in Write: copy what fits, and flush unless that was all.
Copy ==
    LET copied == Lesser(todo, packetSize - wpos)
    IN  /\ todo > 0
        /\ todo' = todo - copied
        /\ IF copied = todo
             THEN wpos' = wpos + copied /\ UNCHANGED <<flushed, wire, wPacketSeq>>
             ELSE wpos' = headerSize /\ flush(written + copied, FALSE)
        /\ UNCHANGED <<packetSize, open, ends, rVars>>

\* WriteByte: a full packet is sent first.
WriteByte ==
    /\ open /\ todo = 0 /\ written < MaxBytes
    /\ IF wpos = packetSize
         THEN wpos' = headerSize + 1 /\ flush(written, FALSE)
         ELSE wpos' = wpos + 1 /\ UNCHANGED <<flushed, wire, wPacketSeq>>
    /\ UNCHANGED <<packetSize, open, todo, ends, rVars>>

FinishPacket ==
    /\ open /\ todo = 0
    /\ flush(written, TRUE)
    /\ wpos' = headerSize /\ open' = FALSE /\ ends' = Append(ends, written)
    /\ UNCHANGED <<packetSize, todo, rVars>>

-----------------------------------------------------------------------------
(* The reader.                                                              *)

\* Mutant: rpos is not set back.
NextPacketKeepingPos(k) ==
    /\ wire # <<>> /\ Size(Head(wire)) <= packetSize
    /\ wire' = Tail(wire) /\ rbuf' = Head(wire)
    /\ rpos' = rpos + k /\ got' = Head(wire).lo + k

\* readNextPacket has put the packet into rbuf; then k bytes are taken.
NextPacket(k) ==
    /\ wire # <<>> /\ Size(Head(wire)) <= packetSize
    /\ wire' = Tail(wire) /\ rbuf' = Head(wire)
    /\ rpos' = headerSize + k /\ got' = Head(wire).lo + k

\* k bytes are taken from rbuf.
Take(k) ==
    /\ rpos' = rpos + k /\ got' = rbuf.lo + (rpos - headerSize) + k
    /\ UNCHANGED <<wire, rbuf>>

\* BeginRead: what is left of the last packet of a message is dropped.
BeginRead ==
    /\ rbuf.final /\ need = 0
    /\ NextPacket(0)
    /\ rmsg' = rmsg + 1
    /\ UNCHANGED <<packetSize, wVars, need>>

\* ReadByte: the byte at rpos is delivered, whether or not the packet that has
\* been read for it holds one.
ReadByte ==
    /\ need = 0 /\ ~EndOfMessage
    /\ IF EndOfPacket THEN NextPacket(1) ELSE Take(1)
    /\ UNCHANGED <<packetSize, wVars, need, rmsg>>

\* Mutant: off by one in the test whether rbuf holds enough.
ReadIntTooFar(k) ==
    /\ need = 0
    /\ IF rpos + (k - 1) > rsize
         THEN need' = k /\ UNCHANGED <<rpos, got, wire, rbuf>>
         ELSE Take(k) /\ UNCHANGED need
    /\ UNCHANGED <<packetSize, wVars, rmsg>>

\* uint16, uint32 and uint64: directly from rbuf, or by ReadFull.
ReadInt(k) ==
    /\ need = 0
    /\ IF rpos + (k - 1) >= rsize
         THEN need' = k /\ UNCHANGED <<rpos, got, wire, rbuf>>
         ELSE Take(k) /\ UNCHANGED need
    /\ UNCHANGED <<packetSize, wVars, rmsg>>

\* A Read in ReadFull, from rbuf or from the next packet; at the end of the
\* message it fails (badStreamPanic).
ReadMore ==
    /\ need > 0
    /\ \/ /\ EndOfMessage
          /\ need' = 0 /\ UNCHANGED <<wire, rbuf, rpos, got>>
       \/ /\ EndOfPacket /\ ~rbuf.final /\ wire # <<>>
          /\ LET copied == Lesser(need, Size(Head(wire)) - headerSize)
             IN  NextPacket(copied) /\ need' = need - copied
       \/ /\ ~EndOfPacket
          /\ LET copied == Lesser(need, rsize - rpos)
             IN  Take(copied) /\ need' = need - copied
    /\ UNCHANGED <<packetSize, wVars, rmsg>>

Next ==
    \/ \E s \in PacketSizes : Resize(s)
    \/ \E k \in 0..MaxWrite : Write(k)
    \/ BeginPacket \/ Copy \/ WriteByte \/ FinishPacket
    \/ BeginRead \/ ReadByte \/ ReadMore
    \/ \E k \in {2, 4, 8} : ReadInt(k)

Spec == Init /\ [][Next]_vars

-----------------------------------------------------------------------------
(* Properties.                                                              *)

\* The reader is never past the end of its packet, so it never delivers what an
\* earlier packet has left in rbuf: ReadByte finds a byte in the packet it has
\* asked for, and the integers that are read directly are all in the packet.
WithinPacket == rpos <= rsize

\* A message that is read to its end has been read as it was written, neither
\* cut short nor run together with the next (FinishPacket, final).
MessagesKept ==
    rbuf.final /\ rmsg > 0 => rmsg <= Len(ends) /\ rbuf.hi = ends[rmsg]

\* Within a message the bytes are delivered in the order in which they were
\* written, none twice and none left out, also across packets.
InOrder ==
    [][rmsg' = rmsg =>
         got' = got + IF rbuf' = rbuf THEN rpos' - rpos ELSE rpos' - headerSize]_vars

\* What a packet b is like after a: the first of a message has number 1; one
\* that continues a message is not empty.
Follows(a, b) ==
    /\ b.lo = a.hi
    /\ IF a.final THEN b.seq = 1 % SeqMod
       ELSE b.hi > b.lo /\ b.seq = (a.seq + 1) % SeqMod

\* The packet that is read before wire[i].
Before(i) == IF i = 1 THEN rbuf ELSE wire[i - 1]

\* Every packet fits the reader's buffer, only the last of a message is not
\* full, and each follows the one before it, however the message was written.
WellFramed ==
    \A i \in 1..Len(wire) :
        /\ Size(wire[i]) <= packetSize
        /\ ~wire[i].final => Size(wire[i]) = packetSize
        /\ Follows(Before(i), wire[i])
=============================================================================
