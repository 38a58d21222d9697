--------------------------- MODULE SessionProofs ---------------------------
(***************************************************************************)
(* Proofs about module Session, for every channel capacity and for every   *)
(* number of requests and of tokens in a reply.                            *)
(***************************************************************************)
EXTENDS Session, SequenceTheorems, TLAPS

USE CapAssumption, MaxReqAssumption, MaxToksAssumption

-----------------------------------------------------------------------------
(* Sequences of tokens.                                                     *)

\* Appending keeps a queue of tokens one, and what it holds.
LEMMA AppendToken ==
    ASSUME NEW s \in Seq(Token), NEW r \in Nat, NEW k \in Kind
    PROVE  LET t == Append(s, [req |-> r, kind |-> k])
           IN  /\ t \in Seq(Token) /\ Len(t) = Len(s) + 1
               /\ \A x : Holds(t, x) <=> Holds(s, x) \/ x = k
               /\ \A q : AllOf(t, q) <=> AllOf(s, q) /\ q = r
BY DEF Token, Holds, AllOf

\* Taking the first token keeps a queue of tokens one, and what the rest holds.
LEMMA TailToken ==
    ASSUME NEW s \in Seq(Token), s # <<>>
    PROVE  /\ Head(s) \in Token /\ Tail(s) \in Seq(Token)
           /\ Len(Tail(s)) = Len(s) - 1
           /\ \A x : Holds(s, x) <=> Holds(Tail(s), x) \/ x = Head(s).kind
           /\ \A q : AllOf(s, q) <=> AllOf(Tail(s), q) /\ q = Head(s).req
<1>1. /\ Head(s) \in Token /\ Tail(s) \in Seq(Token)
      /\ Len(Tail(s)) = Len(s) - 1 /\ Len(s) \in Nat \ {0}
  OBVIOUS
<1>2. Head(s) = s[1] /\ \A i \in 1..Len(Tail(s)) : Tail(s)[i] = s[i + 1]
  OBVIOUS
<1>3. \A i \in 1..Len(s) : i = 1 \/ i - 1 \in 1..Len(Tail(s))
  BY <1>1
<1>4. ASSUME NEW i \in 1..Len(s), i # 1
      PROVE  \E j \in 1..Len(Tail(s)) : s[i] = Tail(s)[j]
  <2>1. i - 1 \in 1..Len(Tail(s)) /\ (i - 1) + 1 = i
    BY <1>3, <1>4
  <2> QED  BY <2>1, <1>2, Zenon
<1>5. \A j \in 1..Len(Tail(s)) : j + 1 \in 1..Len(s)
  BY <1>1
<1>6. 1 \in 1..Len(s)
  BY <1>1
<1>7. ASSUME NEW x
      PROVE  Holds(s, x) <=> Holds(Tail(s), x) \/ x = Head(s).kind
  <2>1. ASSUME Holds(s, x), x # Head(s).kind  PROVE Holds(Tail(s), x)
    <3>1. PICK i \in 1..Len(s) : s[i].kind = x
      BY <2>1, Zenon DEF Holds
    <3> QED  BY <2>1, <3>1, <1>2, <1>4, Zenon DEF Holds
  <2>2. ASSUME Holds(Tail(s), x)  PROVE Holds(s, x)
    BY <2>2, <1>2, <1>5, Zenon DEF Holds
  <2>3. ASSUME x = Head(s).kind  PROVE Holds(s, x)
    BY <2>3, <1>2, <1>6, Zenon DEF Holds
  <2> QED  BY <2>1, <2>2, <2>3, Zenon
<1>8. ASSUME NEW q
      PROVE  AllOf(s, q) <=> AllOf(Tail(s), q) /\ q = Head(s).req
  <2>1. ASSUME AllOf(s, q)  PROVE AllOf(Tail(s), q) /\ q = Head(s).req
    BY <2>1, <1>2, <1>5, <1>6, Zenon DEF AllOf
  <2>2. ASSUME AllOf(Tail(s), q), q = Head(s).req  PROVE AllOf(s, q)
    BY <2>2, <1>2, <1>4, Zenon DEF AllOf
  <2> QED  BY <2>1, <2>2, Zenon
<1> QED  BY <1>1, <1>7, <1>8, Zenon

\* The empty queue holds nothing.
LEMMA EmptyQueue ==
    /\ <<>> \in Seq(Token) /\ Len(<<>>) = 0
    /\ \A x : ~Holds(<<>>, x)
    /\ \A q : AllOf(<<>>, q)
BY DEF Holds, AllOf
-----------------------------------------------------------------------------
(* Type correctness.                                                        *)

\* The flags stay Boolean in every step.
LEMMA FlagsInvariant ==
    ASSUME Flags, [Next]_vars  PROVE Flags'
<1> USE DEF Flags, callVars, readVars, ReaderIdle
<1>1. ASSUME Reader  PROVE Flags'
  BY <1>1, Zenon DEF Reader, ReadToken, ReadDone, ReadSrvError, ReadAttn, ReadFails, ReadTimesOut, RowFails, ReaderExit, BackgroundDrain
<1>2. ASSUME Caller  PROVE Flags'
  BY <1>2, Zenon DEF Caller, StartReading, StartResponseReader, NextTokenPoll, NextTokenWait, NextTokenCtxDone,
    DrainToken, DrainClosed, SecondResponse, DrainFails, TakeToken, ReturnToken, ReturnError, CheckBadConn, EnterClose,
    IterateResponse, ProcessQueryResponse, RowsNextToken, RowsCloseToken
<1>3. ASSUME Application  PROVE Flags'
  BY <1>3, Zenon DEF Application, SendRequest, RowsNext, RowsNextResultSet, RowsClose, Cancel, ConnClose, EnterClose
<1>4. ASSUME NetFails \/ UNCHANGED vars  PROVE Flags'
  BY <1>4, Zenon DEF NetFails, vars
<1> QED  BY <1>1, <1>2, <1>3, <1>4, Zenon DEF Next

\* The other variables have their types at the start ...
LEMMA ShapesInit == Init => Shapes
BY DEF Init, Shapes

\* What the reader's send on tokChan does to the channel.
LEMMA SendToken ==
    ASSUME Shapes, NEW r \in Nat, NEW k \in Kind, Send(r, k)
    PROVE  /\ chan' \in Seq(Token) /\ Len(chan') <= Cap
           /\ \A x : Holds(chan', x) <=> Holds(chan, x) \/ x = k
           /\ \A q : AllOf(chan', q) <=> AllOf(chan, q) /\ q = r
<1>1. chan \in Seq(Token) /\ Len(chan) < Cap
  BY Zenon DEF Shapes, Send
<1>2. Len(chan) + 1 <= Cap
  BY <1>1
<1> QED  BY <1>1, <1>2, AppendToken, Zenon DEF Send

\* The first message the server owes.
LEMMA FirstOwed ==
    ASSUME Shapes, owed # <<>>
    PROVE  Head(owed).req \in Nat /\ Tail(owed) \in Seq(Message)
<1>1. Head(owed) \in Message /\ Tail(owed) \in Seq(Message)
  BY DEF Shapes
<1> QED  BY <1>1, Zenon DEF Message

\* One more message that it owes.
LEMMA AppendOwed ==
    ASSUME Shapes, NEW r \in Nat
    PROVE  /\ Append(owed, Reply(r)) \in Seq(Message)
           /\ Append(owed, Ack(r)) \in Seq(Message)
<1>1. Reply(r) \in Message /\ Ack(r) \in Message
  BY Zenon DEF Message, Reply, Ack
<1>2. owed \in Seq(Message)
  BY Zenon DEF Shapes
<1> QED  BY <1>1, <1>2

\* Only the reader and its channel change.
LEMMA ShapesSend ==
    ASSUME Shapes, UNCHANGED callVars, escaped' \subseteq {"close", "cut", "late"},
           owed' \in Seq(Message), net' \in {"up", "down"},
           rd' \in {"none", "read", "close"}, budget' \in 0..MaxToks,
           chan' \in Seq(Token), Len(chan') <= Cap
    PROVE  Shapes'
BY Zenon DEF Shapes, callVars

\* ... the steps of the reader goroutine keep them ...
LEMMA ShapesReader ==
    ASSUME Shapes, Reader  PROVE Shapes'
<1> USE SendToken, FirstOwed, ShapesSend DEF Kind, NonFinal, Final, Fatal
<1>1. ASSUME NEW k \in NonFinal, ReadToken(k)  PROVE Shapes'
  <2>1. budget' \in 0..MaxToks
    BY <1>1 DEF ReadToken, Shapes
  <2>2. chan' \in Seq(Token) /\ Len(chan') <= Cap
    BY <1>1, Zenon DEF ReadToken
  <2> QED  BY <1>1, <2>1, <2>2, Zenon DEF ReadToken, Shapes
<1>2. ASSUME NEW k \in Final, ReadDone(k)  PROVE Shapes'
  BY <1>2, Zenon DEF ReadDone, Shapes
<1>3. CASE ReadSrvError
  BY <1>3, Zenon DEF ReadSrvError, Shapes
<1>4. CASE ReadAttn
  <2>1. chan' \in Seq(Token) /\ Len(chan') <= Cap
    BY <1>4, Zenon DEF ReadAttn
  <2>2. owed' \in Seq(Message)
    <3>1. CASE owed' = Tail(owed)
      BY <1>4, <3>1, Zenon DEF ReadAttn
    <3>2. CASE Len(owed) > 1 /\ owed' = Tail(Tail(owed))
      <4>1. owed \in Seq(Message) /\ Len(owed) \in Nat
        BY DEF Shapes
      <4>2. Tail(owed) \in Seq(Message) /\ Len(Tail(owed)) = Len(owed) - 1
        BY <3>2, <4>1
      <4>3. Tail(owed) # <<>>
        BY <3>2, <4>1, <4>2
      <4> QED  BY <3>2, <4>2, <4>3
    <3> QED  BY <1>4, <3>1, <3>2, Zenon DEF ReadAttn
  <2> QED  BY <1>4, <2>1, <2>2, Zenon DEF ReadAttn, Shapes
<1>5. CASE ReadFails \/ ReadTimesOut
  <2>1. req \in Nat
    BY DEF Shapes
  <2> QED  BY <1>5, <2>1, Zenon DEF ReadFails, ReadTimesOut, Shapes
<1>6. CASE RowFails
  BY <1>6, Zenon DEF RowFails, Shapes
<1>7. CASE ReaderExit
  BY <1>7, Zenon DEF ReaderExit, Shapes
<1>8. CASE BackgroundDrain
  BY <1>8, TailToken DEF BackgroundDrain, Shapes
<1> QED  BY <1>1, <1>2, <1>3, <1>4, <1>5, <1>6, <1>7, <1>8, Zenon DEF Reader

\* The types of the caller's variables, after what its calls do with a token
\* or an error.
CallShapes ==
    /\ req \in 0..MaxReq
    /\ mode \in {"none", "exec", "rollback", "query", "next", "close"}
    /\ pc \in {"free", "start", "poll", "wait", "drain", "start2", "drain2",
               "rows", "closed"}
    /\ ctx \in {"live"} \cup CtxErr
    /\ result \in {"none", "ok", "err"}
    /\ escaped \subseteq {"close", "cut", "late"}

\* ... what a call does with a token or an error ...
LEMMA ReturnShapes ==
    ASSUME Shapes, NEW k, ReturnError(k) \/ ReturnToken(k)
    PROVE  CallShapes'
<1>1. CASE ReturnError(k)
  BY <1>1, Zenon DEF ReturnError, EnterClose, Cancelled, Outcome, CtxErr, Shapes, CallShapes
<1>2. CASE ReturnToken(k)
  BY <1>2, Zenon DEF ReturnToken, IterateResponse, ProcessQueryResponse,
     RowsNextToken, RowsCloseToken, EnterClose, Cancelled, Outcome, CtxErr,
     Shapes, CallShapes
<1> QED  BY <1>1, <1>2, Zenon

\* ... the other steps of the caller ...
LEMMA ShapesCaller ==
    ASSUME Shapes, Caller  PROVE Shapes'
<1>1. ASSUME TakeToken, UNCHANGED ReaderIdle  PROVE Shapes'
  <2>1. CallShapes'
    BY <1>1, ReturnShapes, Zenon DEF TakeToken
  <2>2. chan' \in Seq(Token) /\ Len(chan') <= Cap
    <3>1. chan' = chan \/ (chan # <<>> /\ chan' = Tail(chan))
      BY <1>1, Zenon DEF TakeToken
    <3> QED  BY <3>1, TailToken DEF Shapes
  <2> QED  BY <1>1, <2>1, <2>2, Zenon DEF Shapes, CallShapes, ReaderIdle
<1>2. CASE NextTokenPoll
  BY <1>1, <1>2, Zenon DEF NextTokenPoll, Shapes, ReaderIdle
<1>3. CASE NextTokenWait
  BY <1>1, <1>3, Zenon DEF NextTokenWait
<1>4. CASE NextTokenCtxDone
  <2>1. CallShapes'
    BY <1>4, ReturnShapes, Zenon DEF NextTokenCtxDone, Shapes, CallShapes
  <2>2. owed' \in Seq(Message)
    <3>1. req \in Nat
      BY DEF Shapes
    <3> QED  BY <1>4, <3>1, AppendOwed, Zenon DEF NextTokenCtxDone, Shapes, readVars
  <2> QED  BY <1>4, <2>1, <2>2, Zenon DEF NextTokenCtxDone, Shapes, CallShapes, readVars
<1>5. CASE DrainToken
  <2>1. CallShapes'
    BY <1>5, ReturnShapes, Zenon DEF DrainToken, Shapes, CallShapes
  <2>2. chan' \in Seq(Token) /\ Len(chan') <= Cap
    BY <1>5, TailToken DEF DrainToken, Shapes
  <2> QED  BY <1>5, <2>1, <2>2, Zenon DEF DrainToken, Shapes, CallShapes
<1>6. CASE DrainFails
  BY <1>6, ReturnShapes, Zenon DEF DrainFails, Shapes, CallShapes
<1>7. CASE DrainClosed
  BY <1>7, Zenon DEF DrainClosed, Shapes, readVars
<1>8. CASE SecondResponse
  BY <1>8, EmptyQueue DEF SecondResponse, StartResponseReader, Shapes
<1>9. CASE StartReading
  <2>1. escaped' \subseteq {"close", "cut", "late"}
    BY <1>9, Zenon DEF StartReading, Shapes
  <2> QED  BY <1>9, <2>1, EmptyQueue
             DEF StartReading, StartResponseReader, Shapes
<1> QED  BY <1>2, <1>3, <1>4, <1>5, <1>6, <1>7, <1>8, <1>9, Zenon DEF Caller

\* ... and the calls that the application makes.
LEMMA ShapesApplication ==
    ASSUME Shapes, Application  PROVE Shapes'
<1>1. ASSUME NEW m \in {"exec", "rollback", "query"},
             NEW c \in {"live"} \cup CtxErr, SendRequest(m, c)
      PROVE  Shapes'
  <2>1. req' \in 0..MaxReq /\ req + 1 \in Nat
    BY <1>1 DEF SendRequest, Shapes
  <2>2. owed' \in Seq(Message)
    BY <1>1, <2>1, AppendOwed, Zenon DEF SendRequest, Shapes
  <2> QED  BY <1>1, <2>1, <2>2, Zenon DEF SendRequest, Shapes
<1>2. CASE RowsNext \/ RowsNextResultSet \/ RowsClose
  BY <1>2, Zenon DEF RowsNext, RowsNextResultSet, RowsClose, EnterClose, Cancelled,
     CtxErr, Shapes, readVars
<1>3. ASSUME NEW e \in CtxErr, Cancel(e)  PROVE Shapes'
  BY <1>3 DEF Cancel, Shapes, readVars
<1>4. CASE ConnClose
  BY <1>4, Zenon DEF ConnClose, Shapes
<1> QED  BY <1>1, <1>2, <1>3, <1>4, Zenon DEF Application

\* Every variable has its type in every reachable state; in particular the
\* reader never has more than Cap tokens in tokChan.
THEOREM TypeCorrect == Spec => []TypeOK
<1>1. Init => TypeOK
  <2>1. Init => Flags
    BY Zenon DEF Init, Flags
  <2> QED  BY <2>1, ShapesInit, Zenon DEF TypeOK
<1>2. TypeOK /\ [Next]_vars => TypeOK'
  <2> SUFFICES ASSUME TypeOK, [Next]_vars  PROVE TypeOK'
    BY Zenon
  <2>1. Flags'
    BY FlagsInvariant, Zenon DEF TypeOK
  <2>2. CASE NetFails
    <3>1. Shapes'
      BY <2>2 DEF TypeOK, Shapes, NetFails, callVars
    <3> QED  BY <2>1, <3>1, Zenon DEF TypeOK
  <2>3. CASE UNCHANGED vars
    <3>1. Shapes'
      BY <2>3 DEF TypeOK, Shapes, vars, callVars, readVars
    <3> QED  BY <2>1, <3>1, Zenon DEF TypeOK
  <2> QED  BY <2>1, <2>2, <2>3, ShapesReader, ShapesCaller, ShapesApplication, Zenon
             DEF TypeOK, Next
<1> QED  BY <1>1, <1>2, PTL DEF Spec

-----------------------------------------------------------------------------
(* Requests and replies stay in step.                                       *)

\* Nothing follows the confirmation of an attention in a channel.
AttnLast(s) == \A i \in 1..(Len(s) - 1) : s[i].kind # "attn"

\* What the server still owes to a call answers it.
OwedOwn == Reading /\ escaped = {} /\ net = "up" => AllOf(owed, req)

\* The reader stops at the confirmation and at a failed read, and closes its
\* channel last.
ReaderInv ==
    /\ rd = "read" => ~AttnQueued /\ ~NetErrQueued
    /\ closed => rd = "none"
    /\ AttnLast(chan)

\* A second response is read once the first channel is drained; an abandoned
\* channel belongs to a connection that is given up.
CallerInv ==
    /\ pc = "start" => good
    /\ pc = "start2" => closed /\ chan = <<>>
    /\ drainer => ~good \/ escaped # {}
    /\ /\ pc \in {"poll", "wait", "rows"} /\ old
       /\ good /\ escaped = {}
       => rd # "read" /\ chan = <<>>

IInv == /\ TypeOK /\ ReaderInv /\ CallerInv
        /\ OwnTokensOnly /\ OwedOwn
        /\ OwedInStep /\ PooledIsClean /\ SuccessIsComplete

\* The fields of the messages the server owes.
LEMMA Messages ==
    /\ \A r : Reply(r).req = r /\ Reply(r).type = "reply"
    /\ \A r : Ack(r).req = r /\ Ack(r).type = "ack"
BY Zenon DEF Reply, Ack

\* A second message after a first.
LEMMA AppendToOne ==
    ASSUME NEW a, NEW b  PROVE Append(<<a>>, b) = <<a, b>>
<1>1. PICK S : S = {a, b}
  BY Zenon
<1>2. PICK s : s = <<a>>
  BY Zenon
<1>3. PICK t : t = <<a, b>>
  BY Zenon
<1>4. s \in Seq(S) /\ Len(s) = 1 /\ s[1] = a
  BY <1>1, <1>2
<1>5. t \in Seq(S) /\ Len(t) = 2 /\ t[1] = a /\ t[2] = b
  BY <1>1, <1>3
<1>6. PICK u : u = Append(s, b)
  BY Zenon
<1>7. b \in S
  BY <1>1, Zenon
<1>8. u \in Seq(S) /\ Len(u) = 2 /\ u[1] = a /\ u[2] = b
  <2>1. u \in Seq(S) /\ Len(u) = Len(s) + 1
    BY <1>4, <1>6, <1>7, AppendProperties, Zenon
  <2>2. u[Len(s) + 1] = b
    BY <1>4, <1>6, <1>7, AppendProperties, Zenon
  <2>3. \A i \in 1..Len(s) : u[i] = s[i]
    BY <1>4, <1>6, <1>7
  <2>4. Len(s) + 1 = 2 /\ 1 \in 1..Len(s)
    BY <1>4
  <2> QED  BY <1>4, <2>1, <2>2, <2>3, <2>4, Zenon
<1>9. \A i \in 1..2 : u[i] = t[i]
  BY <1>5, <1>8
<1>10. u = t
  BY <1>5, <1>8, <1>9, SeqEqual, Zenon
<1> QED  BY <1>2, <1>3, <1>6, <1>10, Zenon

\* Queues of one and of two messages.
LEMMA Tuples ==
    ASSUME NEW a, NEW b
    PROVE  /\ Len(<<a>>) = 1 /\ Head(<<a>>) = a /\ Tail(<<a>>) = <<>>
           /\ Len(<<a, b>>) = 2 /\ Head(<<a, b>>) = a /\ Tail(<<a, b>>) = <<b>>
           /\ <<a, b>>[1] = a /\ <<a, b>>[2] = b
           /\ <<a>> # <<>> /\ <<a, b>> # <<>> /\ <<a>> # <<a, b>>
           /\ Append(<<>>, a) = <<a>> /\ Append(<<a>>, b) = <<a, b>>
<1>1. Len(<<a>>) = 1 /\ Head(<<a>>) = a
  OBVIOUS
<1>2. Tail(<<a>>) = <<>>
  OBVIOUS
<1>3. Len(<<a, b>>) = 2 /\ Head(<<a, b>>) = a
  OBVIOUS
<1>4. Tail(<<a, b>>) = <<b>>
  OBVIOUS
<1>5. <<a, b>>[1] = a /\ <<a, b>>[2] = b
  BY Zenon
<1>6. <<a>> # <<>> /\ <<a, b>> # <<>>
  BY Zenon
<1>7. <<a>> # <<a, b>>
  BY Zenon
<1>8. Append(<<>>, a) = <<a>>
  OBVIOUS
<1>9. Append(<<a>>, b) = <<a, b>>
  BY <1>1, AppendToOne, Zenon
<1> QED  BY <1>1, <1>2, <1>3, <1>4, <1>5, <1>6, <1>7, <1>8, <1>9, Zenon

\* A token sent before any confirmation leaves the confirmation last.
LEMMA AttnLastSend ==
    ASSUME Shapes, NEW r \in Nat, NEW k \in Kind, Send(r, k), ~AttnQueued
    PROVE  AttnLast(chan')
<1>1. chan \in Seq(Token) /\ Len(chan) \in Nat
  BY DEF Shapes
<1>2. /\ Len(chan') = Len(chan) + 1
      /\ \A i \in 1..Len(chan) : chan'[i] = chan[i]
  BY <1>1 DEF Send
<1>3. (Len(chan) + 1) - 1 = Len(chan)
  BY <1>1
<1> QED  BY <1>2, <1>3, Zenon DEF AttnLast, AttnQueued, Holds

\* Taking a token leaves it last, and nothing follows it.
LEMMA AttnLastTail ==
    ASSUME Shapes, AttnLast(chan), chan # <<>>
    PROVE  /\ AttnLast(Tail(chan))
           /\ Head(chan).kind = "attn" => Tail(chan) = <<>>
<1>1. chan \in Seq(Token) /\ Len(chan) \in Nat \ {0}
  BY DEF Shapes
<1>2. /\ Tail(chan) \in Seq(Token) /\ Len(Tail(chan)) = Len(chan) - 1
      /\ Head(chan) = chan[1]
      /\ \A i \in 1..Len(Tail(chan)) : Tail(chan)[i] = chan[i + 1]
  BY <1>1
<1>3. \A i \in 1..(Len(Tail(chan)) - 1) :
         i + 1 \in 1..(Len(chan) - 1) /\ i \in 1..Len(Tail(chan))
  BY <1>1, <1>2
<1>4. AttnLast(Tail(chan))
  BY <1>2, <1>3, Zenon DEF AttnLast
<1>5. ASSUME Head(chan).kind = "attn"  PROVE Tail(chan) = <<>>
  <2>1. 1 \notin 1..(Len(chan) - 1)
    BY <1>2, <1>5, Zenon DEF AttnLast
  <2>2. \A n \in Nat \ {0} : 1 \notin 1..(n - 1) => n = 1
    OBVIOUS
  <2>3. Len(Tail(chan)) = 0
    BY <2>1, <2>2, <1>1, <1>2
  <2> QED  BY <2>3, <1>2
<1> QED  BY <1>4, <1>5, Zenon

\* What answers a call after its first owed message still answers it.
LEMMA OwedHead ==
    ASSUME Shapes, owed # <<>>, NEW q, AllOf(owed, q)
    PROVE  Head(owed).req = q /\ AllOf(Tail(owed), q)
<1>1. owed \in Seq(Message) /\ Len(owed) \in Nat \ {0}
  BY DEF Shapes
<1>2. Head(owed) = owed[1] /\ 1 \in 1..Len(owed)
  BY <1>1
<1>3. \A i \in 1..Len(Tail(owed)) :
         i + 1 \in 1..Len(owed) /\ Tail(owed)[i] = owed[i + 1]
  BY <1>1
<1> QED  BY <1>2, <1>3, Zenon DEF AllOf

\* The confirmation that an attention asks for is owed to the same call.
LEMMA OwedAck ==
    ASSUME Shapes, AllOf(owed, req)  PROVE AllOf(Append(owed, Ack(req)), req)
<1>1. owed \in Seq(Message) /\ Len(owed) \in Nat /\ Ack(req) \in Message
  BY DEF Shapes, Message, Ack
<1>2. PICK a \in Message : a = Ack(req)
  BY <1>1, Zenon
<1>3. PICK t : t = Append(owed, a)
  BY Zenon
<1>4. Len(t) = Len(owed) + 1
  BY <1>1, <1>2, <1>3
<1>5. \A i \in 1..Len(owed) : t[i] = owed[i]
  BY <1>1, <1>2, <1>3
<1>6. t[Len(owed) + 1] = a
  BY <1>1, <1>2, <1>3
<1>7. \A i \in 1..(Len(owed) + 1) : i \in 1..Len(owed) \/ i = Len(owed) + 1
  BY <1>1
<1>8. AllOf(t, req)
  BY <1>2, <1>4, <1>5, <1>6, <1>7, Messages DEF AllOf
<1> QED  BY <1>2, <1>3, <1>8, Zenon

\* The same for the second message.
LEMMA OwedTwice ==
    ASSUME Shapes, Len(owed) > 1, NEW q, AllOf(Tail(owed), q)
    PROVE  AllOf(Tail(Tail(owed)), q)
<1>1. PICK t : t = Tail(owed)
  BY Zenon
<1>2. owed \in Seq(Message) /\ Len(owed) \in Nat
  BY DEF Shapes
<1>3. t \in Seq(Message) /\ Len(t) = Len(owed) - 1
  BY <1>1, <1>2
<1>4. t # <<>>
  BY <1>2, <1>3
<1>5. \A i \in 1..Len(Tail(t)) : i + 1 \in 1..Len(t) /\ Tail(t)[i] = t[i + 1]
  BY <1>3, <1>4
<1> QED  BY <1>1, <1>5, Zenon DEF AllOf

\* The reader goroutine keeps the invariant.
LEMMA StepReader ==
    ASSUME IInv, Reader, TypeOK'  PROVE IInv'
<1> USE DEF IInv, TypeOK
<1>1. ASSUME NEW k \in NonFinal, ReadToken(k)  PROVE IInv'
  <2>1. PICK r \in Nat : r = Head(owed).req /\ Send(r, k)
    BY <1>1, FirstOwed, Zenon DEF ReadToken
  <2>2. k \in Kind /\ k # "attn" /\ k # "neterr"
    BY Zenon DEF Kind, NonFinal
  <2>3. /\ AttnLast(chan')
        /\ \A x : Holds(chan', x) <=> Holds(chan, x) \/ x = k
        /\ \A q : AllOf(chan', q) <=> AllOf(chan, q) /\ q = r
    BY <1>1, <2>1, <2>2, SendToken, AttnLastSend, Zenon DEF ReadToken, ReaderInv
  <2>4. ReaderInv' /\ CallerInv'
    BY <1>1, <2>2, <2>3, Zenon DEF ReadToken, ReaderInv, CallerInv, AttnQueued, NetErrQueued, callVars
  <2>5. OwnTokensOnly' /\ OwedOwn'
    BY <1>1, <2>1, <2>3, OwedHead, Zenon DEF ReadToken, OwnTokensOnly, OwedOwn, Reading, callVars
  <2>6. OwedInStep'
    BY <1>1, <2>2, <2>3, Zenon DEF ReadToken, OwedInStep, Sound, AttnQueued, NetErrQueued, callVars
  <2>7. PooledIsClean' /\ SuccessIsComplete'
    BY <1>1, <2>2, <2>3, Zenon DEF ReadToken, PooledIsClean, SuccessIsComplete, Sound, NetErrQueued, callVars
  <2> QED  BY <2>4, <2>5, <2>6, <2>7, Zenon
<1>2. ASSUME NEW k \in Final \cup {"srverr", "rowerr"},
             rd = "read", net = "up", owed # <<>>, Head(owed).type = "reply",
             Send(Head(owed).req, k), owed' = Tail(owed), rd' = "close",
             UNCHANGED <<callVars, closed, drainer, escaped>>
      PROVE  IInv'
  <2>1. PICK r \in Nat : r = Head(owed).req /\ Send(r, k)
    BY <1>2, FirstOwed, Zenon
  <2>2. k \in Kind /\ k # "attn" /\ k # "neterr"
    BY Zenon DEF Kind, Final, Fatal
  <2>3. /\ AttnLast(chan')
        /\ \A x : Holds(chan', x) <=> Holds(chan, x) \/ x = k
        /\ \A q : AllOf(chan', q) <=> AllOf(chan, q) /\ q = r
    BY <1>2, <2>1, <2>2, SendToken, AttnLastSend, Zenon DEF ReaderInv
  <2>4. ReaderInv' /\ CallerInv'
    BY <1>2, <2>2, <2>3, Zenon DEF ReaderInv, CallerInv, AttnQueued, NetErrQueued, callVars
  <2>5. OwnTokensOnly' /\ OwedOwn'
    BY <1>2, <2>1, <2>3, OwedHead, Zenon DEF OwnTokensOnly, OwedOwn, Reading, callVars
  <2>6. OwedInStep'
    <3> SUFFICES ASSUME Sound'  PROVE OwedInStep'
      BY Zenon DEF OwedInStep
    <3>0. Sound /\ ~AttnQueued /\ ~AttnQueued'
      BY <1>2, <2>2, <2>3, Zenon DEF Sound, NetErrQueued, AttnQueued, callVars, ReaderInv
    <3>1. CASE pc = "start"
      <4>1. owed = <<Reply(req - 1), Reply(req)>>
        BY <1>2, <3>0, <3>1, Zenon DEF OwedInStep
      <4> QED  BY <1>2, <3>1, <4>1, Tuples DEF OwedInStep, callVars
    <3>2. CASE pc \in {"poll", "wait", "rows"}
      <4>1. owed = <<Reply(req)>>
        BY <1>2, <3>0, <3>2, Zenon DEF OwedInStep
      <4> QED  BY <1>2, <3>0, <3>2, <4>1, Tuples, Zenon DEF OwedInStep, callVars
    <3>3. CASE pc = "drain"
      <4>1. owed = <<Reply(req), Ack(req)>>
        BY <1>2, <3>0, <3>3, Zenon DEF OwedInStep
      <4> QED  BY <1>2, <3>0, <3>3, <4>1, Tuples DEF OwedInStep, callVars
    <3>4. CASE pc = "start2"
      BY <1>2, <3>4, Zenon DEF ReaderInv, CallerInv
    <3>5. CASE pc = "drain2"
      <4>1. owed = <<Ack(req)>>
        BY <1>2, <3>0, <3>5, Zenon DEF OwedInStep
      <4> QED  BY <1>2, <4>1, Tuples, Messages, Zenon
    <3>6. CASE pc \in {"free", "closed"}
      BY <1>2, <3>6, Zenon DEF OwedInStep, callVars
    <3> QED  BY <3>1, <3>2, <3>3, <3>4, <3>5, <3>6, Zenon DEF Shapes
  <2>7. PooledIsClean' /\ SuccessIsComplete'
    <3>1. SuccessIsComplete'
      BY <1>2, Zenon DEF SuccessIsComplete, callVars
    <3>2. ASSUME pc = "free", Sound'  PROVE owed' = <<>>
      <4>1. Sound
        BY <1>2, <2>2, <2>3, <3>2, Zenon DEF Sound, NetErrQueued, callVars
      <4>2. owed = <<Reply(req)>>
        BY <1>2, <3>2, <4>1, Zenon DEF PooledIsClean
      <4> QED  BY <1>2, <4>2, Tuples, Zenon
    <3> QED  BY <1>2, <3>1, <3>2, Zenon DEF PooledIsClean, callVars
  <2> QED  BY <2>4, <2>5, <2>6, <2>7, Zenon
<1>3. ASSUME NEW k \in Final, ReadDone(k)  PROVE IInv'
  BY <1>2, <1>3, Zenon DEF ReadDone
<1>4. CASE ReadSrvError
  BY <1>2, <1>4, Zenon DEF ReadSrvError
<1>5. CASE ReadAttn
  <2>1. PICK r \in Nat : r = Head(owed).req /\ Send(r, "attn")
    BY <1>5, FirstOwed, Zenon DEF ReadAttn
  <2>2. /\ AttnLast(chan')
        /\ \A x : Holds(chan', x) <=> Holds(chan, x) \/ x = "attn"
        /\ \A q : AllOf(chan', q) <=> AllOf(chan, q) /\ q = r
    BY <1>5, <2>1, SendToken, AttnLastSend, Zenon DEF ReadAttn, ReaderInv, Kind
  <2>3. ReaderInv' /\ CallerInv'
    BY <1>5, <2>2, Zenon DEF ReadAttn, ReaderInv, CallerInv, AttnQueued, callVars
  <2>4. OwnTokensOnly'
    BY <1>5, <2>1, <2>2, OwedHead, Zenon DEF ReadAttn, OwnTokensOnly, OwedOwn, Reading, callVars
  <2>5. OwedOwn'
    <3> SUFFICES ASSUME Reading, escaped = {}, net = "up"
                 PROVE  AllOf(owed', req)
      BY <1>5, Zenon DEF ReadAttn, OwedOwn, Reading, callVars
    <3>1. AllOf(Tail(owed), req)
      BY <1>5, OwedHead, Zenon DEF ReadAttn, OwedOwn
    <3>2. CASE Len(owed) > 1 /\ owed' = Tail(Tail(owed))
      BY <3>1, <3>2, OwedTwice, Zenon
    <3> QED  BY <1>5, <3>1, <3>2, Zenon DEF ReadAttn
  <2>6. Sound' => Sound /\ AttnQueued'
    BY <1>5, <2>2, Zenon DEF ReadAttn, Sound, NetErrQueued, AttnQueued, callVars
  <2>7. OwedInStep'
    <3> SUFFICES ASSUME Sound'  PROVE OwedInStep'
      BY Zenon DEF OwedInStep
    <3>1. CASE pc = "start"
      <4>1. owed = <<Reply(req - 1), Reply(req)>>
        BY <1>5, <2>6, <3>1, Zenon DEF OwedInStep, ReadAttn
      <4> QED  BY <1>5, <4>1, Tuples, Messages DEF ReadAttn
    <3>2. CASE pc \in {"poll", "wait", "rows"}
      <4>1. owed = <<Reply(req)>>
        BY <1>5, <2>6, <3>2, Zenon DEF OwedInStep, ReadAttn
      <4>2. Head(owed).type # "ack" /\ ~(Len(owed) > 1)
        BY <4>1, Tuples, Messages
      <4> QED  BY <1>5, <4>2, Zenon DEF ReadAttn
    <3>3. CASE pc = "drain"
      <4>1. owed = <<Reply(req), Ack(req)>>
        BY <1>5, <2>6, <3>3, Zenon DEF OwedInStep, ReadAttn, ReaderInv
      <4>2. owed' = <<>>
        <5>1. Head(owed).type # "ack"
          BY <4>1, Tuples, Messages
        <5>2. owed' = Tail(Tail(owed))
          BY <1>5, <5>1, Zenon DEF ReadAttn
        <5>3. Tail(owed) = <<Ack(req)>> /\ Tail(<<Ack(req)>>) = <<>>
          BY <4>1, Tuples
        <5> QED  BY <5>2, <5>3, Zenon
      <4> QED  BY <1>5, <2>6, <3>3, <4>2, Zenon DEF OwedInStep, ReadAttn, callVars
    <3>4. CASE pc = "start2"
      BY <1>5, <3>4, Zenon DEF ReadAttn, ReaderInv, CallerInv
    <3>5. CASE pc = "drain2"
      <4>1. owed = <<Ack(req)>>
        BY <1>5, <2>6, <3>5, Zenon DEF OwedInStep, ReadAttn
      <4>2. owed' = <<>>
        BY <1>5, <4>1, Tuples, Messages, Zenon DEF ReadAttn
      <4> QED  BY <1>5, <3>5, <4>2, Zenon DEF OwedInStep, ReadAttn, callVars
    <3>6. CASE pc \in {"free", "closed"}
      BY <1>5, <3>6, Zenon DEF OwedInStep, ReadAttn, callVars
    <3> QED  BY <3>1, <3>2, <3>3, <3>4, <3>5, <3>6, Zenon DEF Shapes
  <2>8. PooledIsClean' /\ SuccessIsComplete'
    <3>1. ASSUME pc = "free", Sound  PROVE FALSE
      <4>1. owed = <<Reply(req)>>
        BY <1>5, <3>1, Zenon DEF PooledIsClean, ReadAttn
      <4>2. Head(owed).type # "ack" /\ ~(Len(owed) > 1)
        BY <4>1, Tuples, Messages
      <4> QED  BY <1>5, <4>2, Zenon DEF ReadAttn
    <3> QED  BY <1>5, <2>6, <3>1, Zenon
               DEF ReadAttn, PooledIsClean, SuccessIsComplete, callVars
  <2> QED  BY <2>3, <2>4, <2>5, <2>7, <2>8, Zenon
<1>6. CASE ReadFails \/ ReadTimesOut
  <2>1. req \in Nat /\ Send(req, "neterr") /\ rd = "read" /\ rd' = "close"
    BY <1>6 DEF ReadFails, ReadTimesOut, Shapes
  <2>2. /\ AttnLast(chan')
        /\ \A x : Holds(chan', x) <=> Holds(chan, x) \/ x = "neterr"
        /\ \A q : AllOf(chan', q) <=> AllOf(chan, q) /\ q = req
    BY <2>1, SendToken, AttnLastSend, Zenon DEF ReaderInv, Kind, Fatal
  <2>3. ~Sound'
    BY <2>2, Zenon DEF Sound, NetErrQueued
  <2>4. UNCHANGED <<callVars, owed, net, closed, drainer, escaped>>
    BY <1>6, Zenon DEF ReadFails, ReadTimesOut
  <2>5. ReaderInv' /\ CallerInv'
    BY <2>1, <2>2, <2>4, Zenon DEF ReaderInv, CallerInv, callVars
  <2>6. OwnTokensOnly' /\ OwedOwn'
    BY <2>2, <2>4, Zenon DEF OwnTokensOnly, OwedOwn, Reading, callVars
  <2>7. OwedInStep' /\ PooledIsClean' /\ SuccessIsComplete'
    BY <2>1, <2>3, <2>4, Zenon
       DEF OwedInStep, PooledIsClean, SuccessIsComplete, callVars
  <2> QED  BY <2>5, <2>6, <2>7, Zenon
<1>7. CASE RowFails
  <2>1. CASE owed' = Tail(owed) /\ UNCHANGED escaped
    BY <1>2, <1>7, <2>1, Zenon DEF RowFails
  <2>2. CASE escaped' = escaped \cup {"cut"}
    <3>1. escaped' # {} /\ UNCHANGED callVars /\ rd = "read" /\ rd' = "close"
      BY <1>7, <2>2, Zenon DEF RowFails
    <3>2. AttnLast(chan')
      <4>1. PICK r \in Nat : Send(r, "rowerr")
        BY <1>7, FirstOwed, Zenon DEF RowFails
      <4> QED  BY <3>1, <4>1, AttnLastSend, Zenon DEF ReaderInv, Kind, Fatal
    <3>3. ReaderInv' /\ CallerInv'
      BY <1>7, <3>1, <3>2 DEF RowFails, ReaderInv, CallerInv, callVars
    <3> QED  BY <3>1, <3>3, Zenon DEF OwnTokensOnly, OwedOwn, OwedInStep,
                PooledIsClean, SuccessIsComplete, Sound
  <2> QED  BY <1>7, <2>1, <2>2, Zenon DEF RowFails
<1>8. CASE ReaderExit
  BY <1>8 DEF ReaderExit, ReaderInv, CallerInv, OwnTokensOnly, OwedOwn,
     OwedInStep, PooledIsClean, SuccessIsComplete, Sound, Reading, AttnQueued,
     NetErrQueued, callVars
<1>9. CASE BackgroundDrain
  <2>1. chan \in Seq(Token) /\ chan # <<>> /\ chan' = Tail(chan)
    BY <1>9, Zenon DEF BackgroundDrain, Shapes
  <2>2. /\ AttnLast(chan')
        /\ \A x : Holds(chan', x) => Holds(chan, x)
        /\ \A q : AllOf(chan, q) => AllOf(chan', q)
    BY <2>1, TailToken, AttnLastTail, Zenon DEF ReaderInv
  <2>3. ~good \/ escaped # {}
    BY <1>9, Zenon DEF BackgroundDrain, CallerInv
  <2>4. UNCHANGED <<callVars, owed, net, rd, closed, drainer, escaped>>
    BY <1>9, Zenon DEF BackgroundDrain
  <2>5. ReaderInv' /\ CallerInv'
    BY <2>1, <2>2, <2>3, <2>4, Zenon
       DEF ReaderInv, CallerInv, AttnQueued, NetErrQueued, callVars
  <2>6. OwnTokensOnly' /\ OwedOwn'
    BY <2>2, <2>4, Zenon DEF OwnTokensOnly, OwedOwn, Reading, callVars
  <2>7. OwedInStep' /\ PooledIsClean' /\ SuccessIsComplete'
    BY <2>3, <2>4, Zenon
       DEF OwedInStep, PooledIsClean, SuccessIsComplete, Sound, callVars
  <2> QED  BY <2>5, <2>6, <2>7, Zenon
<1> QED  BY <1>1, <1>3, <1>4, <1>5, <1>6, <1>7, <1>8, <1>9, Zenon DEF Reader

\* What a call does with a token changes neither the connection's state nor
\* its number, and only the end of the response lets it succeed.
LEMMA ReturnTokenEffect ==
    ASSUME Shapes, NEW k, ReturnToken(k)
    PROVE  /\ UNCHANGED <<req, good, old, escaped>>
           /\ pc' \in {"free", "poll", "rows"}
           /\ pc' = "free" /\ result' = "ok" => k = "nil"
BY Zenon DEF ReturnToken, IterateResponse, ProcessQueryResponse, RowsNextToken,
   RowsCloseToken, EnterClose, Outcome

\* An error never makes a connection good again; a broken connection is marked
\* bad or the error escapes through Rows.Close; only Rows.Close may succeed.
LEMMA ReturnErrorEffect ==
    ASSUME Shapes, NEW e, ReturnError(e)
    PROVE  /\ UNCHANGED <<req, old>>
           /\ pc' \in {"free", "poll"}
           /\ good' => good
           /\ escaped' = {} => escaped = {}
           /\ e \in BadErr \ CtxErr => ~good' \/ escaped' # {}
           /\ pc' = "free" /\ result' = "ok" => e \in CtxErr /\ mode = "close"
<1>1. CASE mode \in {"exec", "rollback", "query"}
  BY <1>1, Zenon DEF ReturnError, CheckBadConn
<1>2. CASE mode = "next"
  BY <1>2, Zenon DEF ReturnError, CheckBadConn, EnterClose
<1>3. CASE mode = "close"
  <2>1. /\ UNCHANGED <<req, old, good>> /\ pc' = "free"
        /\ result' = Outcome(e \notin CtxErr \/ firstErr)
        /\ escaped' = escaped \cup {x \in {"close"} : good /\ e \in BadErr \ CtxErr}
    BY <1>3, Zenon DEF ReturnError
  <2>2. result' = "ok" => e \in CtxErr
    BY <2>1, Zenon DEF Outcome
  <2>3. escaped' = {} => escaped = {}
    BY <2>1, Zenon
  <2>4. ASSUME e \in BadErr \ CtxErr, good'  PROVE escaped' # {}
    <3>1. "close" \in escaped'
      BY <2>1, <2>4, Zenon
    <3> QED  BY <3>1, Zenon
  <2> QED  BY <1>3, <2>1, <2>2, <2>3, <2>4, Zenon
<1> QED  BY <1>1, <1>2, <1>3, Zenon DEF ReturnError

\* nextToken gives the call a token, an error or the end of its response.
LEMMA StepTakeToken ==
    ASSUME IInv, TakeToken, UNCHANGED ReaderIdle, pc \in {"poll", "wait"},
           TypeOK'
    PROVE  IInv'
<1> USE DEF IInv, TypeOK
<1>1. UNCHANGED <<owed, net, rd, closed, drainer>>
  BY Zenon DEF ReaderIdle
<1>2. ASSUME ~old, chan # <<>>, chan' = Tail(chan), UNCHANGED <<req, old>>,
             pc' \in {"free", "poll", "rows"}, good' => good,
             escaped' = {} => escaped = {},
             Head(chan).kind = "neterr" => ~good' \/ escaped' # {},
             ~(pc' = "free" /\ result' = "ok")
      PROVE  IInv'
  <2>1. chan \in Seq(Token)
    BY Zenon DEF Shapes
  <2>2. /\ AttnLast(chan')
        /\ \A x : Holds(chan, x) <=> Holds(chan', x) \/ x = Head(chan).kind
        /\ \A q : AllOf(chan, q) => AllOf(chan', q)
    BY <1>2, <2>1, TailToken, AttnLastTail, Zenon DEF ReaderInv
  <2>3. Sound' => Sound /\ ~AttnQueued'
    <3> SUFFICES ASSUME Sound'  PROVE Sound /\ ~AttnQueued'
      BY Zenon
    <3>1. Sound
      BY <1>2, <2>2, Zenon DEF Sound, NetErrQueued
    <3>2. ~AttnQueued
      BY <3>1, Zenon DEF OwedInStep
    <3> QED  BY <2>2, <3>1, <3>2, Zenon DEF AttnQueued
  <2>4. ReaderInv' /\ CallerInv'
    BY <1>1, <1>2, <2>2, Zenon
       DEF ReaderInv, CallerInv, AttnQueued, NetErrQueued
  <2>5. OwnTokensOnly' /\ OwedOwn'
    BY <1>1, <1>2, <2>2, Zenon DEF OwnTokensOnly, OwedOwn, Reading
  <2>6. OwedInStep'
    BY <1>1, <1>2, <2>3, Zenon DEF OwedInStep
  <2>7. PooledIsClean' /\ SuccessIsComplete'
    BY <1>1, <1>2, <2>3, Zenon
       DEF PooledIsClean, SuccessIsComplete, OwedInStep, Shapes
  <2> QED  BY <2>4, <2>5, <2>6, <2>7, Zenon
<1>3. CASE ~old /\ chan # <<>> /\ chan' = Tail(chan)
           /\ Head(chan).kind \in TokErr /\ ReturnError(Head(chan).kind)
  <2>1. Head(chan).kind \notin CtxErr
    BY <1>3, Zenon DEF TokErr, Fatal, CtxErr
  <2>2. Head(chan).kind = "neterr" => Head(chan).kind \in BadErr \ CtxErr
    BY <2>1, Zenon DEF BadErr
  <2> QED  BY <1>2, <1>3, <2>1, <2>2, ReturnErrorEffect, Zenon
<1>4. CASE ~old /\ chan # <<>> /\ chan' = Tail(chan)
           /\ Head(chan).kind \notin TokErr /\ ReturnToken(Head(chan).kind)
  <2>1. Head(chan).kind # "neterr"
    BY <1>4, Zenon DEF TokErr, Fatal
  <2>2. Head(chan).kind # "nil"
    <3>1. Head(chan) \in Token
      BY <1>4 DEF Shapes
    <3>2. Head(chan).kind \in Kind
      BY <3>1, Zenon DEF Token
    <3> QED  BY <3>2, Zenon DEF Kind, NonFinal, Final, Fatal
  <2> QED  BY <1>2, <1>4, <2>1, <2>2, ReturnTokenEffect, Zenon
<1>5. CASE (old \/ (closed /\ chan = <<>>)) /\ ReturnToken("nil")
           /\ UNCHANGED chan
  <2>1. /\ UNCHANGED <<req, good, old, escaped, chan>>
        /\ pc' \in {"free", "poll", "rows"}
    BY <1>5, ReturnTokenEffect, Zenon
  <2>2. ReaderInv' /\ CallerInv'
    BY <1>1, <2>1, Zenon DEF ReaderInv, CallerInv, AttnQueued, NetErrQueued
  <2>3. OwnTokensOnly' /\ OwedOwn'
    BY <1>1, <2>1, Zenon DEF OwnTokensOnly, OwedOwn, Reading
  <2>4. Sound' = Sound /\ AttnQueued' = AttnQueued
    BY <2>1, Zenon DEF Sound, AttnQueued, NetErrQueued
  <2>5. OwedInStep'
    BY <1>1, <2>1, <2>4, Zenon DEF OwedInStep
  <2>6. PooledIsClean'
    BY <1>1, <2>1, <2>4, Zenon DEF PooledIsClean, OwedInStep, Shapes
  <2>7. SuccessIsComplete'
    <3> SUFFICES ASSUME good, escaped = {}  PROVE rd # "read" /\ owed = <<>>
      BY <1>1, <2>1, Zenon DEF SuccessIsComplete
    <3>1. rd # "read" /\ chan = <<>>
      BY <1>5, Zenon DEF ReaderInv, CallerInv
    <3>2. Sound
      BY <3>1, EmptyQueue, Zenon DEF Sound, NetErrQueued
    <3> QED  BY <3>1, <3>2, Zenon DEF OwedInStep
  <2> QED  BY <2>2, <2>3, <2>5, <2>6, <2>7, Zenon
<1> QED  BY <1>3, <1>4, <1>5, Zenon DEF TakeToken

\* A drain that fails gives the connection up, one way or the other.
LEMMA StepStream ==
    ASSUME IInv, ReturnError("stream"), drainer' = TRUE,
           UNCHANGED <<owed, net, rd, closed>>,
           pc \in {"drain", "drain2"},
           AttnLast(chan'), \A x : Holds(chan', x) => Holds(chan, x),
           \A q : AllOf(chan, q) => AllOf(chan', q), TypeOK'
    PROVE  IInv'
<1> USE DEF IInv, TypeOK
<1>1. "stream" \in BadErr \ CtxErr
  BY Zenon DEF BadErr, CtxErr
<1>2. /\ UNCHANGED <<req, old>> /\ pc' \in {"free", "poll"}
      /\ escaped' = {} => escaped = {}
      /\ ~good' \/ escaped' # {}
  BY <1>1, ReturnErrorEffect, Zenon
<1>3. ReaderInv' /\ CallerInv'
  BY <1>2, Zenon DEF ReaderInv, CallerInv, AttnQueued, NetErrQueued
<1>4. OwnTokensOnly' /\ OwedOwn'
  BY <1>2, Zenon DEF OwnTokensOnly, OwedOwn, Reading
<1>5. OwedInStep' /\ PooledIsClean' /\ SuccessIsComplete'
  BY <1>2, Zenon DEF OwedInStep, PooledIsClean, SuccessIsComplete, Sound
<1> QED  BY <1>3, <1>4, <1>5, Zenon

\* nextToken keeps it when the context is done.
LEMMA StepCtxDone ==
    ASSUME IInv, NextTokenCtxDone, TypeOK'  PROVE IInv'
<1> USE DEF IInv, TypeOK
<1>1. ASSUME NEW e, ReturnError(e), UNCHANGED readVars,
             mode # "close" \/ e \in BadErr \ CtxErr
      PROVE  IInv'
  <2>1. /\ UNCHANGED <<req, old, owed, net, rd, chan, closed, drainer>>
        /\ pc' \in {"free", "poll"} /\ pc = "wait"
        /\ good' => good
        /\ escaped' = {} => escaped = {}
        /\ ~(pc' = "free" /\ result' = "ok")
    BY <1>1, ReturnErrorEffect, Zenon DEF readVars, NextTokenCtxDone
  <2>2. Sound' => Sound
    BY <2>1, Zenon DEF Sound, NetErrQueued
  <2>3. ReaderInv' /\ CallerInv'
    BY <2>1, Zenon DEF ReaderInv, CallerInv, AttnQueued, NetErrQueued
  <2>4. OwnTokensOnly' /\ OwedOwn'
    BY <2>1, Zenon DEF OwnTokensOnly, OwedOwn, Reading
  <2>5. OwedInStep'
    BY <2>1, <2>2, Zenon DEF OwedInStep, AttnQueued
  <2>6. PooledIsClean' /\ SuccessIsComplete'
    BY <2>1, <2>2, Zenon DEF PooledIsClean, SuccessIsComplete, OwedInStep, Shapes
  <2> QED  BY <2>3, <2>4, <2>5, <2>6, Zenon
<1>2. CASE mode = "rollback" /\ ReturnError(ctx) /\ UNCHANGED readVars
  BY <1>1, <1>2, Zenon
<1>3. CASE ReturnError("neterr") /\ UNCHANGED readVars
  <2>1. "neterr" \in BadErr \ CtxErr
    BY Zenon DEF BadErr, CtxErr
  <2> QED  BY <1>1, <1>3, <2>1, Zenon
<1>4. CASE /\ owed' = Append(owed, Ack(req)) /\ pc' = "drain"
           /\ UNCHANGED <<req, mode, ctx, good, old, nextCols, firstErr,
                          result, escaped, net, rd, budget, chan,
                          closed, drainer>>
  <2>1. pc = "wait"
    BY Zenon DEF NextTokenCtxDone
  <2>2. Sound' = Sound /\ AttnQueued' = AttnQueued /\ NetErrQueued' = NetErrQueued
    BY <1>4, Zenon DEF Sound, AttnQueued, NetErrQueued
  <2>3. ReaderInv' /\ CallerInv'
    BY <1>4, <2>2, Zenon DEF ReaderInv, CallerInv
  <2>4. OwnTokensOnly' /\ OwedOwn'
    BY <1>4, <2>1, OwedAck, Zenon DEF OwnTokensOnly, OwedOwn, Reading
  <2>5. OwedInStep'
    <3> SUFFICES ASSUME Sound  PROVE OwedInStep'
      BY <2>2, Zenon DEF OwedInStep
    <3>1. /\ owed = IF rd = "read" THEN <<Reply(req)>> ELSE <<>>
          /\ ~AttnQueued
      BY <2>1, Zenon DEF OwedInStep
    <3>2. owed' = IF rd = "read" THEN <<Reply(req), Ack(req)>>
                                 ELSE <<Ack(req)>>
      BY <1>4, <3>1, Tuples, Zenon
    <3> QED  BY <1>4, <2>2, <3>1, <3>2, Zenon DEF OwedInStep
  <2>6. PooledIsClean' /\ SuccessIsComplete'
    BY <1>4, Zenon DEF PooledIsClean, SuccessIsComplete
  <2> QED  BY <2>3, <2>4, <2>5, <2>6, Zenon
<1> QED  BY <1>2, <1>3, <1>4, Zenon DEF NextTokenCtxDone

\* readCancelConfirmation keeps it.
LEMMA StepDrainToken ==
    ASSUME IInv, DrainToken, TypeOK'  PROVE IInv'
<1> USE DEF IInv, TypeOK
<1>1. /\ chan \in Seq(Token) /\ chan # <<>> /\ chan' = Tail(chan)
      /\ pc \in {"drain", "drain2"} /\ UNCHANGED <<owed, net, rd, closed>>
  BY Zenon DEF DrainToken, Shapes
<1>2. /\ AttnLast(chan')
      /\ \A x : Holds(chan, x) <=> Holds(chan', x) \/ x = Head(chan).kind
      /\ \A q : AllOf(chan, q) => AllOf(chan', q)
  BY <1>1, TailToken, AttnLastTail, Zenon DEF ReaderInv
<1>3. CASE Head(chan).kind = "attn" /\ ReturnError(ctx) /\ UNCHANGED drainer
  <2>1. chan' = <<>> /\ AttnQueued /\ rd # "read" /\ ~NetErrQueued
        /\ ~AttnQueued'
    <3>1. chan' = <<>>
      BY <1>1, <1>3, AttnLastTail, Zenon DEF ReaderInv
    <3> QED  BY <1>2, <1>3, <3>1, EmptyQueue, Zenon
               DEF AttnQueued, NetErrQueued, ReaderInv
  <2>2. /\ UNCHANGED <<req, old>> /\ pc' \in {"free", "poll"}
        /\ good' => good
        /\ escaped' = {} => escaped = {}
    BY <1>3, ReturnErrorEffect, Zenon
  <2>3. ASSUME good', escaped' = {}  PROVE owed' = <<>>
    <3>1. Sound
      BY <2>1, <2>2, <2>3, Zenon DEF Sound
    <3> QED  BY <1>1, <2>1, <3>1, Zenon DEF OwedInStep
  <2>4. ReaderInv' /\ CallerInv'
    BY <1>1, <1>2, <1>3, <2>1, <2>2, Zenon DEF ReaderInv, CallerInv
  <2>5. OwnTokensOnly' /\ OwedOwn'
    BY <1>1, <1>2, <2>2, Zenon DEF OwnTokensOnly, OwedOwn, Reading
  <2>6. OwedInStep' /\ PooledIsClean' /\ SuccessIsComplete'
    BY <1>1, <2>1, <2>2, <2>3, Zenon
       DEF OwedInStep, PooledIsClean, SuccessIsComplete, Sound
  <2> QED  BY <2>4, <2>5, <2>6, Zenon
<1>4. CASE ReturnError("stream") /\ drainer' = TRUE
  BY <1>1, <1>2, <1>4, StepStream, Zenon
<1>5. CASE /\ Head(chan).kind \notin TokErr \cup {"attn"}
           /\ UNCHANGED <<req, mode, pc, ctx, good, old, nextCols,
                          firstErr, result, escaped, drainer>>
  <2>1. (AttnQueued' <=> AttnQueued) /\ (NetErrQueued' <=> NetErrQueued)
    BY <1>2, <1>5, Zenon DEF AttnQueued, NetErrQueued, TokErr, Fatal
  <2>2. Sound' <=> Sound
    BY <1>5, <2>1, Zenon DEF Sound
  <2>3. ReaderInv' /\ CallerInv'
    BY <1>1, <1>2, <1>5, <2>1, Zenon DEF ReaderInv, CallerInv
  <2>4. OwnTokensOnly' /\ OwedOwn'
    BY <1>1, <1>2, <1>5, Zenon DEF OwnTokensOnly, OwedOwn, Reading
  <2>5. OwedInStep' /\ PooledIsClean' /\ SuccessIsComplete'
    BY <1>1, <1>5, <2>1, <2>2, Zenon
       DEF OwedInStep, PooledIsClean, SuccessIsComplete
  <2> QED  BY <2>3, <2>4, <2>5, Zenon
<1> QED  BY <1>3, <1>4, <1>5, Zenon DEF DrainToken

\* The caller keeps it.
LEMMA StepCaller ==
    ASSUME IInv, Caller, TypeOK'  PROVE IInv'
<1> USE DEF IInv, TypeOK
<1>1. CASE NextTokenPoll
  <2>1. CASE TakeToken
    BY <1>1, <2>1, StepTakeToken, Zenon DEF NextTokenPoll
  <2>2. CASE /\ pc' = "wait"
             /\ UNCHANGED <<req, mode, ctx, good, old, nextCols, firstErr,
                            result, chan, escaped, ReaderIdle>>
    <3>1. /\ pc = "poll" /\ pc' = "wait"
          /\ UNCHANGED <<req, mode, good, old, result, chan, escaped,
                         owed, net, rd, closed, drainer>>
      BY <1>1, <2>2, Zenon DEF NextTokenPoll, ReaderIdle
    <3>2. /\ AttnQueued' <=> AttnQueued
          /\ NetErrQueued' <=> NetErrQueued
          /\ AttnLast(chan)' <=> AttnLast(chan)
          /\ Sound' <=> Sound
      BY <3>1, Zenon DEF AttnQueued, Sound, NetErrQueued, AttnLast
    <3>3. ReaderInv' /\ CallerInv'
      <4>1. ReaderInv'
        BY <3>1, <3>2, Zenon DEF ReaderInv
      <4>2. CallerInv'
        BY <3>1, Zenon DEF CallerInv
      <4> QED  BY <4>1, <4>2, Zenon
    <3>4. OwnTokensOnly' /\ OwedOwn'
      BY <3>1, Zenon DEF OwnTokensOnly, OwedOwn, Reading
    <3>5. OwedInStep' /\ PooledIsClean' /\ SuccessIsComplete'
      BY <3>1, <3>2, Zenon DEF OwedInStep, PooledIsClean, SuccessIsComplete
    <3> QED  BY <3>3, <3>4, <3>5, Zenon
  <2> QED  BY <1>1, <2>1, <2>2, Zenon DEF NextTokenPoll
<1>2. CASE NextTokenWait
  BY <1>2, StepTakeToken, Zenon DEF NextTokenWait
<1>3. CASE DrainFails
  BY <1>3, StepStream, Zenon DEF DrainFails, ReaderInv
<1>4. CASE DrainClosed
  <2>1. /\ pc = "drain" /\ pc' = "start2" /\ old' = TRUE
        /\ chan = <<>> /\ closed /\ rd = "none"
        /\ UNCHANGED <<req, good, owed, net, rd, chan, closed, drainer, escaped>>
    BY <1>4, Zenon DEF DrainClosed, readVars, ReaderInv
  <2>2. ~AttnQueued
    BY <2>1, EmptyQueue, Zenon DEF AttnQueued
  <2> QED  BY <2>1, <2>2, Zenon DEF ReaderInv, CallerInv, OwnTokensOnly, OwedOwn,
       Reading, OwedInStep, PooledIsClean, SuccessIsComplete, Sound,
       AttnQueued, NetErrQueued
<1>5. CASE SecondResponse
  <2>1. /\ pc = "start2" /\ pc' = "drain2" /\ rd = "none" /\ rd' = "read"
        /\ chan = <<>> /\ chan' = <<>> /\ closed' = FALSE /\ drainer' = FALSE
        /\ UNCHANGED <<req, good, old, owed, net, escaped>>
    BY <1>5, Zenon DEF SecondResponse, StartResponseReader, CallerInv
  <2>2. AttnLast(chan') /\ ~AttnQueued' /\ ~NetErrQueued'
    BY <2>1, EmptyQueue DEF AttnLast, AttnQueued, NetErrQueued
  <2> QED  BY <2>1, <2>2, Zenon DEF ReaderInv, CallerInv, OwnTokensOnly, OwedOwn,
       Reading, OwedInStep, PooledIsClean, SuccessIsComplete, Sound,
       NetErrQueued
<1>6. CASE StartReading
  <2>1. /\ pc = "start" /\ pc' = "poll" /\ rd = "none" /\ rd' = "read"
        /\ chan' = <<>> /\ closed' = FALSE /\ drainer' = FALSE
        /\ old' = FALSE /\ UNCHANGED <<req, good, owed, net>>
    BY <1>6, Zenon DEF StartReading, StartResponseReader
  <2>2. AttnLast(chan') /\ ~AttnQueued' /\ ~NetErrQueued' /\ AllOf(chan', req)
    BY <2>1, EmptyQueue DEF AttnLast, AttnQueued, NetErrQueued
  <2>3. ASSUME escaped' = {}  PROVE owed' = <<Reply(req)>> /\ AllOf(owed', req)
    <3>1. escaped = {} /\ ~NetErrQueued
      <4>1. escaped' = escaped \cup {x \in {"late"} : NetErrQueued}
        BY <1>6, Zenon DEF StartReading
      <4>2. NetErrQueued => "late" \in escaped'
        BY <4>1, Zenon
      <4> QED  BY <2>3, <4>1, <4>2, Zenon
    <3>2. Sound
      BY <2>1, <3>1, Zenon DEF Sound, CallerInv
    <3>3. owed = <<Reply(req)>>
      BY <2>1, <3>2, Zenon DEF OwedInStep
    <3>4. AllOf(<<Reply(req)>>, req)
      BY Messages DEF AllOf
    <3> QED  BY <2>1, <3>3, <3>4, Zenon
  <2>4. ReaderInv' /\ CallerInv'
    BY <2>1, <2>2, Zenon DEF ReaderInv, CallerInv
  <2>5. OwnTokensOnly' /\ OwedOwn'
    BY <2>1, <2>2, <2>3, Zenon DEF OwnTokensOnly, OwedOwn
  <2>6. OwedInStep' /\ PooledIsClean' /\ SuccessIsComplete'
    BY <2>1, <2>2, <2>3, Zenon
       DEF OwedInStep, PooledIsClean, SuccessIsComplete, Sound
  <2> QED  BY <2>4, <2>5, <2>6, Zenon
<1> QED  BY <1>1, <1>2, <1>3, <1>4, <1>5, <1>6, StepCtxDone, StepDrainToken, Zenon
           DEF Caller

\* The calls that the application makes keep it.
LEMMA StepApplication ==
    ASSUME IInv, Application, TypeOK'  PROVE IInv'
<1> USE DEF IInv, TypeOK
<1>1. ASSUME NEW m, NEW c, SendRequest(m, c)  PROVE IInv'
  <2>1. /\ pc = "free" /\ good /\ req' = req + 1
        /\ UNCHANGED <<old, net, rd, chan, closed, drainer, escaped>>
    BY <1>1, Zenon DEF SendRequest
  <2>2. (AttnQueued' <=> AttnQueued) /\ (NetErrQueued' <=> NetErrQueued)
    BY <2>1, Zenon DEF AttnQueued, NetErrQueued
  <2>3. CASE good' = FALSE /\ result' = "err" /\ UNCHANGED <<pc, owed>>
    BY <2>1, <2>2, <2>3, Zenon DEF ReaderInv, CallerInv, OwnTokensOnly, OwedOwn,
       Reading, OwedInStep, PooledIsClean, SuccessIsComplete, Sound
  <2>4. CASE /\ pc' = "start" /\ UNCHANGED good
             /\ owed' = Append(owed, Reply(req + 1))
    <3>1. ASSUME Sound  PROVE owed' =
             IF rd = "read" THEN <<Reply(req' - 1), Reply(req')>>
                            ELSE <<Reply(req')>>
      <4>1. CASE rd = "read"
        <5>1. owed = <<Reply(req)>>
          BY <2>1, <3>1, <4>1, Zenon DEF PooledIsClean
        <5>2. owed' = <<Reply(req), Reply(req + 1)>>
          BY <2>4, <5>1, Tuples, Zenon
        <5>3. req' - 1 = req
          BY <2>1 DEF Shapes
        <5> QED  BY <2>1, <4>1, <5>2, <5>3, Zenon
      <4>2. CASE rd # "read"
        <5>1. owed = <<>>
          BY <2>1, <3>1, <4>2, Zenon DEF PooledIsClean
        <5> QED  BY <2>1, <2>4, <4>2, <5>1, Tuples, Zenon
      <4> QED  BY <4>1, <4>2, Zenon
    <3>2. Sound' <=> Sound
      BY <2>1, <2>2, <2>4, Zenon DEF Sound
    <3>3. OwedInStep'
      BY <2>1, <2>4, <3>1, <3>2, Zenon DEF OwedInStep
    <3> QED  BY <2>1, <2>2, <2>4, <3>3, Zenon DEF ReaderInv, CallerInv,
       OwnTokensOnly, OwedOwn, Reading, PooledIsClean, SuccessIsComplete
  <2> QED  BY <1>1, <2>3, <2>4, Zenon DEF SendRequest
<1>2. CASE RowsNext \/ RowsNextResultSet \/ RowsClose
           \/ \E e \in CtxErr : Cancel(e)
  <2>1. /\ UNCHANGED <<req, good, old, readVars, escaped>>
        /\ UNCHANGED <<pc, result>> \/ (pc = "rows" /\ pc' = "poll")
    BY <1>2, Zenon DEF RowsNext, RowsNextResultSet, RowsClose, EnterClose, Cancel
  <2>2. (AttnQueued' <=> AttnQueued) /\ (NetErrQueued' <=> NetErrQueued)
    BY <2>1, Zenon DEF AttnQueued, NetErrQueued, readVars
  <2>3. ReaderInv' /\ CallerInv'
    BY <2>1, <2>2, Zenon DEF ReaderInv, CallerInv, readVars
  <2>4. OwnTokensOnly' /\ OwedOwn'
    BY <2>1, Zenon DEF OwnTokensOnly, OwedOwn, Reading, readVars
  <2>5. OwedInStep' /\ PooledIsClean' /\ SuccessIsComplete'
    BY <2>1, <2>2, Zenon DEF OwedInStep, PooledIsClean, SuccessIsComplete, Sound, readVars
  <2> QED  BY <2>3, <2>4, <2>5, Zenon
<1>3. CASE ConnClose
  BY <1>3, Zenon DEF ConnClose, ReaderInv, CallerInv, OwnTokensOnly, OwedOwn,
     Reading, OwedInStep, PooledIsClean, SuccessIsComplete, AttnQueued, NetErrQueued
<1> QED  BY <1>1, <1>2, <1>3, Zenon DEF Application

\* The inductive invariant: what the server owes is known at every point of a
\* call as long as the connection is sound.
LEMMA InductiveInvariant == Spec => []IInv
<1>1. Init => IInv
  <2> SUFFICES ASSUME Init  PROVE IInv
    BY Zenon
  <2>1. Flags
    BY Zenon DEF Init, Flags
  <2>2. /\ AttnLast(chan) /\ pc = "free" /\ rd = "none" /\ owed = <<>>
        /\ closed = FALSE /\ drainer = FALSE
    BY DEF Init, AttnLast
  <2> QED  BY <2>1, <2>2, ShapesInit, Zenon DEF IInv, TypeOK, ReaderInv, CallerInv,
       OwnTokensOnly, OwedOwn, Reading, OwedInStep, PooledIsClean,
       SuccessIsComplete
<1>2. ASSUME IInv, TypeOK', [Next]_vars  PROVE IInv'
  <2>1. CASE NetFails \/ UNCHANGED vars
    <3>1. UNCHANGED <<callVars, owed, rd, chan, closed, drainer, escaped>>
          /\ (net' = "down" \/ UNCHANGED net)
      BY <2>1, Zenon DEF NetFails, vars, readVars
    <3>2. (AttnQueued' <=> AttnQueued) /\ (NetErrQueued' <=> NetErrQueued)
      BY <3>1, Zenon DEF AttnQueued, NetErrQueued
    <3>3. ReaderInv' /\ CallerInv'
      BY <1>2, <3>1, <3>2, Zenon DEF IInv, ReaderInv, CallerInv, callVars
    <3>4. OwnTokensOnly' /\ OwedOwn'
      BY <1>2, <3>1, Zenon DEF IInv, OwnTokensOnly, OwedOwn, Reading, callVars
    <3>5. OwedInStep'
      BY <1>2, <3>1, <3>2, Zenon DEF IInv, OwedInStep, Sound, callVars
    <3>6. PooledIsClean' /\ SuccessIsComplete'
      BY <1>2, <3>1, <3>2, Zenon DEF IInv, PooledIsClean, SuccessIsComplete, Sound, callVars
    <3> QED  BY <1>2, <3>1, <3>3, <3>4, <3>5, <3>6, Zenon DEF IInv
  <2> QED  BY <1>2, <2>1, StepReader, StepCaller, StepApplication, Zenon DEF Next
<1> QED  BY <1>1, <1>2, TypeCorrect, PTL DEF Spec

\* For every channel capacity and every number of requests and tokens: no call
\* ever sees a token that answers another request, whatever was cancelled or
\* abandoned before it on the connection (nextToken, startResponseReader).
THEOREM NoForeignTokens == Spec => []OwnTokensOnly
<1>1. IInv => OwnTokensOnly
  BY Zenon DEF IInv
<1> QED  BY <1>1, InductiveInvariant, PTL

\* A good connection goes back to the pool with at most one reply unread, and
\* only while a reader is reading it (Rollback under noAttn, and the early
\* returns of processQueryResponse).
THEOREM PoolStaysClean == Spec => []PooledIsClean
<1>1. IInv => PooledIsClean
  BY Zenon DEF IInv
<1> QED  BY <1>1, InductiveInvariant, PTL

\* At every point of a call the server owes exactly what nextToken expects.
THEOREM RepliesInStep == Spec => []OwedInStep
<1>1. IInv => OwedInStep
  BY Zenon DEF IInv
<1> QED  BY <1>1, InductiveInvariant, PTL

\* A call that reports success has left nothing to read.
THEOREM SuccessReadsAll == Spec => []SuccessIsComplete
<1>1. IInv => SuccessIsComplete
  BY Zenon DEF IInv
<1> QED  BY <1>1, InductiveInvariant, PTL

-----------------------------------------------------------------------------
(* The session implements Exchange.                                         *)

\* The requests for which the server's input is unread, at every point of a
\* call on a sound connection.
UnreadInStep ==
    /\ pc = "free" => Unread = IF rd = "read" THEN {req} ELSE {}
    /\ pc = "start" => Unread = IF rd = "read" THEN {req - 1, req} ELSE {req}
    /\ pc \in {"poll", "wait", "rows", "drain2"} =>
          Unread = IF rd = "read" THEN {req} ELSE {}
    /\ pc = "drain" => Unread = IF rd = "read" \/ ~AttnQueued THEN {req} ELSE {}
    /\ pc = "start2" => Unread = {req}

\* They follow from what the server owes.
LEMMA UnreadForms == IInv /\ Sound => UnreadInStep
<1> SUFFICES ASSUME IInv, Sound  PROVE UnreadInStep
  BY Zenon
<1>1. ASSUME owed = <<>>  PROVE Unread = {}
  BY <1>1 DEF Unread
<1>2. ASSUME NEW a, owed = <<a>>  PROVE Unread = {a.req}
  <2>1. Len(owed) = 1 /\ owed[1] = a
    BY <1>2, Zenon
  <2>2. 1..1 = {1}
    OBVIOUS
  <2> QED  BY <2>1, <2>2, Zenon DEF Unread
<1>3. ASSUME NEW a, NEW b, owed = <<a, b>>  PROVE Unread = {a.req, b.req}
  <2>1. Len(owed) = 2 /\ owed[1] = a /\ owed[2] = b
    BY <1>3, Zenon
  <2>2. 1..2 = {1, 2}
    OBVIOUS
  <2> QED  BY <2>1, <2>2, Zenon DEF Unread
<1>4. pc = "free" => Unread = IF rd = "read" THEN {req} ELSE {}
  BY <1>1, <1>2, Messages DEF IInv, PooledIsClean
<1>5. pc = "start" => Unread = IF rd = "read" THEN {req - 1, req} ELSE {req}
  BY <1>2, <1>3, Messages DEF IInv, OwedInStep
<1>6. pc \in {"poll", "wait", "rows", "drain2"} =>
         Unread = IF rd = "read" THEN {req} ELSE {}
  BY <1>1, <1>2, Messages DEF IInv, OwedInStep
<1>7. pc = "drain" => Unread = IF rd = "read" \/ ~AttnQueued THEN {req} ELSE {}
  BY <1>1, <1>2, <1>3, Messages DEF IInv, OwedInStep
<1>8. pc = "start2" => Unread = {req}
  BY <1>2, Messages, Zenon DEF IInv, OwedInStep
<1> QED  BY <1>4, <1>5, <1>6, <1>7, <1>8, Zenon DEF UnreadInStep

\* A step that leaves the call and its number alone, and the input too if the
\* connection stays sound, is none of Exchange, or one that makes it worse.
LEMMA QuietStep ==
    ASSUME Sound' => Sound, good' => good,
           UNCHANGED <<req, result, CallState>>,
           Sound' => UNCHANGED owed
    PROVE  Exchange!Worsen \/ UNCHANGED Exchange!vars
<1>1. Sound => good
  BY Zenon DEF Sound
<1>2. CASE Sound'
  BY <1>2, Zenon DEF Exchange!vars, Health, Unread, Sound
<1>3. CASE ~Sound' /\ Sound
  BY <1>3, <1>1, Zenon DEF Exchange!Worsen, Exchange!Worse, Health, Unread
<1>4. CASE ~Sound' /\ ~Sound
  BY <1>4, Zenon DEF Exchange!Worsen, Exchange!Worse, Exchange!vars, Health, Unread
<1> QED  BY <1>2, <1>3, <1>4, Zenon

\* A call returns: with success it has read everything, with an error it
\* leaves its own reply at most, as long as the connection is sound.
LEMMA ReturnStep ==
    ASSUME IInv, IInv', Sound' => Sound, good' => good,
           pc \notin {"free", "closed"}, pc' = "free", result' \in {"ok", "err"},
           UNCHANGED req, Sound' => UNCHANGED owed
    PROVE  Exchange!Return
<1>1. Sound => good
  BY Zenon DEF Sound
<1>2. CallState = "busy" /\ CallState' = "idle"
  BY Zenon DEF CallState
<1>3. CASE Sound'
  <2>1. Unread' = Unread /\ Health' = Health
    BY <1>3, Zenon DEF Unread, Health, Sound
  <2>2. Unread' = IF rd' = "read" THEN {req'} ELSE {}
    <3>1. UnreadInStep'
      BY <1>3, UnreadForms, PTL
    <3> QED  BY <3>1, Zenon DEF UnreadInStep
  <2>3. result' = "ok" => Unread' = {}
    BY <1>3, <2>2, Zenon DEF IInv, SuccessIsComplete, Sound
  <2> QED  BY <1>2, <2>1, <2>2, <2>3, Zenon DEF Exchange!Return
<1>4. CASE ~Sound' /\ Sound
  BY <1>1, <1>2, <1>4, Zenon DEF Exchange!Return, Exchange!Worse, Health, Unread
<1>5. CASE ~Sound' /\ ~Sound
  BY <1>2, <1>5, Zenon DEF Exchange!Return, Exchange!Worse, Health, Unread
<1> QED  BY <1>3, <1>4, <1>5, Zenon

\* The reader reads the input for a request to its end, or fails.
LEMMA ReceiveStep ==
    ASSUME IInv, IInv', Sound' => Sound, UNCHANGED callVars,
           rd = "read", rd' # "read", pc = "closed" => ~Sound'
    PROVE  [Exchange!Next]_Exchange!vars
<1>1. UNCHANGED <<req, result, CallState, pc, good>>
  BY Zenon DEF callVars, CallState
<1>2. CASE ~Sound'
  BY <1>1, <1>2, QuietStep, Zenon DEF Exchange!Next
<1>3. CASE Sound'
  <2>1. UnreadInStep /\ UnreadInStep'
    BY <1>3, UnreadForms, PTL
  <2>2. Health' = Health
    BY <1>1, <1>3, Zenon DEF Health
  <2>3. req \in Nat /\ req - 1 <= req /\ req - 1 # req
    BY DEF IInv, TypeOK, Shapes
  <2>4. \/ Unread' = Unread \/ (Unread = {req} /\ Unread' = {})
        \/ (Unread = {req - 1, req} /\ Unread' = {req})
    BY <1>1, <1>3, <2>1, Zenon DEF UnreadInStep, IInv, TypeOK, Shapes
  <2>5. CASE Unread' = Unread
    BY <1>1, <2>2, <2>5, Zenon DEF Exchange!vars
  <2>6. CASE Unread = {req} /\ Unread' = {}
    BY <1>1, <2>2, <2>3, <2>6 DEF Exchange!Next, Exchange!Receive
  <2>7. CASE Unread = {req - 1, req} /\ Unread' = {req}
    <3>1. Unread' = Unread \ {req - 1}
      BY <2>3, <2>7, Zenon
    <3>2. \A k \in Unread : req - 1 <= k
      BY <2>3, <2>7
    <3> QED  BY <1>1, <2>2, <2>7, <3>1, <3>2, Zenon DEF Exchange!Next, Exchange!Receive
  <2> QED  BY <2>4, <2>5, <2>6, <2>7, Zenon
<1> QED  BY <1>2, <1>3, Zenon

\* A step of the reader goroutine is one of Exchange, or none.
LEMMA ReaderRefines ==
    ASSUME IInv, IInv', Reader, pc = "closed" => net = "down"
    PROVE  [Exchange!Next]_Exchange!vars
<1> USE DEF IInv, TypeOK
<1>1. ASSUME NEW r, NEW k, Send(r, k), r \in Nat, k \in Kind,
             UNCHANGED callVars, escaped' = {} => escaped = {}
      PROVE  (Sound' => Sound) /\ (k = "neterr" => ~Sound')
  <2>1. \A x : Holds(chan', x) <=> Holds(chan, x) \/ x = k
    BY <1>1, SendToken, Zenon
  <2> QED  BY <1>1, <2>1, Zenon DEF Sound, NetErrQueued, callVars
<1>2. req \in Nat
  BY DEF Shapes
<1>3. ASSUME NEW k \in NonFinal, ReadToken(k)  PROVE [Exchange!Next]_Exchange!vars
  <2>1. Head(owed).req \in Nat /\ k \in Kind
    BY <1>3, FirstOwed, Zenon DEF ReadToken, Kind
  <2>2. Sound' => Sound
    BY <1>1, <1>3, <2>1, Zenon DEF ReadToken
  <2> QED  BY <1>3, <2>2, QuietStep, Zenon DEF ReadToken, callVars, CallState, Exchange!Next
<1>4. ASSUME NEW k \in Final, ReadDone(k)  PROVE [Exchange!Next]_Exchange!vars
  <2>1. Head(owed).req \in Nat /\ k \in Kind
    BY <1>4, FirstOwed, Zenon DEF ReadDone, Kind
  <2>2. Sound' => Sound
    BY <1>1, <1>4, <2>1, Zenon DEF ReadDone
  <2> QED  BY <1>4, <2>2, ReceiveStep, Zenon DEF ReadDone
<1>5. CASE ReadSrvError
  <2>1. Head(owed).req \in Nat /\ "srverr" \in Kind
    BY <1>5, FirstOwed, Zenon DEF ReadSrvError, Kind, Fatal
  <2>2. Sound' => Sound
    BY <1>1, <1>5, <2>1, Zenon DEF ReadSrvError
  <2> QED  BY <1>5, <2>2, ReceiveStep, Zenon DEF ReadSrvError
<1>6. CASE ReadAttn
  <2>1. Head(owed).req \in Nat /\ "attn" \in Kind
    BY <1>6, FirstOwed, Zenon DEF ReadAttn, Kind
  <2>2. Sound' => Sound
    BY <1>1, <1>6, <2>1, Zenon DEF ReadAttn
  <2> QED  BY <1>6, <2>2, ReceiveStep, Zenon DEF ReadAttn
<1>7. CASE ReadFails \/ ReadTimesOut
  <2>1. "neterr" \in Kind
    BY Zenon DEF Kind, Fatal
  <2>2. (Sound' => Sound) /\ ~Sound'
    BY <1>1, <1>2, <1>7, <2>1, Zenon DEF ReadFails, ReadTimesOut
  <2> QED  BY <1>7, <2>2, ReceiveStep, Zenon DEF ReadFails, ReadTimesOut
<1>8. CASE RowFails
  <2>1. Head(owed).req \in Nat /\ "rowerr" \in Kind
    BY <1>8, FirstOwed, Zenon DEF RowFails, Kind, Fatal
  <2>2. escaped' = {} => escaped = {}
    BY <1>8, Zenon DEF RowFails
  <2>3. Sound' => Sound
    BY <1>1, <1>8, <2>1, <2>2, Zenon DEF RowFails
  <2> QED  BY <1>8, <2>3, ReceiveStep, Zenon DEF RowFails
<1>9. CASE ReaderExit
  <2>1. Sound' <=> Sound
    BY <1>9, Zenon DEF ReaderExit, Sound, NetErrQueued, callVars
  <2> QED  BY <1>9, <2>1, QuietStep, Zenon DEF ReaderExit, callVars, CallState, Exchange!Next
<1>10. CASE BackgroundDrain
  <2>1. ~Sound /\ ~Sound'
    BY <1>10, Zenon DEF BackgroundDrain, CallerInv, Sound, callVars
  <2> QED  BY <1>10, <2>1, QuietStep, Zenon DEF BackgroundDrain, callVars, CallState, Exchange!Next
<1> QED  BY <1>3, <1>4, <1>5, <1>6, <1>7, <1>8, <1>9, <1>10, Zenon DEF Reader

\* A call returns with a result, or goes on without one.
LEMMA ReturnResult ==
    ASSUME NEW k, ReturnToken(k) \/ ReturnError(k)
    PROVE  /\ pc' = "free" => result' \in {"ok", "err"}
           /\ pc' # "free" => UNCHANGED result
<1>1. CASE ReturnToken(k)
  BY <1>1, Zenon DEF ReturnToken, IterateResponse, ProcessQueryResponse,
     RowsNextToken, RowsCloseToken, EnterClose, Outcome
<1>2. CASE ReturnError(k)
  BY <1>2, Zenon DEF ReturnError, EnterClose, Outcome
<1> QED  BY <1>1, <1>2, Zenon

\* What nextToken returns makes the call return or go on.
LEMMA NextTokenStep ==
    ASSUME IInv, IInv', NEW k, ReturnToken(k) \/ ReturnError(k),
           pc \notin {"free", "closed"}, UNCHANGED owed, Sound' => Sound
    PROVE  [Exchange!Next]_Exchange!vars
<1> USE DEF IInv, TypeOK
<1>1. /\ UNCHANGED req /\ (good' => good) /\ pc' \in {"free", "poll", "rows"}
  BY ReturnTokenEffect, ReturnErrorEffect, Zenon
<1>2. CASE pc' = "free"
  <2>1. Exchange!Return
    BY <1>1, <1>2, ReturnResult, ReturnStep, Zenon
  <2> QED  BY <2>1, Zenon DEF Exchange!Next
<1>3. CASE pc' # "free"
  <2>1. UNCHANGED <<req, result, CallState>>
    BY <1>1, <1>3, ReturnResult, Zenon DEF CallState
  <2> QED  BY <1>1, <2>1, QuietStep, Zenon DEF Exchange!Next
<1> QED  BY <1>2, <1>3, Zenon

\* An error that means a broken connection does not leave it sound.
LEMMA BadErrors ==
    ASSUME IInv, NEW e \in BadErr \ CtxErr, ReturnError(e)
    PROVE  ~Sound'
BY ReturnErrorEffect, Zenon DEF IInv, TypeOK, Sound

\* Nor does a failed read leave the channel unseen.
LEMMA TakeSound ==
    ASSUME IInv, TakeToken  PROVE Sound' => Sound
<1> USE DEF IInv, TypeOK
<1>1. CASE /\ chan # <<>> /\ chan' = Tail(chan)
           /\ IF Head(chan).kind \in TokErr THEN ReturnError(Head(chan).kind)
                                           ELSE ReturnToken(Head(chan).kind)
  <2>1. chan \in Seq(Token)
    BY Zenon DEF Shapes
  <2>2. Holds(chan, "neterr") <=> Holds(chan', "neterr") \/ "neterr" = Head(chan).kind
    BY <1>1, <2>1, TailToken, Zenon
  <2>3. CASE Head(chan).kind = "neterr"
    <3>1. ReturnError("neterr")
      BY <1>1, <2>3, Zenon DEF TokErr, Fatal
    <3> QED  BY <3>1, BadErrors, Zenon DEF BadErr, CtxErr
  <2>4. CASE Head(chan).kind # "neterr"
    <3>1. NetErrQueued' <=> NetErrQueued
      BY <2>2, <2>4, Zenon DEF NetErrQueued
    <3>2. (good' => good) /\ (escaped' = {} => escaped = {})
      BY <1>1, ReturnTokenEffect, ReturnErrorEffect, Zenon
    <3> QED  BY <3>1, <3>2, Zenon DEF Sound
  <2> QED  BY <2>3, <2>4, Zenon
<1>2. CASE ReturnToken("nil") /\ UNCHANGED chan
  BY <1>2, ReturnTokenEffect, Zenon DEF Sound, NetErrQueued
<1> QED  BY <1>1, <1>2, Zenon DEF TakeToken

\* A token, an error or the end of the response.
LEMMA TakeRefines ==
    ASSUME IInv, IInv', TakeToken, UNCHANGED owed, pc \in {"poll", "wait"}
    PROVE  [Exchange!Next]_Exchange!vars
<1>1. PICK k : ReturnToken(k) \/ ReturnError(k)
  BY Zenon DEF TakeToken
<1>2. Sound' => Sound
  BY TakeSound, Zenon
<1> QED  BY <1>1, <1>2, NextTokenStep, Zenon

\* A step of the calling goroutine in nextToken or startReading.
LEMMA CallerRefines ==
    ASSUME IInv, IInv', Caller  PROVE [Exchange!Next]_Exchange!vars
<1> USE DEF IInv, TypeOK
<1>1. CASE StartReading
  <2>1. /\ UNCHANGED <<req, result, good, owed>> /\ pc = "start" /\ pc' = "poll"
        /\ escaped' = escaped \cup {x \in {"late"} : NetErrQueued}
    BY <1>1, Zenon DEF StartReading, StartResponseReader
  <2>2. Sound' => Sound
    <3>1. escaped' = {} => escaped = {} /\ ~NetErrQueued
      BY <2>1, Zenon
    <3> QED  BY <2>1, <3>1, Zenon DEF Sound
  <2> QED  BY <2>1, <2>2, QuietStep, Zenon DEF CallState, Exchange!Next
<1>2. CASE NextTokenPoll
  <2>1. CASE TakeToken
    BY <1>2, <2>1, TakeRefines, Zenon DEF NextTokenPoll, ReaderIdle
  <2>2. CASE pc' = "wait" /\ UNCHANGED <<req, good, result, chan, escaped>>
    <3>1. Sound' <=> Sound
      BY <2>2, Zenon DEF Sound, NetErrQueued
    <3> QED  BY <1>2, <2>2, <3>1, QuietStep, Zenon
              DEF NextTokenPoll, ReaderIdle, CallState, Exchange!Next
  <2> QED  BY <1>2, <2>1, <2>2, Zenon DEF NextTokenPoll
<1>3. CASE NextTokenWait
  BY <1>3, TakeRefines, Zenon DEF NextTokenWait, ReaderIdle
<1>4. CASE NextTokenCtxDone
  <2>1. pc = "wait"
    BY <1>4, Zenon DEF NextTokenCtxDone
  <2>2. ASSUME NEW e, ReturnError(e), UNCHANGED readVars
        PROVE  [Exchange!Next]_Exchange!vars
    <3>1. Sound' => Sound
      BY <2>2, ReturnErrorEffect, Zenon DEF Sound, NetErrQueued, readVars
    <3> QED  BY <2>1, <2>2, <3>1, NextTokenStep, Zenon DEF readVars
  <2>3. CASE pc' = "drain" /\ UNCHANGED <<req, result, good, chan, rd, escaped>>
    <3>1. (Sound' <=> Sound) /\ (AttnQueued' <=> AttnQueued)
      BY <2>3, Zenon DEF Sound, NetErrQueued, AttnQueued
    <3>2. UNCHANGED <<CallState, Health>> /\ CallState = "busy"
      BY <2>1, <2>3, <3>1, Zenon DEF CallState, Health
    <3>3. CASE ~Sound
      BY <2>3, <3>1, <3>2, <3>3, QuietStep, Zenon DEF Exchange!Next
    <3>4. CASE Sound
      <4>1. UnreadInStep /\ UnreadInStep'
        BY <3>1, <3>4, UnreadForms, PTL
      <4>2. ~AttnQueued
        BY <2>1, <3>4, Zenon DEF OwedInStep
      <4>3. Unread' = Unread \cup {req}
        BY <2>1, <2>3, <3>1, <4>1, <4>2, Zenon DEF UnreadInStep
      <4>4. Health = "sound"
        BY <3>4, Zenon DEF Health, Sound
      <4> QED  BY <2>3, <3>2, <4>3, <4>4, Zenon DEF Exchange!Next, Exchange!AskToStop
    <3> QED  BY <3>3, <3>4, Zenon
  <2> QED  BY <1>4, <2>2, <2>3, Zenon DEF NextTokenCtxDone
<1>5. CASE DrainToken
  <2>1. /\ pc \in {"drain", "drain2"} /\ chan # <<>> /\ chan' = Tail(chan)
        /\ UNCHANGED owed
    BY <1>5, Zenon DEF DrainToken
  <2>2. Holds(chan, "neterr") <=> Holds(chan', "neterr") \/ "neterr" = Head(chan).kind
    BY <2>1, TailToken, Zenon DEF Shapes
  <2>3. CASE Head(chan).kind = "attn" /\ ReturnError(ctx)
    <3>1. Sound' => Sound
      BY <2>2, <2>3, ReturnErrorEffect, Zenon DEF Sound, NetErrQueued
    <3> QED  BY <2>1, <2>3, <3>1, NextTokenStep, Zenon
  <2>4. CASE ReturnError("stream")
    <3>1. ~Sound'
      BY <2>4, BadErrors, Zenon DEF BadErr, CtxErr
    <3> QED  BY <2>1, <2>4, <3>1, NextTokenStep, Zenon
  <2>5. CASE /\ Head(chan).kind \notin TokErr
             /\ UNCHANGED <<req, pc, good, result, escaped>>
    <3>1. Sound' <=> Sound
      BY <2>2, <2>5, Zenon DEF Sound, NetErrQueued, TokErr, Fatal
    <3> QED  BY <2>1, <2>5, <3>1, QuietStep, Zenon DEF CallState, Exchange!Next
  <2> QED  BY <1>5, <2>3, <2>4, <2>5, Zenon DEF DrainToken
<1>6. CASE DrainClosed
  <2>1. /\ UNCHANGED <<req, result, good, owed, chan, escaped>>
        /\ pc = "drain" /\ pc' = "start2"
    BY <1>6, Zenon DEF DrainClosed, readVars
  <2>2. Sound' <=> Sound
    BY <2>1, Zenon DEF Sound, NetErrQueued
  <2> QED  BY <2>1, <2>2, QuietStep, Zenon DEF CallState, Exchange!Next
<1>7. CASE SecondResponse
  <2>1. /\ UNCHANGED <<req, result, good, owed, escaped>>
        /\ pc = "start2" /\ pc' = "drain2"
    BY <1>7, Zenon DEF SecondResponse, StartResponseReader
  <2>2. chan = <<>>
    BY <2>1, Zenon DEF CallerInv
  <2>3. Sound' => Sound
    BY <2>1, <2>2, EmptyQueue, Zenon DEF Sound, NetErrQueued
  <2> QED  BY <2>1, <2>3, QuietStep, Zenon DEF CallState, Exchange!Next
<1>8. CASE DrainFails
  <2>1. /\ ReturnError("stream") /\ UNCHANGED owed
        /\ pc \in {"drain", "drain2"}
    BY <1>8, Zenon DEF DrainFails
  <2>2. ~Sound'
    BY <2>1, BadErrors, Zenon DEF BadErr, CtxErr
  <2> QED  BY <2>1, <2>2, NextTokenStep, Zenon
<1> QED  BY <1>1, <1>2, <1>3, <1>4, <1>5, <1>6, <1>7, <1>8, Zenon DEF Caller

\* A call of the application, or its end.
LEMMA ApplicationRefines ==
    ASSUME IInv, IInv', Application \/ NetFails
    PROVE  [Exchange!Next]_Exchange!vars
<1> USE DEF IInv, TypeOK
<1>1. ASSUME NEW m, NEW c, SendRequest(m, c)  PROVE [Exchange!Next]_Exchange!vars
  <2>1. /\ pc = "free" /\ good /\ req < MaxReq /\ req' = req + 1
        /\ UNCHANGED <<chan, rd, escaped>>
    BY <1>1, Zenon DEF SendRequest
  <2>2. CallState = "idle" /\ Health # "bad"
    BY <2>1, Zenon DEF CallState, Health
  <2>3. CASE good' = FALSE /\ result' = "err" /\ UNCHANGED <<pc, owed>>
    <3>1. Health' = "bad" /\ Unread' = {} /\ UNCHANGED CallState
      BY <2>3, Zenon DEF Health, Unread, Sound, CallState
    <3> QED  BY <2>1, <2>2, <2>3, <3>1, Zenon DEF Exchange!Next, Exchange!Call
  <2>4. CASE pc' = "start" /\ result' = "none" /\ UNCHANGED good
    <3>1. (Sound' <=> Sound) /\ UNCHANGED Health
      BY <2>1, <2>4, Zenon DEF Sound, NetErrQueued, Health
    <3>2. CallState' = "busy"
      BY <2>4, Zenon DEF CallState
    <3>3. Health = "sound" <=> Sound
      BY Zenon DEF Health, Sound
    <3>4. Unread' = Unread \cup {x \in {req + 1} : Health = "sound"}
      <4>1. CASE ~Sound
        BY <3>1, <3>3, <4>1, Zenon DEF Unread
      <4>2. CASE Sound
        <5>1. UnreadInStep /\ UnreadInStep'
          BY <3>1, <4>2, UnreadForms, PTL
        <5>2. req' - 1 = req
          BY <2>1 DEF Shapes
        <5>3. Unread = IF rd = "read" THEN {req} ELSE {}
          BY <2>1, <5>1, Zenon DEF UnreadInStep
        <5>4. Unread' = IF rd = "read" THEN {req, req + 1} ELSE {req + 1}
          BY <2>1, <2>4, <5>1, <5>2, Zenon DEF UnreadInStep
        <5> QED  BY <3>3, <4>2, <5>3, <5>4, Zenon
      <4> QED  BY <4>1, <4>2, Zenon
    <3> QED  BY <2>1, <2>2, <2>4, <3>1, <3>2, <3>4, Zenon DEF Exchange!Next, Exchange!Call
  <2> QED  BY <1>1, <2>3, <2>4, Zenon DEF SendRequest
<1>2. CASE RowsNext \/ RowsNextResultSet \/ RowsClose \/ NetFails
           \/ \E e \in CtxErr : Cancel(e)
  <2>1. /\ UNCHANGED <<req, result, good, owed, chan, escaped>>
        /\ UNCHANGED pc \/ (pc = "rows" /\ pc' = "poll")
    BY <1>2, Zenon DEF RowsNext, RowsNextResultSet, RowsClose, NetFails, EnterClose,
       Cancel, readVars, callVars
  <2>2. Sound' <=> Sound
    BY <2>1, Zenon DEF Sound, NetErrQueued
  <2> QED  BY <2>1, <2>2, QuietStep, Zenon DEF CallState, Exchange!Next
<1>3. CASE ConnClose
  <2>1. /\ UNCHANGED <<req, result, good, owed, chan, escaped>>
        /\ pc = "free" /\ pc' = "closed"
    BY <1>3, Zenon DEF ConnClose
  <2>2. UNCHANGED <<Health, Unread>>
    BY <2>1, Zenon DEF Health, Unread, Sound, NetErrQueued
  <2> QED  BY <2>1, <2>2, Zenon DEF CallState, Exchange!Next, Exchange!Drop
<1> QED  BY <1>1, <1>2, <1>3, Zenon DEF Application

\* A closed connection stays down.
LEMMA ClosedIsDown == Spec => [](pc = "closed" => net = "down")
<1>1. Init => (pc = "closed" => net = "down")
  BY Zenon DEF Init
<1>2. ASSUME pc = "closed" => net = "down", TypeOK, TypeOK', [Next]_vars
      PROVE  (pc = "closed" => net = "down")'
  <2>1. CASE Reader
    BY <1>2, <2>1, Zenon DEF Reader, ReadToken, ReadDone, ReadSrvError, ReadAttn,
       ReadFails, ReadTimesOut, RowFails, ReaderExit, BackgroundDrain, callVars
  <2>2. CASE Caller
    <3>1. pc' # "closed"
      BY <1>2, <2>2, ReturnTokenEffect, ReturnErrorEffect, Zenon DEF TypeOK, Caller,
         StartReading, NextTokenPoll, NextTokenWait, NextTokenCtxDone, DrainToken,
         DrainClosed, SecondResponse, DrainFails, TakeToken
    <3> QED  BY <3>1, Zenon
  <2>3. CASE Application
    BY <1>2, <2>3, Zenon DEF Application, SendRequest, RowsNext, RowsNextResultSet,
       RowsClose, EnterClose, Cancel, ConnClose, readVars
  <2>4. CASE NetFails \/ UNCHANGED vars
    BY <1>2, <2>4, Zenon DEF NetFails, vars, callVars, readVars
  <2> QED  BY <1>2, <2>1, <2>2, <2>3, <2>4, Zenon DEF Next
<1> QED  BY <1>1, <1>2, TypeCorrect, PTL DEF Spec

\* The connection keeps what Exchange promises to database/sql: calls one at
\* a time, each of which reads its own input to the end or fails, whatever
\* is cancelled, abandoned or lost on the way (nextToken, checkBadConn).
THEOREM SessionIsExchange == Spec => IsExchange
<1>1. Init => Exchange!Init
  <2> SUFFICES ASSUME Init  PROVE Exchange!Init
    BY Zenon
  <2>1. ~NetErrQueued
    BY DEF Init, NetErrQueued, Holds
  <2>2. Sound
    BY <2>1, Zenon DEF Init, Sound
  <2>3. Health = "sound" /\ CallState = "idle"
    BY <2>2, Zenon DEF Init, Sound, Health, CallState
  <2>4. Unread = {}
    BY DEF Init, Unread
  <2> QED  BY <2>3, <2>4, Zenon DEF Init, Exchange!Init
<1>2. ASSUME IInv, IInv', pc = "closed" => net = "down", [Next]_vars
      PROVE  [Exchange!Next]_Exchange!vars
  <2>1. CASE UNCHANGED vars
    BY <2>1, Zenon DEF vars, callVars, readVars, Exchange!vars, CallState, Health,
       Unread, Sound, NetErrQueued
  <2> QED  BY <1>2, <2>1, ReaderRefines, CallerRefines, ApplicationRefines, Zenon DEF Next
<1> QED  BY <1>1, <1>2, InductiveInvariant, ClosedIsDown, PTL DEF Spec, IsExchange, Exchange!Spec
=============================================================================
