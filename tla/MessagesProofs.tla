--------------------------- MODULE MessagesProofs ---------------------------
(***************************************************************************)
(* Proofs about module Messages, for every capacity of the two queues and  *)
(* every length of the reply.                                              *)
(***************************************************************************)
EXTENDS Messages, TLAPS

USE CapAssumption, QueueCapAssumption, MaxTokensAssumption

-----------------------------------------------------------------------------
(* Sequences.                                                               *)

\* A sequence and its length.
LEMMA LenProperties ==
    ASSUME NEW S, NEW seq \in Seq(S)
    PROVE  Len(seq) \in Nat
OBVIOUS

\* Sequences with the same items are equal.
LEMMA SeqEqual ==
    ASSUME NEW S, NEW s \in Seq(S), NEW t \in Seq(S),
           Len(s) = Len(t), \A i \in 1..Len(s) : s[i] = t[i]
    PROVE  s = t
OBVIOUS

\* An item put at the end.
LEMMA AppendProperties ==
    ASSUME NEW S, NEW seq \in Seq(S), NEW elt \in S
    PROVE  /\ Append(seq, elt) \in Seq(S) /\ Append(seq, elt) # <<>>
           /\ Len(Append(seq, elt)) = Len(seq) + 1
           /\ \A i \in 1..Len(seq) : Append(seq, elt)[i] = seq[i]
           /\ Append(seq, elt)[Len(seq) + 1] = elt
OBVIOUS

-----------------------------------------------------------------------------
(* The invariants.                                                          *)

Kinds == {"cols", "row", "done", "last", "scan"}
Failures == {"broken", "plain"}

\* Tokens of these kinds are not announced.
Unannounced == {"row", "scan"}

\* The message that announces a token, and the one that announces nothing.
MsgOf(n) == Msg(IF sent[n] = "cols" THEN "next" ELSE "nextset", n)
Notice == Msg("notice", 0)
Stop == Msg("nextset", 0)

\* The tokens a..b are rows, or errors of output parameters, or one or the
\* other; the token i ends a result set.
OnlyRows(a, b) == \A i \in a..b : sent[i] = "row"
OnlyScans(a, b) == \A i \in a..b : sent[i] = "scan"
Quiet(a, b) == \A i \in a..b : sent[i] \in Unannounced
Ends(i) == i = 0 \/ sent[i] \in {"done", "last"}

\* The reply is a sequence of result sets and ends with its last DONE.
ReplyInv ==
    /\ inRows <=> sent # <<>> /\ sent[Len(sent)] \in {"cols", "row"}
    /\ \A i \in 1..Len(sent) :
          /\ sent[i] = "row" => \E c \in 1..i-1 : sent[c] = "cols" /\ OnlyRows(c+1, i)
          /\ sent[i] = "scan" => \E e \in 0..i-1 : Ends(e) /\ OnlyScans(e+1, i)
          /\ sent[i] = "cols" => i = 1 \/ sent[i-1] \in {"done", "scan"}
          /\ sent[i] = "last" => i = Len(sent) /\ reply = "whole"

\* The reader's state, that of the reply and that of the channel.
CtrlInv ==
    /\ rd \in {"begin", "read"} <=> reply = "open"
    /\ rd = "none" <=> closed
    /\ closed => todo = <<>>

Has(s, k) == \E i \in 1..Len(s) : s[i].kind = k

\* The reply has been read, or the reader failed with a message.
Finished == reply = "broken" \/ (sent # <<>> /\ sent[Len(sent)] = "last")

\* What the reader has still to send is about the token it read last.  The
\* token goes before its message, which goes before the end of the reply.
TodoItem(x) ==
    \/ x = Notice
    \/ x = Stop /\ Finished
    \/ \E f \in Failures : x = Tok(f, 0) /\ reply \in {"broken", "cut"}
    \/ sent # <<>> /\ x = Tok(sent[Len(sent)], Len(sent))
    \/ sent # <<>> /\ sent[Len(sent)] \notin Unannounced /\ x = MsgOf(Len(sent))

Sending == \E i \in 1..Len(todo) : todo[i].to = "chan"
TokenDue == \E i \in 1..Len(todo) : todo[i].to = "chan" /\ todo[i].n # 0
MsgDue == \E i \in 1..Len(todo) : todo[i].to = "queue" /\ todo[i].n # 0

TodoInv ==
    /\ \A i \in 1..Len(todo) : TodoItem(todo[i])
    /\ \A i, j \in 1..Len(todo) : i < j =>
          /\ todo[j].to = "chan" => todo[i] = Notice
          /\ todo[j].n # 0 => todo[i].to = "chan" \/ todo[i] = Notice
    /\ TokenDue /\ sent[Len(sent)] \notin Unannounced => MsgDue

\* The tokens that have been put into the channel, and those whose messages
\* have been put into the queue.
Put == IF TokenDue THEN Len(sent) - 1 ELSE Len(sent)
Told == IF MsgDue THEN Len(sent) - 1 ELSE Len(sent)

\* p tokens have been taken: the channel holds the next ones, in order, and
\* behind them perhaps the reader's failure.
ChanInv(p) ==
    /\ p <= Put /\ Put <= p + Len(chan)
    /\ \A i \in 1..Len(chan) :
          IF p + i <= Put THEN chan[i] = Tok(sent[p + i], p + i)
          ELSE /\ i = Len(chan) /\ reply \in {"broken", "cut"} /\ ~Sending
               /\ chan[i].kind \in Failures

\* The message of the token q was the last one taken: the queue holds the
\* messages of the next tokens, in order.
QueueInv(q) ==
    /\ q <= Told /\ q <= Put
    /\ \A i \in 1..Len(queue) :
          \/ queue[i] = Notice
          \/ queue[i] = Stop /\ Finished /\ ~MsgDue
          \/ \E n \in q+1..Told : n <= Put /\ sent[n] \notin Unannounced /\ queue[i] = MsgOf(n)
    /\ \A i, j \in 1..Len(queue) : i < j /\ queue[j].n # 0 =>
          queue[i] # Stop /\ queue[i].n < queue[j].n
    /\ \A n \in q+1..Told : sent[n] \notin Unannounced => \E i \in 1..Len(queue) : queue[i].n = n

\* How far the application's tokens are from its messages.
StepInv(p, q) ==
    /\ app = "loop" /\ lastcols /\ inResultSet =>
          /\ q = cols /\ q # 0 /\ q <= p /\ sent[q] = "cols"
          /\ OnlyRows(q+1, p) /\ skipped
    /\ app = "loop" /\ lastcols /\ ~inResultSet =>
          q < p /\ Ends(p) /\ OnlyRows(q+1, p-1)
    /\ app = "loop" /\ ~lastcols /\ cols # 0 =>
          /\ p = cols /\ q < p /\ sent[p] = "cols" /\ inResultSet
          /\ OnlyRows(q+1, p-1)
    /\ app = "loop" /\ ~lastcols /\ cols = 0 =>
          q <= p /\ Ends(p) /\ OnlyRows(q+1, p-1) /\ ~inResultSet
    /\ app = "columns" => p < q /\ q = cur /\ sent[q] = "cols" /\ OnlyScans(p+1, q-1)
    /\ app \in {"next", "rows"} =>
          /\ lastcols /\ inResultSet /\ q = cols /\ q = cur /\ q # 0 /\ q <= p
          /\ sent[q] = "cols" /\ OnlyRows(q+1, p)
    /\ app = "rows" => got # <<>> /\ got[Len(got)] = p /\ p > q
    /\ app = "nextset" => /\ ~lastcols
                          /\ \/ q = p /\ Ends(p)
                             \/ /\ p < q /\ Ends(q) /\ OnlyRows(p+1, q-1)
                                /\ p + 1 < q => skipped
                             \/ p < q /\ Ends(q) /\ OnlyScans(p+1, q-1)
                             \/ /\ reply = "broken" /\ OnlyRows(p+1, Len(sent)) /\ skipped

\* The application has all rows among the first p tokens, in order.
AllGot(p) ==
    /\ {got[i] : i \in 1..Len(got)} = {i \in 1..p : sent[i] = "row"}
    /\ \A i, j \in 1..Len(got) : i < j => got[i] < got[j]

Sync(p, q) ==
    /\ ChanInv(p) /\ QueueInv(q) /\ StepInv(p, q)
    /\ requestDone => p = Len(sent) /\ p # 0 /\ sent[p] = "last"
    /\ ~skipped => AllGot(p)

\* Neither the context is done nor the Rows are closed.
Live == ~appCtx /\ ~over

\* While it is so, tokens and messages are in step.
LiveInv ==
    Live =>
        /\ ~ctx /\ ~drainer /\ good /\ app \notin {"close", "finish", "ended"}
        /\ reply = "whole" => sent # <<>> /\ sent[Len(sent)] = "last"
        /\ reply \in {"broken", "cut"} =>
              \E f \in Failures : Has(todo, f) \/ Has(chan, f)
        /\ \E p, q \in 0..Len(sent) : Sync(p, q)

\* The Rows were closed at the end of the reply, or with an error.
OverInv ==
    over /\ ~appCtx =>
        /\ app \in {"loop", "close", "finish", "ended"}
        /\ app \in {"loop", "close"} => reply # "open"
        /\ ~failed => reply = "whole" /\ (~skipped => AllGot(Len(sent)))

-----------------------------------------------------------------------------
(* Type correctness.                                                        *)

\* What may be in the channel and in the queue.
ChanItems == {x \in [to : {"chan"}, kind : Kinds \cup Failures, n : Nat] :
                 x.kind = "cols" => x.n <= MaxTokens}
QueueItems == {x \in [to : {"queue"}, kind : {"next", "nextset", "notice"}, n : Nat] :
                  x.kind = "next" => x.n <= MaxTokens}

ReadType ==
    /\ rd \in {"begin", "read", "close", "none"} /\ budget \in 0..MaxTokens
    /\ reply \in {"open", "whole", "cut", "broken"} /\ inRows \in BOOLEAN
    /\ sent \in Seq(Kinds) /\ todo \in Seq(ChanItems \cup QueueItems)
    /\ rd \in {"begin", "read"} => Len(sent) + budget <= MaxTokens

ChanType ==
    /\ chan \in Seq(ChanItems) /\ Len(chan) <= Cap
    /\ closed \in BOOLEAN /\ drainer \in BOOLEAN

QueueType == queue \in Seq(QueueItems) /\ Len(queue) <= QueueCap

AppType ==
    /\ app \in {"loop", "columns", "next", "rows", "nextset", "close",
                "finish", "ended"}
    /\ cols \in 0..MaxTokens /\ cur \in 0..MaxTokens /\ got \in Seq(Nat)

FlagType ==
    /\ appCtx \in BOOLEAN /\ ctx \in BOOLEAN /\ lastcols \in BOOLEAN
    /\ inResultSet \in BOOLEAN /\ requestDone \in BOOLEAN /\ over \in BOOLEAN
    /\ good \in BOOLEAN /\ skipped \in BOOLEAN /\ failed \in BOOLEAN

Typed == ReadType /\ ChanType /\ QueueType /\ AppType /\ FlagType

\* The parts make the whole.
LEMMA TypeParts == Typed => TypeOK
<1> SUFFICES ASSUME Typed  PROVE TypeOK
  BY Zenon
<1>1. {inRows, closed, drainer, appCtx, ctx, lastcols, inResultSet,
       requestDone, over, good, skipped, failed} \subseteq BOOLEAN
  BY Zenon DEF Typed, ReadType, ChanType, FlagType
<1> QED  BY <1>1, Zenon DEF Typed, ReadType, ChanType, QueueType, AppType, TypeOK

\* The items that the reader makes, and the fields of an item.
LEMMA ItemFacts ==
    /\ \A k \in Kinds \cup Failures, n \in Nat :
          /\ Tok(k, n).to = "chan" /\ Tok(k, n).kind = k /\ Tok(k, n).n = n
          /\ (k = "cols" => n <= MaxTokens) => Tok(k, n) \in ChanItems
    /\ \A k \in {"next", "nextset", "notice"}, n \in Nat :
          /\ Msg(k, n).to = "queue" /\ Msg(k, n).kind = k /\ Msg(k, n).n = n
          /\ (k = "next" => n <= MaxTokens) => Msg(k, n) \in QueueItems
    /\ \A x \in ChanItems :
          /\ x.to = "chan" /\ x.kind \in Kinds \cup Failures /\ x.n \in Nat
          /\ x.kind = "cols" => x.n <= MaxTokens
          /\ x = Tok(x.kind, x.n)
    /\ \A x \in QueueItems :
          /\ x.to = "queue" /\ x.kind \in {"next", "nextset", "notice"} /\ x.n \in Nat
          /\ x.kind = "next" => x.n <= MaxTokens
          /\ x = Msg(x.kind, x.n)
<1>1. \A k \in Kinds \cup Failures, n \in Nat :
          /\ Tok(k, n).to = "chan" /\ Tok(k, n).kind = k /\ Tok(k, n).n = n
          /\ (k = "cols" => n <= MaxTokens) => Tok(k, n) \in ChanItems
  BY Zenon DEF Tok, ChanItems
<1>2. \A k \in {"next", "nextset", "notice"}, n \in Nat :
          /\ Msg(k, n).to = "queue" /\ Msg(k, n).kind = k /\ Msg(k, n).n = n
          /\ (k = "next" => n <= MaxTokens) => Msg(k, n) \in QueueItems
  BY Zenon DEF Msg, QueueItems
<1>3. \A x \in ChanItems :
          /\ x.to = "chan" /\ x.kind \in Kinds \cup Failures /\ x.n \in Nat
          /\ x.kind = "cols" => x.n <= MaxTokens
          /\ x = Tok(x.kind, x.n)
  BY DEF Tok, ChanItems
<1>4. \A x \in QueueItems :
          /\ x.to = "queue" /\ x.kind \in {"next", "nextset", "notice"} /\ x.n \in Nat
          /\ x.kind = "next" => x.n <= MaxTokens
          /\ x = Msg(x.kind, x.n)
  BY DEF Msg, QueueItems
<1> QED  BY <1>1, <1>2, <1>3, <1>4, Zenon

\* The first item of a sequence and the others.
LEMMA TailFacts ==
    ASSUME NEW S, NEW s \in Seq(S), s # <<>>
    PROVE  /\ Head(s) \in S /\ Head(s) = s[1] /\ Tail(s) \in Seq(S)
           /\ Len(s) \in Nat \ {0} /\ Len(Tail(s)) = Len(s) - 1
           /\ \A i \in 1..Len(s)-1 : Tail(s)[i] = s[i+1]
OBVIOUS

\* Short sequences joined together.
LEMMA Join3 ==
    ASSUME NEW a, NEW b, NEW c
    PROVE  <<a>> \o <<b, c>> = <<a, b, c>> /\ <<a, b>> \o <<c>> = <<a, b, c>>
<1> DEFINE S == {a, b, c}
           t == <<a, b, c>>
           u == <<a>> \o <<b, c>>
           v == <<a, b>> \o <<c>>
<1>1. t \in Seq(S) /\ Len(t) = 3 /\ t[1] = a /\ t[2] = b /\ t[3] = c
  OBVIOUS
<1>2. u \in Seq(S) /\ Len(u) = 3 /\ u[1] = a /\ u[2] = b /\ u[3] = c
  OBVIOUS
<1>3. v \in Seq(S) /\ Len(v) = 3 /\ v[1] = a /\ v[2] = b /\ v[3] = c
  OBVIOUS
<1> HIDE DEF t, u, v
<1>4. \A i \in 1..3 : u[i] = t[i] /\ v[i] = t[i]
  BY <1>1, <1>2, <1>3
<1>5. u = t /\ v = t
  BY <1>1, <1>2, <1>3, <1>4, SeqEqual
<1> QED  BY <1>5, Zenon DEF t, u, v

LEMMA Join4 ==
    ASSUME NEW a, NEW b, NEW c, NEW d
    PROVE  <<a, b, c>> \o <<d>> = <<a, b, c, d>>
<1> DEFINE S == {a, b, c, d}
           t == <<a, b, c, d>>
           u == <<a, b, c>> \o <<d>>
<1>1. t \in Seq(S) /\ Len(t) = 4 /\ t[1] = a /\ t[2] = b /\ t[3] = c /\ t[4] = d
  OBVIOUS
<1>2. u \in Seq(S) /\ Len(u) = 4 /\ u[1] = a /\ u[2] = b /\ u[3] = c /\ u[4] = d
  OBVIOUS
<1> HIDE DEF t, u
<1>3. \A i \in 1..4 : u[i] = t[i]
  BY <1>1, <1>2
<1>4. u = t
  BY <1>1, <1>2, <1>3, SeqEqual, Zenon
<1> QED  BY <1>4, Zenon DEF t, u

\* The reader's program for a DONE.
DoneTodo(last) ==
    LET t == Tok(EndKind(last), Number)
        m == Msg("nextset", Number)
    IN  IF last THEN {<<t, m, Stop>>, <<Notice, t, m, Stop>>}
                ELSE {<<t, m>>, <<Notice, t, m>>}

LEMMA ReadDoneTodo ==
    ASSUME NEW last \in BOOLEAN, NEW count \in BOOLEAN, ReadDone(last, count)
    PROVE  todo' \in DoneTodo(last)
<1> DEFINE t == Tok(EndKind(last), Number)
           m == Msg("nextset", Number)
<1>1. todo' = (IF count THEN <<Notice>> ELSE <<>>) \o <<t, m>>
                \o (IF last THEN <<Stop>> ELSE <<>>)
  BY Zenon DEF ReadDone, Notice, Stop
<1> HIDE DEF t, m
<1>2. CASE count /\ last
  <2>1. <<Notice>> \o <<t, m>> = <<Notice, t, m>>
    BY Join3, Zenon
  <2>2. <<Notice, t, m>> \o <<Stop>> = <<Notice, t, m, Stop>>
    BY Join4, Zenon
  <2>3. todo' = (<<Notice>> \o <<t, m>>) \o <<Stop>>
    BY <1>1, <1>2, Zenon
  <2> QED  BY <1>2, <2>1, <2>2, <2>3, Zenon DEF DoneTodo, t, m
<1>3. CASE count /\ ~last
  <2>1. <<Notice>> \o <<t, m>> = <<Notice, t, m>>
    BY Join3, Zenon
  <2>2. todo' = <<Notice, t, m>> \o <<>>
    BY <1>1, <1>3, <2>1, Zenon
  <2>3. todo' = <<Notice, t, m>>
    BY <2>2
  <2> QED  BY <1>3, <2>3, Zenon DEF DoneTodo, t, m
<1>4. CASE ~count /\ last
  <2>1. todo' = <<t, m>> \o <<Stop>>
    BY <1>1, <1>4
  <2>2. todo' = <<t, m, Stop>>
    BY <2>1, Join3, Zenon
  <2> QED  BY <1>4, <2>2, Zenon DEF DoneTodo, t, m
<1>5. CASE ~count /\ ~last
  <2>1. todo' = <<t, m>>
    BY <1>1, <1>5
  <2> QED  BY <1>5, <2>1, Zenon DEF DoneTodo, t, m
<1> QED  BY <1>2, <1>3, <1>4, <1>5, Zenon

\* Reading a token keeps the reader's types.
LEMMA ReadTyped == ASSUME ReadType, Server  PROVE ReadType'
<1> DEFINE I == ChanItems \cup QueueItems
<1>1. /\ Len(sent) \in Nat /\ Number \in Nat /\ Number = Len(sent) + 1
      /\ Notice \in I /\ Stop \in I
      /\ \A f \in Failures : Tok(f, 0) \in I
  <2>1. Len(sent) \in Nat /\ Number \in Nat /\ Number = Len(sent) + 1
    BY DEF ReadType, Number
  <2>2. Notice \in I /\ Stop \in I
    BY ItemFacts, Zenon DEF Notice, Stop
  <2>3. \A f \in Failures : Tok(f, 0) \in I
    BY ItemFacts, Zenon DEF Failures
  <2> QED  BY <2>1, <2>2, <2>3, Zenon
<1>2. CASE ReadColumns
  <2>1. Tok("cols", Number) \in I /\ Msg("next", Number) \in I
    BY <1>1, <1>2, ItemFacts DEF ReadColumns, Reading, ReadType, Kinds
  <2>2. todo' \in Seq(I) /\ sent' \in Seq(Kinds) /\ Len(sent') = Len(sent) + 1
    <3> HIDE DEF I
    <3> QED  BY <1>2, <2>1 DEF ReadColumns, ReadType, Kinds
  <2>3. inRows' \in BOOLEAN
    BY <1>2, Zenon DEF ReadColumns
  <2> QED  BY <1>1, <1>2, <2>2, <2>3 DEF ReadColumns, Reading, ReadType
<1>3. CASE ReadRow
  <2>1. Tok("row", Number) \in I
    BY <1>1, ItemFacts, Zenon DEF Kinds
  <2>2. todo' \in Seq(I) /\ sent' \in Seq(Kinds) /\ Len(sent') = Len(sent) + 1
    <3> HIDE DEF I
    <3> QED  BY <1>3, <2>1 DEF ReadRow, ReadType, Kinds
  <2> QED  BY <1>1, <1>3, <2>2 DEF ReadRow, Reading, ReadType
<1>7. CASE ReadReturnValue
  <2>1. Tok("scan", Number) \in I
    BY <1>1, ItemFacts, Zenon DEF Kinds
  <2>2. todo' \in Seq(I) /\ sent' \in Seq(Kinds) /\ Len(sent') = Len(sent) + 1
    <3> HIDE DEF I
    <3> QED  BY <1>7, <2>1 DEF ReadReturnValue, ReadType, Kinds
  <2> QED  BY <1>1, <1>7, <2>2 DEF ReadReturnValue, Reading, ReadType
<1>4. CASE ReadNotice
  <2>1. todo' \in Seq(I)
    <3> HIDE DEF I
    <3> QED  BY <1>1, <1>4 DEF ReadNotice, Notice
  <2> QED  BY <1>1, <1>4, <2>1 DEF ReadNotice, Reading, ReadType
<1>5. CASE ReadFails
  <2>1. todo' \in Seq(I)
    <3>1. Tok("broken", 0) \in I /\ Tok("plain", 0) \in I
          /\ Msg("notice", 0) \in I /\ Msg("nextset", 0) \in I
      BY <1>1, Zenon DEF Failures, Notice, Stop
    <3> HIDE DEF I
    <3>2. /\ <<Tok("broken", 0)>> \in Seq(I) /\ <<Tok("plain", 0)>> \in Seq(I)
          /\ <<Msg("notice", 0), Tok("broken", 0)>> \in Seq(I)
          /\ <<Msg("notice", 0), Tok("plain", 0)>> \in Seq(I)
          /\ <<Tok("broken", 0), Msg("nextset", 0)>> \in Seq(I)
      BY <3>1
    <3> QED  BY <1>5, <3>2, Zenon DEF ReadFails
  <2> QED  BY <1>1, <1>5, <2>1, Zenon DEF ReadFails, Reading, ReadType
<1>6. ASSUME NEW last \in BOOLEAN, NEW count \in BOOLEAN, ReadDone(last, count)
      PROVE  ReadType'
  <2>1. /\ EndKind(last) \in Kinds /\ EndKind(last) # "cols"
        /\ Tok(EndKind(last), Number) \in I /\ Msg("nextset", Number) \in I
    BY <1>1, ItemFacts, Zenon DEF EndKind, Kinds
  <2>2. todo' \in DoneTodo(last)
    BY <1>6, ReadDoneTodo, Zenon
  <2>3. todo' \in Seq(I)
    <3> DEFINE t == Tok(EndKind(last), Number)
               m == Msg("nextset", Number)
    <3>1. todo' \in {<<t, m, Stop>>, <<Notice, t, m, Stop>>, <<t, m>>, <<Notice, t, m>>}
      BY <2>2, Zenon DEF DoneTodo
    <3>2. t \in I /\ m \in I /\ Notice \in I /\ Stop \in I
      BY <1>1, <2>1, Zenon
    <3> HIDE DEF I, t, m
    <3>3. <<t, m>> \in Seq(I) /\ <<t, m, Stop>> \in Seq(I)
      BY <3>2
    <3>4. <<Notice, t, m>> \in Seq(I) /\ <<Notice, t, m, Stop>> \in Seq(I)
      BY <3>2
    <3> QED  BY <3>1, <3>3, <3>4, Zenon
  <2>4. sent' \in Seq(Kinds) /\ Len(sent') = Len(sent) + 1
    BY <1>6, <2>1 DEF ReadDone, ReadType
  <2>5. inRows' \in BOOLEAN
    BY <1>6, Zenon DEF ReadDone
  <2>6. /\ rd' \in {"read", "close"} /\ budget' \in 0..MaxTokens
        /\ reply' \in {"open", "whole", "cut", "broken"}
    BY <1>6 DEF ReadDone, Reading, ReadType
  <2>7. rd' = "read" => Len(sent') + budget' <= MaxTokens
    BY <1>1, <1>6, <2>4 DEF ReadDone, Reading, ReadType
  <2> QED  BY <2>3, <2>4, <2>5, <2>6, <2>7, Zenon DEF ReadType
<1> QED  BY <1>2, <1>3, <1>4, <1>5, <1>6, <1>7, Zenon DEF Server

\* What the Rows do with a token keeps their types.
LEMMA TakeTyped ==
    ASSUME AppType, FlagType, NEW k, NEW n \in Nat, k = "cols" => n <= MaxTokens,
           Take(k, n)
    PROVE  AppType' /\ FlagType'
<1>1. CASE Columns(k, n)
  <2>1. AppType'
    BY <1>1 DEF Columns, AppType
  <2>2. lastcols' \in BOOLEAN /\ inResultSet' \in BOOLEAN
    BY <1>1, Zenon DEF Columns, FlagType
  <2> QED  BY <1>1, <2>1, <2>2, Zenon DEF Columns, FlagType, ctxVars
<1>2. CASE NextToken(k, n)
  <2>0. got' \in {got, Append(got, n)}
    BY <1>2, Zenon DEF NextToken
  <2>a. got' \in Seq(Nat)
    BY <2>0 DEF AppType
  <2>b. /\ app' \in {app, "rows", "loop", "close"} /\ UNCHANGED cur
        /\ cols' = cols
    BY <1>2, Zenon DEF NextToken, EnterClose, rowsVars
  <2>1. AppType'
    BY <2>a, <2>b, Zenon DEF AppType
  <2>2. /\ inResultSet' \in BOOLEAN /\ requestDone' \in BOOLEAN /\ over' \in BOOLEAN
        /\ ctx' \in BOOLEAN /\ good' \in BOOLEAN /\ failed' \in BOOLEAN
    <3>1. ASSUME k \in Errors, CheckBadConn(k)  PROVE good' \in BOOLEAN
      BY <3>1, Zenon DEF Errors, CheckBadConn, FlagType
    <3> QED  BY <1>2, <3>1, Zenon DEF NextToken, FlagType, rowsVars, EnterClose
  <2> QED  BY <1>2, <2>1, <2>2, Zenon DEF NextToken, FlagType
<1>3. CASE NextResultSetToken(k, n)
  <2>1. AppType'
    BY <1>3 DEF NextResultSetToken, AppType, EnterClose, rowsVars
  <2>2. /\ inResultSet' \in BOOLEAN /\ requestDone' \in BOOLEAN /\ over' \in BOOLEAN
        /\ ctx' \in BOOLEAN /\ good' \in BOOLEAN /\ failed' \in BOOLEAN
    BY <1>3, Zenon DEF NextResultSetToken, FlagType, rowsVars, EnterClose
  <2> QED  BY <1>3, <2>1, <2>2, Zenon DEF NextResultSetToken, FlagType
<1>4. CASE CloseToken(k)
  <2>1. AppType'
    BY <1>4, Zenon DEF CloseToken, AppType, rowsVars, sqlVars
  <2> QED  BY <1>4, <2>1, Zenon DEF CloseToken, FlagType, rowsVars, sqlVars, ctxVars
<1> QED  BY <1>1, <1>2, <1>3, <1>4, Zenon DEF Take

\* The first token in the channel.
LEMMA FirstToken ==
    ASSUME ChanType, chan # <<>>
    PROVE  /\ Head(chan) = chan[1] /\ Head(chan) \in ChanItems
           /\ Head(chan).n \in Nat
           /\ Head(chan).kind = "cols" => Head(chan).n <= MaxTokens
           /\ Head(chan).kind \in Kinds \cup Failures
           /\ Tail(chan) \in Seq(ChanItems) /\ Len(Tail(chan)) = Len(chan) - 1
           /\ \A i \in 1..Len(chan)-1 : Tail(chan)[i] = chan[i+1]
<1>1. chan \in Seq(ChanItems)
  BY Zenon DEF ChanType
<1>2. Head(chan) \in ChanItems
  BY <1>1, TailFacts, Zenon
<1> QED  BY <1>1, <1>2, TailFacts, ItemFacts

\* The first message in the queue.
LEMMA FirstMessage ==
    ASSUME QueueType, queue # <<>>
    PROVE  /\ Head(queue) = queue[1] /\ Head(queue) \in QueueItems
           /\ Head(queue).n \in Nat
           /\ Head(queue).kind = "next" => Head(queue).n <= MaxTokens
           /\ Tail(queue) \in Seq(QueueItems) /\ Len(Tail(queue)) = Len(queue) - 1
           /\ \A i \in 1..Len(queue)-1 : Tail(queue)[i] = queue[i+1]
<1>1. queue \in Seq(QueueItems)
  BY Zenon DEF QueueType
<1>2. Head(queue) \in QueueItems
  BY <1>1, TailFacts, Zenon
<1> QED  BY <1>1, <1>2, TailFacts, ItemFacts, Zenon

\* The first item that the reader has still to send.
LEMMA FirstTodo ==
    ASSUME ReadType, todo # <<>>
    PROVE  /\ Head(todo) = todo[1] /\ Head(todo) \in ChanItems \cup QueueItems
           /\ Head(todo).to = "chan" => Head(todo) \in ChanItems
           /\ Head(todo).to = "queue" => Head(todo) \in QueueItems
           /\ Tail(todo) \in Seq(ChanItems \cup QueueItems)
           /\ Len(Tail(todo)) = Len(todo) - 1
           /\ \A i \in 1..Len(todo)-1 : Tail(todo)[i] = todo[i+1]
<1> DEFINE I == ChanItems \cup QueueItems
<1>1. todo \in Seq(I)
  BY Zenon DEF ReadType
<1>2. /\ Head(todo) = todo[1] /\ Head(todo) \in I /\ Tail(todo) \in Seq(I)
      /\ Len(Tail(todo)) = Len(todo) - 1
      /\ \A i \in 1..Len(todo)-1 : Tail(todo)[i] = todo[i+1]
  <2> HIDE DEF I
  <2> QED  BY <1>1, TailFacts, Zenon
<1>3. /\ Head(todo).to = "chan" => Head(todo) \in ChanItems
      /\ Head(todo).to = "queue" => Head(todo) \in QueueItems
  BY <1>2, ItemFacts, Zenon
<1> QED  BY <1>2, <1>3, Zenon

\* Every step keeps the types.
LEMMA TypeStep == ASSUME Typed, [Next]_vars  PROVE Typed'
<1> USE DEF Typed
<1> DEFINE Others == AppType' /\ FlagType'
<1>a. ASSUME UNCHANGED <<ctxVars, app, rowsVars, sqlVars>>  PROVE Others
  BY <1>a DEF AppType, FlagType, ctxVars, rowsVars, sqlVars
<1>b. ASSUME UNCHANGED readVars  PROVE ReadType'
  BY <1>b, Zenon DEF ReadType, readVars
<1>c. ASSUME UNCHANGED chanVars  PROVE ChanType'
  BY <1>c, Zenon DEF ChanType, chanVars
<1>d. ASSUME UNCHANGED queue  PROVE QueueType'
  BY <1>d, Zenon DEF QueueType
<1>1. CASE Server
  <2>1. UNCHANGED ReaderOnly
    BY <1>1, Zenon DEF Server, ReadColumns, ReadRow, ReadNotice, ReadReturnValue, ReadFails, ReadDone
  <2> QED  BY <1>1, <1>a, <1>c, <1>d, <2>1, ReadTyped, Zenon DEF ReaderOnly
<1>2. CASE SendToken
  <2>1. Head(todo) \in ChanItems /\ todo' \in Seq(ChanItems \cup QueueItems)
    BY <1>2, FirstTodo, Zenon DEF SendToken
  <2>2. chan' \in Seq(ChanItems) /\ Len(chan') = Len(chan) + 1
    BY <1>2, <2>1, AppendProperties, Zenon DEF SendToken, ChanType
  <2>3. ChanType'
    BY <1>2, <2>2 DEF SendToken, ChanType
  <2> QED  BY <1>2, <1>a, <1>d, <2>1, <2>3, Zenon DEF SendToken, ReadType
<1>3. CASE Enqueue
  <2>1. Head(todo) \in QueueItems /\ todo' \in Seq(ChanItems \cup QueueItems)
    BY <1>3, FirstTodo, Zenon DEF Enqueue
  <2>2. QueueType'
    <3>1. CASE Len(queue) < QueueCap /\ queue' = Append(queue, Head(todo))
      <4>1. queue' \in Seq(QueueItems) /\ Len(queue') = Len(queue) + 1
        BY <2>1, <3>1, AppendProperties, Zenon DEF QueueType
      <4>2. Len(queue) \in Nat
        BY LenProperties, Zenon DEF QueueType
      <4> QED  BY <3>1, <4>1, <4>2 DEF QueueType
    <3> QED  BY <1>3, <1>d, <3>1, Zenon DEF Enqueue
  <2> QED  BY <1>3, <1>a, <1>c, <2>1, <2>2, Zenon DEF Enqueue, ReadType
<1>4. CASE ReaderExit
  <2>1. closed' \in BOOLEAN
    BY <1>4, Zenon DEF ReaderExit
  <2> QED  BY <1>4, <1>a, <1>d, <2>1, Zenon DEF ReaderExit, ReadType, ChanType
<1>5. CASE BackgroundDrain
  <2>1. chan' \in Seq(ChanItems) /\ Len(chan') = Len(chan) - 1
    BY <1>5, FirstToken, Zenon DEF BackgroundDrain
  <2>2. Len(chan) \in Nat
    BY LenProperties, Zenon DEF ChanType
  <2> QED  BY <1>5, <1>a, <1>b, <1>d, <2>1, <2>2 DEF BackgroundDrain, ChanType
<1>6. CASE TakeToken
  <2>1. CASE chan # <<>> /\ chan' = Tail(chan) /\ Take(Head(chan).kind, Head(chan).n)
    <3>1. Others
      BY <2>1, FirstToken, TakeTyped, Zenon
    <3>2. chan' \in Seq(ChanItems) /\ Len(chan') = Len(chan) - 1 /\ Len(chan) \in Nat
      BY <2>1, FirstToken, LenProperties, Zenon DEF ChanType
    <3> QED  BY <1>6, <1>b, <1>d, <3>1, <3>2 DEF TakeToken, ChanType
  <2>2. CASE UNCHANGED chan /\ Take("nil", 0)
    <3>1. Others
      BY <2>2, TakeTyped, Zenon
    <3> QED  BY <1>6, <1>b, <1>d, <2>2, <3>1, Zenon DEF TakeToken, ChanType
  <2> QED  BY <1>6, <2>1, <2>2, Zenon DEF TakeToken
<1>7. CASE Attention
  <2>1. CASE /\ Take("ctx", 0) /\ rd' = "none" /\ todo' = <<>> /\ closed' = TRUE
             /\ reply' = (IF reply = "open" THEN "whole" ELSE reply)
             /\ UNCHANGED <<budget, inRows, sent, chan, drainer>>
    <3>1. Others
      BY <2>1, TakeTyped, Zenon
    <3>2. closed' \in BOOLEAN
      BY <2>1, Zenon
    <3>3. ReadType'
      BY <2>1 DEF ReadType
    <3>4. ChanType'
      BY <2>1, <3>2, Zenon DEF ChanType
    <3> QED  BY <1>7, <1>d, <3>1, <3>3, <3>4, Zenon DEF Attention
  <2>2. CASE Take("broken", 0) /\ drainer' = TRUE /\ UNCHANGED <<readVars, chan, closed>>
    <3>1. Others
      BY <2>2, TakeTyped, Zenon
    <3>2. drainer' \in BOOLEAN
      BY <2>2, Zenon
    <3> QED  BY <1>7, <1>b, <1>d, <2>2, <3>1, <3>2, Zenon DEF Attention, ChanType
  <2> QED  BY <1>7, <2>1, <2>2, Zenon DEF Attention
<1>8. CASE HandleNext
  <2>1. QueueType' /\ cur' \in 0..MaxTokens
    <3>1. Len(queue) \in Nat
      BY LenProperties, Zenon DEF QueueType
    <3> QED  BY <1>8, <3>1, FirstMessage DEF HandleNext, QueueType
  <2>2. AppType'
    BY <1>8, <2>1, Zenon DEF HandleNext, CallNext, EnterClose, AppType, rowsVars
  <2>3. lastcols' \in BOOLEAN /\ ctx' \in BOOLEAN /\ over' \in BOOLEAN
    BY <1>8, Zenon DEF HandleNext, CallNext, EnterClose, FlagType
  <2> QED  BY <1>8, <1>b, <1>c, <2>1, <2>2, <2>3, Zenon
          DEF HandleNext, Calls, FlagType, rowsVars
<1>9. CASE HandleNotice
  <2>1. QueueType'
    <3>1. Len(queue) \in Nat
      BY LenProperties, Zenon DEF QueueType
    <3> QED  BY <1>9, <3>1, FirstMessage DEF HandleNotice, QueueType
  <2> QED  BY <1>9, <1>a, <1>b, <1>c, <2>1, Zenon DEF HandleNotice, Calls, ctxVars
<1>10. CASE HandleNextResultSet
  <2>1. QueueType'
    <3>1. Len(queue) \in Nat
      BY LenProperties, Zenon DEF QueueType
    <3> QED  BY <1>10, <3>1, FirstMessage DEF HandleNextResultSet, QueueType
  <2>2. AppType'
    BY <1>10, Zenon DEF HandleNextResultSet, EnterClose, AppType, rowsVars
  <2>3. lastcols' \in BOOLEAN /\ ctx' \in BOOLEAN /\ over' \in BOOLEAN
    BY <1>10, Zenon DEF HandleNextResultSet, EnterClose, FlagType
  <2> QED  BY <1>10, <1>b, <1>c, <2>1, <2>2, <2>3, Zenon
          DEF HandleNextResultSet, Calls, FlagType, rowsVars
<1>11. CASE AfterRow
  <2>1. AppType'
    BY <1>11, Zenon DEF AfterRow, CallNext, EnterClose, AppType, rowsVars
  <2>2. lastcols' \in BOOLEAN /\ ctx' \in BOOLEAN /\ over' \in BOOLEAN /\ skipped' \in BOOLEAN
    BY <1>11, Zenon DEF AfterRow, CallNext, EnterClose, FlagType
  <2> QED  BY <1>11, <1>b, <1>c, <1>d, <2>1, <2>2, Zenon DEF AfterRow, Calls, FlagType, rowsVars
<1>12. CASE Cancel \/ SqlCloses
  <2>1. AppType'
    BY <1>12, Zenon DEF Cancel, SqlCloses, EnterClose, AppType, rowsVars, sqlVars
  <2>2. appCtx' \in BOOLEAN /\ ctx' \in BOOLEAN /\ over' \in BOOLEAN
    BY <1>12, Zenon DEF Cancel, SqlCloses, EnterClose, FlagType, Calls, sqlVars
  <2> QED  BY <1>12, <1>b, <1>c, <1>d, <2>1, <2>2, Zenon
          DEF Cancel, SqlCloses, EnterClose, Calls, FlagType, rowsVars, sqlVars
<1>13. CASE UNCHANGED vars
  BY <1>13, <1>a, <1>b, <1>c, <1>d, Zenon DEF vars
<1> QED  BY <1>1, <1>2, <1>3, <1>4, <1>5, <1>6, <1>7, <1>8, <1>9, <1>10, <1>11, <1>12,
            <1>13, Zenon DEF Next, Reader, Application

\* The query starts well typed.
LEMMA InitTyped == ASSUME Init  PROVE Typed
<1>1. FlagType
  BY Zenon DEF Init, FlagType
<1>2. inRows \in BOOLEAN /\ closed \in BOOLEAN /\ drainer \in BOOLEAN
  BY Zenon DEF Init
<1>3. ReadType /\ ChanType /\ QueueType /\ AppType
  BY <1>2 DEF Init, ReadType, ChanType, QueueType, AppType
<1> QED  BY <1>1, <1>3, Zenon DEF Typed

\* The variables of Rowsq keep their types, and neither the channel nor the
\* queue holds more than its capacity.
THEOREM TypeCorrect == Spec => []TypeOK
<1>1. Init => Typed
  BY InitTyped, Zenon
<1>2. Typed /\ [Next]_vars => Typed'
  BY TypeStep, Zenon
<1>3. Typed => TypeOK
  BY TypeParts, Zenon
<1> QED  BY <1>1, <1>2, <1>3, PTL DEF Spec

-----------------------------------------------------------------------------
(* The reader's failures.                                                   *)

\* What is in a sequence of items.
LEMMA HasFacts ==
    ASSUME NEW k
    PROVE  /\ ~Has(<<>>, k)
           /\ \A S : \A s \in Seq(S) : \A x \in S :
                 Has(Append(s, x), k) <=> Has(s, k) \/ x.kind = k
           /\ \A S : \A s \in Seq(S) : s # <<>> =>
                 (Has(s, k) <=> Head(s).kind = k \/ Has(Tail(s), k))
<1>1. ~Has(<<>>, k)
  BY DEF Has
<1>2. ASSUME NEW S, NEW s \in Seq(S), NEW x \in S
      PROVE  Has(Append(s, x), k) <=> Has(s, k) \/ x.kind = k
  <2>1. /\ Len(s) \in Nat /\ Len(Append(s, x)) = Len(s) + 1
        /\ \A i \in 1..Len(s) : Append(s, x)[i] = s[i]
        /\ Append(s, x)[Len(s) + 1] = x
    BY AppendProperties, LenProperties
  <2>2. \A i \in 1..Len(s)+1 : i \in 1..Len(s) \/ i = Len(s) + 1
    BY <2>1
  <2>3. 1..Len(s) \subseteq 1..Len(s)+1 /\ Len(s) + 1 \in 1..Len(s)+1
    BY <2>1
  <2> QED  BY <2>1, <2>2, <2>3, Zenon DEF Has
<1>3. ASSUME NEW S, NEW s \in Seq(S), s # <<>>
      PROVE  Has(s, k) <=> Head(s).kind = k \/ Has(Tail(s), k)
  <2>1. /\ Head(s) = s[1] /\ Len(s) \in Nat \ {0} /\ Len(Tail(s)) = Len(s) - 1
        /\ \A i \in 1..Len(s)-1 : Tail(s)[i] = s[i+1]
    BY <1>3, TailFacts, Zenon
  <2>2. \A i \in 1..Len(s) : i = 1 \/ (i - 1 \in 1..Len(s)-1 /\ (i - 1) + 1 = i)
    BY <2>1
  <2>3. 1 \in 1..Len(s) /\ \A i \in 1..Len(s)-1 : i + 1 \in 1..Len(s)
    BY <2>1
  <2>4. ASSUME Has(s, k)  PROVE Head(s).kind = k \/ Has(Tail(s), k)
    <3>1. PICK i \in 1..Len(s) : s[i].kind = k
      BY <2>4, Zenon DEF Has
    <3>2. CASE i = 1
      BY <2>1, <3>1, <3>2, Zenon
    <3>3. CASE i - 1 \in 1..Len(s)-1 /\ (i - 1) + 1 = i
      <4>1. Tail(s)[i-1].kind = k
        BY <2>1, <3>1, <3>3, Zenon
      <4> QED  BY <2>1, <3>3, <4>1, Zenon DEF Has
    <3> QED  BY <2>2, <3>2, <3>3, Zenon
  <2>5. ASSUME Head(s).kind = k  PROVE Has(s, k)
    BY <2>1, <2>3, <2>5, Zenon DEF Has
  <2>6. ASSUME Has(Tail(s), k)  PROVE Has(s, k)
    BY <2>1, <2>3, <2>6, Zenon DEF Has
  <2> QED  BY <2>4, <2>5, <2>6, Zenon
<1> QED  BY <1>1, <1>2, <1>3, Zenon

\* What is in a short sequence.
LEMMA HasOne == ASSUME NEW a  PROVE \A k : Has(<<a>>, k) <=> a.kind = k
BY DEF Has

LEMMA HasTwo ==
    ASSUME NEW a, NEW b  PROVE \A k : Has(<<a, b>>, k) <=> a.kind = k \/ b.kind = k
BY DEF Has

\* Every step keeps the reader, the reply and the channel together.
LEMMA CtrlStep == ASSUME Typed, CtrlInv, [Next]_vars  PROVE CtrlInv'
<1>1. CASE Server
  <2>1. UNCHANGED closed /\ Reading
    BY <1>1, Zenon DEF Server, ReadColumns, ReadRow, ReadNotice, ReadReturnValue, ReadFails, ReadDone,
                ReaderOnly, chanVars
  <2>2. rd' \in {"begin", "read", "close"} /\ (rd' \in {"begin", "read"} <=> reply' = "open")
    BY <1>1, <2>1, Zenon DEF Server, ReadColumns, ReadRow, ReadNotice, ReadReturnValue, ReadFails, ReadDone,
                      Reading, CtrlInv
  <2> QED  BY <2>1, <2>2, Zenon DEF CtrlInv, Reading
<1>2. CASE SendToken \/ Enqueue
  BY <1>2 DEF SendToken, Enqueue, CtrlInv, chanVars
<1>3. CASE ReaderExit
  BY <1>3, Zenon DEF ReaderExit, CtrlInv
<1>4. CASE Attention
  BY <1>4 DEF Attention, CtrlInv, readVars, Typed, ReadType
<1>5. CASE UNCHANGED <<readVars, closed>>
  BY <1>5, Zenon DEF CtrlInv, readVars
<1>6. CASE BackgroundDrain \/ TakeToken \/ HandleNext \/ HandleNotice
           \/ HandleNextResultSet \/ AfterRow \/ Cancel \/ SqlCloses \/ UNCHANGED vars
  BY <1>5, <1>6, Zenon DEF BackgroundDrain, TakeToken, HandleNext, HandleNotice,
     HandleNextResultSet, AfterRow, Cancel, SqlCloses, Calls, chanVars, vars
<1> QED  BY <1>1, <1>2, <1>3, <1>4, <1>6, Zenon DEF Next, Reader, Application

\* A reader that fails has its failure to send.
LEMMA ReadHas ==
    ASSUME ReadType, CtrlInv, Server, reply' \in {"broken", "cut"}
    PROVE  \E f \in Failures : Has(todo', f)
<1>0. reply = "open"
  BY Zenon DEF Server, ReadColumns, ReadRow, ReadNotice, ReadReturnValue, ReadFails, ReadDone,
     Reading, CtrlInv
<1>1. ReadFails
  BY <1>0, Zenon DEF Server, ReadColumns, ReadRow, ReadNotice, ReadReturnValue, ReadDone
<1>2. Tok("broken", 0).kind = "broken" /\ Tok("plain", 0).kind = "plain"
  BY Zenon DEF Tok
<1>3. Has(<<Tok("broken", 0)>>, "broken") /\ Has(<<Tok("plain", 0)>>, "plain")
  BY <1>2, HasOne, Zenon
<1>4. /\ Has(<<Notice, Tok("broken", 0)>>, "broken") /\ Has(<<Notice, Tok("plain", 0)>>, "plain")
      /\ Has(<<Tok("broken", 0), Stop>>, "broken")
  BY <1>2, HasTwo, Zenon
<1>5. todo' \in {<<Tok("broken", 0)>>, <<Tok("plain", 0)>>, <<Notice, Tok("broken", 0)>>,
                 <<Notice, Tok("plain", 0)>>, <<Tok("broken", 0), Stop>>}
  BY <1>1, Zenon DEF ReadFails, Notice, Stop
<1> QED  BY <1>3, <1>4, <1>5, Zenon DEF Failures

-----------------------------------------------------------------------------
(* The reply and what the reader has still to send.                         *)

\* The fields of the messages, and that they differ.
LEMMA MessageFacts ==
    /\ Notice.to = "queue" /\ Notice.kind = "notice" /\ Notice.n = 0
    /\ Stop.to = "queue" /\ Stop.kind = "nextset" /\ Stop.n = 0 /\ Stop # Notice
    /\ \A n \in Nat : /\ MsgOf(n).to = "queue" /\ MsgOf(n).n = n
                      /\ MsgOf(n).kind = IF sent[n] = "cols" THEN "next" ELSE "nextset"
    /\ \A k, n : Tok(k, n).to = "chan" /\ Tok(k, n).kind = k /\ Tok(k, n).n = n
<1>1. /\ Notice.to = "queue" /\ Notice.kind = "notice" /\ Notice.n = 0
      /\ Stop.to = "queue" /\ Stop.kind = "nextset" /\ Stop.n = 0
  BY Zenon DEF Notice, Stop, Msg
<1>2. Stop # Notice
  BY <1>1, Zenon
<1>3. \A n \in Nat : /\ MsgOf(n).to = "queue" /\ MsgOf(n).n = n
                     /\ MsgOf(n).kind = IF sent[n] = "cols" THEN "next" ELSE "nextset"
  BY Zenon DEF MsgOf, Msg
<1>4. \A k, n : Tok(k, n).to = "chan" /\ Tok(k, n).kind = k /\ Tok(k, n).n = n
  BY Zenon DEF Tok
<1> QED  BY <1>1, <1>2, <1>3, <1>4

\* The reply goes on with columns, a row, an error or a DONE.
LEMMA ReplyGrows ==
    ASSUME ReadType, ReplyInv, reply = "open", NEW k \in Kinds,
           sent' = Append(sent, k), k = "row" => inRows, k \in {"cols", "scan"} => ~inRows,
           inRows' <=> k \in {"cols", "row"}, k = "last" => reply' = "whole"
    PROVE  /\ ReplyInv' /\ Len(sent') = Len(sent) + 1 /\ sent'[Len(sent')] = k
           /\ \A i \in 1..Len(sent) : sent'[i] = sent[i]
<1>0. PICK N \in Nat : N = Len(sent)
  BY LenProperties, Zenon DEF ReadType
<1>1. /\ N \in Nat /\ Len(sent') = N + 1 /\ sent'[N + 1] = k /\ N = Len(sent)
      /\ \A i \in 1..N : sent'[i] = sent[i]
  BY <1>0, AppendProperties DEF ReadType
<1>2. inRows' <=> sent' # <<>> /\ sent'[Len(sent')] \in {"cols", "row"}
  BY <1>1
<1>3. \A i \in 1..N : sent[i] # "last" /\ sent[i] \in Kinds
  BY <1>0 DEF ReplyInv, ReadType
<1>a. ASSUME NEW i \in 1..N, sent'[i] = "row"
      PROVE  \E c \in 1..i-1 : sent'[c] = "cols" /\ OnlyRows(c+1, i)'
  <2>1. PICK c \in 1..i-1 : sent[c] = "cols" /\ OnlyRows(c+1, i)
    BY <1>1, <1>a, Zenon DEF ReplyInv
  <2>2. c \in 1..N /\ \A j \in c+1..i : j \in 1..N
    BY <1>1
  <2> QED  BY <1>1, <2>1, <2>2, Zenon DEF OnlyRows
<1>b. ASSUME NEW i \in 1..N, sent'[i] = "scan"
      PROVE  \E e \in 0..i-1 : Ends(e)' /\ OnlyScans(e+1, i)'
  <2>1. PICK e \in 0..i-1 : Ends(e) /\ OnlyScans(e+1, i)
    BY <1>1, <1>b, Zenon DEF ReplyInv
  <2>2. (e = 0 \/ e \in 1..N) /\ \A j \in e+1..i : j \in 1..N
    BY <1>1
  <2> QED  BY <1>1, <2>1, <2>2, Zenon DEF OnlyScans, Ends
<1>4. \A i \in 1..N : /\ sent'[i] = "cols" => i = 1 \/ sent'[i-1] \in {"done", "scan"}
                      /\ sent'[i] # "last"
  BY <1>1, <1>3 DEF ReplyInv
<1>c. ASSUME k = "row"
      PROVE  \E c \in 1..N : sent'[c] = "cols" /\ OnlyRows(c+1, N+1)'
  <2>1. N \in 1..N /\ sent[N] \in {"cols", "row"}
    <3>1. sent # <<>> /\ sent[N] \in {"cols", "row"}
      BY <1>0, <1>c, Zenon DEF ReplyInv
    <3> QED  BY <1>0, <3>1 DEF ReadType
  <2>2. CASE sent[N] = "cols"
    <3>1. OnlyRows(N+1, N+1)'
      BY <1>1, <1>c DEF OnlyRows
    <3> QED  BY <1>1, <2>1, <2>2, <3>1, Zenon
  <2>3. CASE sent[N] = "row"
    <3>1. PICK c \in 1..N-1 : sent'[c] = "cols" /\ OnlyRows(c+1, N)'
      BY <1>1, <1>a, <2>1, <2>3, Zenon
    <3>2. c \in 1..N /\ \A j \in c+1..N+1 : j \in c+1..N \/ j = N+1
      BY <1>1
    <3>3. OnlyRows(c+1, N+1)'
      BY <1>1, <1>c, <3>1, <3>2, Zenon DEF OnlyRows
    <3> QED  BY <3>1, <3>2, <3>3, Zenon
  <2> QED  BY <2>1, <2>2, <2>3, Zenon
<1>d. ASSUME k \in {"cols", "scan"}
      PROVE  N = 0 \/ (N \in 1..N /\ sent[N] \in {"done", "scan"})
  <2>1. CASE N = 0
    BY <2>1
  <2>2. CASE N # 0
    <3>1. N \in 1..N /\ sent # <<>>
      BY <1>1, <2>2
    <3>2. sent[N] \in Kinds /\ sent[N] # "last"
      BY <1>3, <3>1, Zenon
    <3> QED  BY <1>1, <1>d, <3>1, <3>2 DEF ReplyInv, Kinds
  <2> QED  BY <2>1, <2>2, Zenon
<1>e. ASSUME k = "scan"
      PROVE  \E e \in 0..N : Ends(e)' /\ OnlyScans(e+1, N+1)'
  <2>0. N = 0 \/ (N \in 1..N /\ sent[N] \in {"done", "scan"})
    BY <1>d, <1>e, Zenon
  <2>1. CASE N = 0 \/ (N \in 1..N /\ sent[N] = "done")
    <3>1. Ends(N)'
      BY <1>1, <2>1, Zenon DEF Ends
    <3>2. OnlyScans(N+1, N+1)'
      BY <1>1, <1>e DEF OnlyScans
    <3>3. N \in 0..N
      BY <1>1
    <3> QED  BY <3>1, <3>2, <3>3, Zenon
  <2>2. CASE N \in 1..N /\ sent[N] = "scan"
    <3>1. PICK e \in 0..N-1 : Ends(e)' /\ OnlyScans(e+1, N)'
      BY <1>1, <1>b, <2>2, Zenon
    <3>2. e \in 0..N /\ \A j \in e+1..N+1 : j \in e+1..N \/ j = N+1
      BY <1>1
    <3>3. OnlyScans(e+1, N+1)'
      BY <1>1, <1>e, <3>1, <3>2, Zenon DEF OnlyScans
    <3> QED  BY <3>1, <3>2, <3>3, Zenon
  <2> QED  BY <2>0, <2>1, <2>2, Zenon
<1>6. \A i \in 1..Len(sent') : i \in 1..N \/ i = N + 1
  BY <1>1
<1>7. ASSUME NEW i \in 1..Len(sent')
      PROVE  /\ sent'[i] = "row" => \E c \in 1..i-1 : sent'[c] = "cols" /\ OnlyRows(c+1, i)'
             /\ sent'[i] = "scan" => \E e \in 0..i-1 : Ends(e)' /\ OnlyScans(e+1, i)'
             /\ sent'[i] = "cols" => i = 1 \/ sent'[i-1] \in {"done", "scan"}
             /\ sent'[i] = "last" => i = Len(sent') /\ reply' = "whole"
  <2>1. CASE i \in 1..N
    BY <1>a, <1>b, <1>4, <2>1, Zenon
  <2>2. CASE i = N + 1
    <3>1. i - 1 = N /\ sent'[i] = k /\ (N = 0 => i = 1)
      BY <1>1, <2>2
    <3>2. k = "cols" => i = 1 \/ sent'[i-1] \in {"done", "scan"}
      BY <1>1, <1>d, <3>1, Zenon
    <3>3. k = "row" => \E c \in 1..i-1 : sent'[c] = "cols" /\ OnlyRows(c+1, i)'
      BY <1>c, <2>2, <3>1, Zenon
    <3>4. k = "scan" => \E e \in 0..i-1 : Ends(e)' /\ OnlyScans(e+1, i)'
      BY <1>e, <2>2, <3>1, Zenon
    <3> QED  BY <1>1, <2>2, <3>1, <3>2, <3>3, <3>4, Zenon
  <2> QED  BY <1>6, <2>1, <2>2, Zenon
<1> QED  BY <1>1, <1>2, <1>7, Zenon DEF ReplyInv

\* What reading a token leaves to be sent, and how the reply goes on.
LEMMA ReadReply ==
    ASSUME ReadType, CtrlInv, ReplyInv, Server
    PROVE  /\ ReplyInv' /\ reply = "open" /\ todo = <<>>
           /\ \/ UNCHANGED sent
              \/ \E k \in Kinds : sent' = Append(sent, k)
           /\ Len(sent') \in {Len(sent), Len(sent) + 1}
           /\ \A i \in 1..Len(sent) : sent'[i] = sent[i]
<1>0. reply = "open" /\ todo = <<>>
  BY Zenon DEF Server, ReadColumns, ReadRow, ReadNotice, ReadReturnValue, ReadFails, ReadDone, Reading, CtrlInv
<1>1. CASE ReadColumns
  BY <1>0, <1>1, ReplyGrows, Zenon DEF ReadColumns, Kinds
<1>2. CASE ReadRow
  BY <1>0, <1>2, ReplyGrows, Zenon DEF ReadRow, Kinds
<1>5. CASE ReadReturnValue
  BY <1>0, <1>5, ReplyGrows, Zenon DEF ReadReturnValue, Kinds
<1>3. ASSUME NEW last \in BOOLEAN, NEW count \in BOOLEAN, ReadDone(last, count)
      PROVE  /\ ReplyInv' /\ Len(sent') = Len(sent) + 1
             /\ sent' = Append(sent, EndKind(last)) /\ EndKind(last) \in Kinds
             /\ \A i \in 1..Len(sent) : sent'[i] = sent[i]
  <2>1. /\ EndKind(last) \in Kinds /\ EndKind(last) \notin {"cols", "row", "scan"}
        /\ EndKind(last) = "last" => reply' = "whole"
        /\ sent' = Append(sent, EndKind(last)) /\ ~inRows'
    BY <1>3, Zenon DEF ReadDone, EndKind, Kinds
  <2> QED  BY <1>0, <2>1, ReplyGrows, Zenon
<1>4. CASE ReadNotice \/ ReadFails
  <2>1. UNCHANGED <<sent, inRows>>
    BY <1>4, Zenon DEF ReadNotice, ReadFails
  <2>2. \A i \in 1..Len(sent) : sent[i] # "last"
    BY <1>0, Zenon DEF ReplyInv
  <2> QED  BY <1>0, <2>1, <2>2 DEF ReplyInv, OnlyRows, OnlyScans, Ends
<1> QED  BY <1>0, <1>1, <1>2, <1>3, <1>4, <1>5, Zenon DEF Server

\* A token and its message, and perhaps the end of the reply, are left.
LEMMA TodoPair ==
    ASSUME ReadType', sent' # <<>>, sent'[Len(sent')] \notin Unannounced,
           NEW t, t = Tok(sent[Len(sent)], Len(sent))',
           NEW m, m = MsgOf(Len(sent))',
           \/ todo' \in {<<t, m>>, <<Notice, t, m>>}
           \/ todo' \in {<<t, m, Stop>>, <<Notice, t, m, Stop>>} /\ Finished'
    PROVE  TodoInv' /\ TokenDue' /\ MsgDue'
<1>1. Len(sent') \in Nat \ {0}
  BY DEF ReadType
<1>2. /\ t.to = "chan" /\ t.n = Len(sent') /\ m.to = "queue" /\ m.n = Len(sent')
      /\ m # Notice /\ m # Stop
  <2>1. t.to = "chan" /\ t.n = Len(sent')
    BY Zenon DEF Tok
  <2>2. m.to = "queue" /\ m.n = Len(sent')
    BY Zenon DEF MsgOf, Msg
  <2> QED  BY <1>1, <2>1, <2>2, MessageFacts
<1>3. TodoItem(t)' /\ TodoItem(m)' /\ TodoItem(Notice)' /\ (Finished' => TodoItem(Stop)')
  BY Zenon DEF TodoItem, Notice, Stop
<1>4. CASE todo' = <<t, m>>
  <2>1. Len(todo') = 2 /\ todo'[1] = t /\ todo'[2] = m
    BY <1>4, Zenon
  <2> QED  BY <1>1, <1>2, <1>3, <2>1, MessageFacts DEF TodoInv, TokenDue, MsgDue
<1>5. CASE todo' = <<Notice, t, m>>
  <2>1. Len(todo') = 3 /\ todo'[1] = Notice /\ todo'[2] = t /\ todo'[3] = m
    BY <1>5, Zenon
  <2> QED  BY <1>1, <1>2, <1>3, <2>1, MessageFacts DEF TodoInv, TokenDue, MsgDue
<1>6. CASE todo' = <<t, m, Stop>> /\ Finished'
  <2>1. Len(todo') = 3 /\ todo'[1] = t /\ todo'[2] = m /\ todo'[3] = Stop
    BY <1>6, Zenon
  <2> QED  BY <1>1, <1>2, <1>3, <1>6, <2>1, MessageFacts DEF TodoInv, TokenDue, MsgDue
<1>7. CASE todo' = <<Notice, t, m, Stop>> /\ Finished'
  <2>1. /\ Len(todo') = 4 /\ todo'[1] = Notice /\ todo'[2] = t /\ todo'[3] = m
        /\ todo'[4] = Stop
    BY <1>7, Zenon
  <2> QED  BY <1>1, <1>2, <1>3, <1>7, <2>1, MessageFacts DEF TodoInv, TokenDue, MsgDue
<1> QED  BY <1>4, <1>5, <1>6, <1>7, Zenon

\* What a server's step leaves to be sent.
LEMMA ReadTodo ==
    ASSUME ReadType, CtrlInv, ReplyInv, Server
    PROVE  /\ TodoInv' /\ ~TokenDue /\ ~MsgDue
           /\ UNCHANGED sent => ~TokenDue' /\ ~MsgDue'
           /\ ~UNCHANGED sent => /\ TokenDue' /\ Len(sent') = Len(sent) + 1
                                 /\ MsgDue' <=> sent'[Len(sent')] \notin Unannounced
<1>0. /\ ReadType' /\ reply = "open" /\ todo = <<>> /\ Len(sent) \in Nat
      /\ \A i \in 1..Len(sent) : sent'[i] = sent[i]
  BY ReadTyped, ReadReply, LenProperties, Zenon DEF ReadType
<1>1. ~TokenDue /\ ~MsgDue
  BY <1>0 DEF TokenDue, MsgDue
<1>2. ASSUME NEW k \in Kinds, sent' = Append(sent, k)
      PROVE  /\ Len(sent') = Len(sent) + 1 /\ sent'[Len(sent')] = k /\ sent' # sent
             /\ sent' # <<>> /\ Number = Len(sent')
  BY <1>0, <1>2, AppendProperties DEF ReadType, Number
<1>3. CASE ReadColumns
  <2>1. /\ Len(sent') = Len(sent) + 1 /\ sent'[Len(sent')] = "cols" /\ sent' # sent
        /\ sent' # <<>> /\ Number = Len(sent')
    BY <1>2, <1>3, Zenon DEF ReadColumns, Kinds
  <2>2. /\ Tok("cols", Number) = Tok(sent[Len(sent)], Len(sent))'
        /\ Msg("next", Number) = MsgOf(Len(sent))'
    BY <2>1, Zenon DEF MsgOf
  <2>3. todo' = <<Tok("cols", Number), Msg("next", Number)>>
    BY <1>3, Zenon DEF ReadColumns
  <2>4. TodoInv' /\ TokenDue' /\ MsgDue'
    BY <1>0, <2>1, <2>2, <2>3, TodoPair, Zenon DEF Unannounced
  <2> QED  BY <1>1, <2>1, <2>4, Zenon DEF Unannounced
<1>4. CASE ReadRow
  <2>1. /\ Len(sent') = Len(sent) + 1 /\ sent'[Len(sent')] = "row" /\ sent' # sent
        /\ sent' # <<>> /\ Number = Len(sent')
    BY <1>2, <1>4, Zenon DEF ReadRow, Kinds
  <2>2. /\ Len(todo') = 1 /\ todo'[1] = Tok("row", Number)
    BY <1>4, Zenon DEF ReadRow
  <2>3. TodoItem(todo[1])'
    BY <2>1, <2>2, Zenon DEF TodoItem
  <2>4. TodoInv' /\ TokenDue' /\ ~MsgDue'
    BY <1>0, <2>1, <2>2, <2>3, MessageFacts DEF TodoInv, TokenDue, MsgDue, Unannounced
  <2> QED  BY <1>1, <2>1, <2>4, Zenon DEF Unannounced
<1>8. CASE ReadReturnValue
  <2>1. /\ Len(sent') = Len(sent) + 1 /\ sent'[Len(sent')] = "scan" /\ sent' # sent
        /\ sent' # <<>> /\ Number = Len(sent')
    BY <1>2, <1>8, Zenon DEF ReadReturnValue, Kinds
  <2>2. /\ Len(todo') = 1 /\ todo'[1] = Tok("scan", Number)
    BY <1>8, Zenon DEF ReadReturnValue
  <2>3. TodoItem(todo[1])'
    BY <2>1, <2>2, Zenon DEF TodoItem
  <2>4. TodoInv' /\ TokenDue' /\ ~MsgDue'
    BY <1>0, <2>1, <2>2, <2>3, MessageFacts DEF TodoInv, TokenDue, MsgDue, Unannounced
  <2> QED  BY <1>1, <2>1, <2>4, Zenon DEF Unannounced
<1>5. CASE ReadNotice
  <2>1. Len(todo') = 1 /\ todo'[1] = Notice /\ UNCHANGED sent
    BY <1>5, Zenon DEF ReadNotice, Notice
  <2>2. TodoItem(todo[1])'
    BY <2>1, Zenon DEF TodoItem, Notice
  <2>3. TodoInv' /\ ~TokenDue' /\ ~MsgDue'
    BY <2>1, <2>2, MessageFacts DEF TodoInv, TokenDue, MsgDue
  <2> QED  BY <1>1, <2>1, <2>3, Zenon
<1>6. CASE ReadFails
  <2>0. UNCHANGED sent /\ Tok("broken", 0).n = 0 /\ Tok("plain", 0).n = 0
    BY <1>6, MessageFacts DEF ReadFails
  <2>1. /\ reply' = "broken" => TodoItem(Tok("broken", 0))' /\ TodoItem(Stop)'
        /\ reply' = "cut" => TodoItem(Tok("plain", 0))'
        /\ TodoItem(Notice)'
    BY Zenon DEF TodoItem, Failures, Finished, Notice, Stop, Tok, Msg
  <2>2. CASE todo' = <<Tok("broken", 0)>> /\ reply' = "broken"
    <3>1. Len(todo') = 1 /\ todo'[1] = Tok("broken", 0)
      BY <2>2, Zenon
    <3> QED  BY <1>1, <2>0, <2>1, <2>2, <3>1, MessageFacts DEF TodoInv, TokenDue, MsgDue
  <2>3. CASE todo' = <<Tok("plain", 0)>> /\ reply' = "cut"
    <3>1. Len(todo') = 1 /\ todo'[1] = Tok("plain", 0)
      BY <2>3, Zenon
    <3> QED  BY <1>1, <2>0, <2>1, <2>3, <3>1, MessageFacts DEF TodoInv, TokenDue, MsgDue
  <2>4. CASE todo' = <<Notice, Tok("broken", 0)>> /\ reply' = "broken"
    <3>1. Len(todo') = 2 /\ todo'[1] = Notice /\ todo'[2] = Tok("broken", 0)
      BY <2>4, Zenon
    <3> QED  BY <1>1, <2>0, <2>1, <2>4, <3>1, MessageFacts DEF TodoInv, TokenDue, MsgDue
  <2>5. CASE todo' = <<Tok("broken", 0), Stop>> /\ reply' = "broken"
    <3>1. Len(todo') = 2 /\ todo'[1] = Tok("broken", 0) /\ todo'[2] = Stop
      BY <2>5, Zenon
    <3> QED  BY <1>1, <2>0, <2>1, <2>5, <3>1, MessageFacts DEF TodoInv, TokenDue, MsgDue
  <2>6. CASE todo' = <<Notice, Tok("plain", 0)>> /\ reply' = "cut"
    <3>1. Len(todo') = 2 /\ todo'[1] = Notice /\ todo'[2] = Tok("plain", 0)
      BY <2>6, Zenon
    <3> QED  BY <1>1, <2>0, <2>1, <2>6, <3>1, MessageFacts DEF TodoInv, TokenDue, MsgDue
  <2> QED  BY <1>6, <2>2, <2>3, <2>4, <2>5, <2>6, Zenon DEF ReadFails, Notice, Stop
<1>7. ASSUME NEW last \in BOOLEAN, NEW count \in BOOLEAN, ReadDone(last, count)
      PROVE  /\ TodoInv' /\ TokenDue' /\ MsgDue' /\ Len(sent') = Len(sent) + 1
             /\ sent'[Len(sent')] \notin Unannounced /\ sent' # sent
  <2>1. /\ EndKind(last) \in Kinds \ {"cols", "row", "scan"}
        /\ sent' = Append(sent, EndKind(last))
    BY <1>7, Zenon DEF ReadDone, EndKind, Kinds
  <2>2. /\ Len(sent') = Len(sent) + 1 /\ sent'[Len(sent')] = EndKind(last) /\ sent' # sent
        /\ sent' # <<>> /\ Number = Len(sent')
    BY <1>2, <2>1, Zenon
  <2> DEFINE t == Tok(EndKind(last), Number)
             m == Msg("nextset", Number)
  <2>3. t = Tok(sent[Len(sent)], Len(sent))' /\ m = MsgOf(Len(sent))'
    BY <2>1, <2>2, Zenon DEF MsgOf
  <2>4. todo' \in DoneTodo(last)
    BY <1>7, ReadDoneTodo, Zenon
  <2>5. \/ todo' \in {<<t, m>>, <<Notice, t, m>>}
        \/ todo' \in {<<t, m, Stop>>, <<Notice, t, m, Stop>>} /\ Finished'
    BY <2>2, <2>4, Zenon DEF DoneTodo, Finished, EndKind
  <2>6. sent'[Len(sent')] \notin Unannounced
    BY <2>1, <2>2, Zenon DEF Unannounced
  <2> HIDE DEF t, m
  <2> QED  BY <1>0, <2>2, <2>3, <2>5, <2>6, TodoPair, Zenon
<1> QED  BY <1>1, <1>3, <1>4, <1>5, <1>6, <1>7, <1>8, Zenon DEF Server

\* The kinds of items that the reader has still to send.
LEMMA TodoCases ==
    ASSUME ReadType, NEW x, TodoItem(x)
    PROVE  /\ x.to \in {"chan", "queue"}
           /\ x.to = "chan" /\ x.n # 0 => sent # <<>> /\ x = Tok(sent[Len(sent)], Len(sent))
           /\ x.to = "chan" /\ x.n = 0 => x.kind \in Failures /\ reply \in {"broken", "cut"}
           /\ x.to = "queue" /\ x.n # 0 =>
                 sent # <<>> /\ sent[Len(sent)] \notin Unannounced /\ x = MsgOf(Len(sent))
           /\ x.to = "queue" /\ x.n = 0 => x = Notice \/ (x = Stop /\ Finished)
<1>0. Len(sent) \in Nat /\ (sent # <<>> => Len(sent) # 0)
  BY DEF ReadType
<1>1. CASE x = Notice
  BY <1>1, MessageFacts, Zenon
<1>2. CASE x = Stop /\ Finished
  BY <1>2, MessageFacts, Zenon
<1>3. ASSUME NEW f \in Failures, x = Tok(f, 0), reply \in {"broken", "cut"}
      PROVE  x.to = "chan" /\ x.n = 0 /\ x.kind \in Failures
  BY <1>3, MessageFacts
<1>4. CASE sent # <<>> /\ x = Tok(sent[Len(sent)], Len(sent))
  <2>1. x.to = "chan" /\ x.n = Len(sent)
    BY <1>4, MessageFacts
  <2> QED  BY <1>0, <1>4, <2>1, Zenon
<1>5. CASE sent # <<>> /\ sent[Len(sent)] \notin Unannounced /\ x = MsgOf(Len(sent))
  <2>1. x.to = "queue" /\ x.n = Len(sent)
    BY <1>0, <1>5, MessageFacts, Zenon
  <2> QED  BY <1>0, <1>5, <2>1, Zenon
<1> QED  BY <1>1, <1>2, <1>3, <1>4, <1>5, Zenon DEF TodoItem

\* The reader sends the first item of what it has still to send.
LEMMA TodoHead ==
    ASSUME ReadType, TodoInv, todo # <<>>, todo' = Tail(todo), UNCHANGED <<sent, reply>>
    PROVE  /\ TodoInv' /\ TodoItem(Head(todo))
           /\ Head(todo).to = "chan" =>
                 /\ ~Sending' /\ ~TokenDue' /\ (MsgDue' <=> MsgDue)
                 /\ TokenDue <=> Head(todo).n # 0
           /\ Head(todo) = Notice => (TokenDue' <=> TokenDue) /\ (MsgDue' <=> MsgDue)
           /\ Head(todo).to = "queue" /\ Head(todo) # Notice =>
                 /\ ~TokenDue /\ ~TokenDue' /\ ~MsgDue'
                 /\ MsgDue <=> Head(todo).n # 0
           /\ Sending' => Sending
<1> DEFINE h == Head(todo)
<1>1. /\ h = todo[1] /\ Len(todo) \in Nat \ {0} /\ Len(todo') = Len(todo) - 1
      /\ \A i \in 1..Len(todo') : todo'[i] = todo[i+1]
  BY TailFacts, Zenon DEF ReadType
<1>3. /\ 1 \in 1..Len(todo)
      /\ \A i \in 1..Len(todo') : i + 1 \in 1..Len(todo) /\ 1 < i + 1
      /\ \A i \in 1..Len(todo) : i = 1 \/ (i - 1 \in 1..Len(todo') /\ (i - 1) + 1 = i)
  BY <1>1
<1>4. TodoItem(h)
  BY <1>1, <1>3, Zenon DEF TodoInv
<1>5. \A i \in 1..Len(todo') :
         /\ todo'[i].to = "chan" => h = Notice
         /\ todo'[i].n # 0 => h.to = "chan" \/ h = Notice
  BY <1>1, <1>3 DEF TodoInv
<1>6. /\ TokenDue <=> (h.to = "chan" /\ h.n # 0) \/ TokenDue'
      /\ MsgDue <=> (h.to = "queue" /\ h.n # 0) \/ MsgDue'
      /\ Sending <=> h.to = "chan" \/ Sending'
  <2>1. \A i \in 1..Len(todo) : todo[i] = h \/ \E j \in 1..Len(todo') : todo[i] = todo'[j]
    BY <1>1, <1>3, Zenon
  <2>2. \A j \in 1..Len(todo') : \E i \in 1..Len(todo) : todo[i] = todo'[j]
    BY <1>1, <1>3, Zenon
  <2>3. \E i \in 1..Len(todo) : todo[i] = h
    BY <1>1, <1>3, Zenon
  <2> HIDE DEF h
  <2>4. TokenDue <=> (h.to = "chan" /\ h.n # 0) \/ TokenDue'
    BY <2>1, <2>2, <2>3 DEF TokenDue
  <2>5. MsgDue <=> (h.to = "queue" /\ h.n # 0) \/ MsgDue'
    BY <2>1, <2>2, <2>3 DEF MsgDue
  <2>6. Sending <=> h.to = "chan" \/ Sending'
    BY <2>1, <2>2, <2>3 DEF Sending
  <2> QED  BY <2>4, <2>5, <2>6, Zenon
<1>7. /\ h.to = "chan" => ~Sending' /\ ~TokenDue'
      /\ h.to = "queue" /\ h # Notice => ~TokenDue' /\ ~MsgDue' /\ ~Sending'
  <2>1. Notice.to = "queue"
    BY MessageFacts, Zenon
  <2> HIDE DEF h
  <2> QED  BY <1>5, <2>1, Zenon DEF TokenDue, MsgDue, Sending
<1>8. TodoInv'
  <2>1. ASSUME NEW i \in 1..Len(todo')  PROVE TodoItem(todo[i])'
    <3>1. TodoItem(todo[i+1]) /\ todo'[i] = todo[i+1]
      BY <1>1, <1>3, Zenon DEF TodoInv
    <3> QED  BY <3>1, Zenon DEF TodoItem, Finished, MsgOf
  <2>2. ASSUME NEW i \in 1..Len(todo'), NEW j \in 1..Len(todo'), i < j
        PROVE  /\ todo'[j].to = "chan" => todo'[i] = Notice
               /\ todo'[j].n # 0 => todo'[i].to = "chan" \/ todo'[i] = Notice
    <3>1. i + 1 \in 1..Len(todo) /\ j + 1 \in 1..Len(todo) /\ i + 1 < j + 1
      BY <1>1, <2>2
    <3> QED  BY <1>1, <3>1, Zenon DEF TodoInv
  <2>3. Notice' = Notice
    BY Zenon DEF Notice, Msg
  <2>4. TokenDue' /\ sent'[Len(sent')] \notin Unannounced => MsgDue'
    <3>1. TokenDue' => h = Notice
      BY <1>5, Zenon DEF TokenDue
    <3>2. Notice.n = 0
      BY MessageFacts, Zenon
    <3> HIDE DEF h
    <3> QED  BY <1>6, <3>1, <3>2, Zenon DEF TodoInv
  <2> HIDE DEF h
  <2> QED  BY <2>1, <2>2, <2>3, <2>4, Zenon DEF TodoInv
<1>9. Notice.to = "queue" /\ Notice.n = 0
  BY MessageFacts, Zenon
<1> HIDE DEF h
<1>10. /\ h.to = "chan" => /\ ~Sending' /\ ~TokenDue' /\ (MsgDue' <=> MsgDue)
                           /\ TokenDue <=> h.n # 0
       /\ h = Notice => (TokenDue' <=> TokenDue) /\ (MsgDue' <=> MsgDue)
       /\ h.to = "queue" /\ h # Notice =>
             ~TokenDue /\ ~TokenDue' /\ ~MsgDue' /\ (MsgDue <=> h.n # 0)
       /\ Sending' => Sending
  BY <1>6, <1>7, <1>9, Zenon
<1> QED  BY <1>4, <1>8, <1>10, Zenon DEF h

\* Every step keeps the reply and what is left to be sent in order.
LEMMA ReplyStep ==
    ASSUME Typed, CtrlInv, ReplyInv, TodoInv, [Next]_vars  PROVE ReplyInv' /\ TodoInv'
<1>0. ReadType
  BY Zenon DEF Typed
<1>1. CASE Server
  BY <1>0, <1>1, ReadReply, ReadTodo, Zenon
<1>2. CASE SendToken \/ Enqueue
  <2>1. todo # <<>> /\ todo' = Tail(todo) /\ UNCHANGED <<sent, reply, inRows>>
    BY <1>2, Zenon DEF SendToken, Enqueue
  <2>2. ReplyInv'
    BY <2>1, Zenon DEF ReplyInv, OnlyRows, OnlyScans, Ends
  <2> QED  BY <1>0, <2>1, <2>2, TodoHead, Zenon
<1>3. CASE UNCHANGED readVars
  <2>1. ReplyInv'
    BY <1>3, Zenon DEF readVars, ReplyInv, OnlyRows, OnlyScans, Ends
  <2>2. TodoInv'
    BY <1>3, Zenon DEF readVars, TodoInv, TodoItem, TokenDue, MsgDue, Finished, MsgOf
  <2> QED  BY <2>1, <2>2, Zenon
<1>4. CASE Attention
  <2>1. CASE todo' = <<>> /\ reply' = (IF reply = "open" THEN "whole" ELSE reply)
             /\ UNCHANGED <<inRows, sent>>
    <3>1. ReplyInv'
      BY <2>1, Zenon DEF ReplyInv, OnlyRows, OnlyScans, Ends
    <3>2. 1..Len(todo') = {}
      BY <2>1
    <3>3. TodoInv'
      BY <3>2, Zenon DEF TodoInv, TokenDue
    <3> QED  BY <3>1, <3>3, Zenon
  <2> QED  BY <1>3, <1>4, <2>1, Zenon DEF Attention
<1>5. CASE ReaderExit
  <2>1. ReplyInv'
    BY <1>5, Zenon DEF ReaderExit, ReplyInv, OnlyRows, OnlyScans, Ends
  <2>2. TodoInv'
    BY <1>5 DEF ReaderExit, TodoInv, TodoItem, TokenDue, MsgDue, Finished, MsgOf
  <2> QED  BY <2>1, <2>2, Zenon
<1>6. CASE BackgroundDrain \/ TakeToken \/ HandleNext \/ HandleNotice
           \/ HandleNextResultSet \/ AfterRow \/ Cancel \/ SqlCloses \/ UNCHANGED vars
  BY <1>3, <1>6, Zenon DEF BackgroundDrain, TakeToken, HandleNext, HandleNotice,
     HandleNextResultSet, AfterRow, Cancel, SqlCloses, Calls, vars
<1> QED  BY <1>1, <1>2, <1>4, <1>5, <1>6, Zenon DEF Next, Reader, Application

-----------------------------------------------------------------------------
(* Tokens and messages in step.                                             *)

\* The kinds of the tokens that have been sent, and the two counts.
LEMMA SentFacts ==
    ASSUME ReadType, ReplyInv, TodoInv
    PROVE  /\ Len(sent) \in Nat /\ Put \in Int /\ Told \in Int
           /\ Put <= Len(sent) /\ Told <= Len(sent)
           /\ \A i \in 1..Len(sent) :
                 /\ sent[i] \in {"cols", "row", "done", "last", "scan"}
                 /\ sent[i] = "row" => i > 1 /\ sent[i-1] \in {"cols", "row"}
                 /\ sent[i] = "scan" => i = 1 \/ sent[i-1] \in {"done", "last", "scan"}
                 /\ sent[i] = "cols" => i = 1 \/ sent[i-1] \in {"done", "scan"}
                 /\ sent[i] = "last" => i = Len(sent) /\ reply = "whole"
           /\ sent # <<>> <=> Len(sent) # 0
<1>1. Len(sent) \in Nat /\ (sent # <<>> <=> Len(sent) # 0)
  BY DEF ReadType
<1>2. \A i \in 1..Len(sent) : sent[i] \in {"cols", "row", "done", "last", "scan"}
  BY DEF ReadType, Kinds
<1>3. Put \in Int /\ Told \in Int /\ Put <= Len(sent) /\ Told <= Len(sent)
  BY <1>1 DEF Put, Told
<1>4. ASSUME NEW i \in 1..Len(sent), sent[i] = "row"
      PROVE  i > 1 /\ sent[i-1] \in {"cols", "row"}
  <2>1. PICK c \in 1..i-1 : sent[c] = "cols" /\ OnlyRows(c+1, i)
    BY <1>4, Zenon DEF ReplyInv
  <2>2. i > 1 /\ (i - 1 = c \/ i - 1 \in c+1..i)
    BY <1>1
  <2> QED  BY <2>1, <2>2, Zenon DEF OnlyRows
<1>5. ASSUME NEW i \in 1..Len(sent), sent[i] = "scan"
      PROVE  i = 1 \/ sent[i-1] \in {"done", "last", "scan"}
  <2>1. PICK e \in 0..i-1 : Ends(e) /\ OnlyScans(e+1, i)
    BY <1>5, Zenon DEF ReplyInv
  <2>2. i = 1 \/ (e # 0 /\ i - 1 = e) \/ i - 1 \in e+1..i
    BY <1>1
  <2> QED  BY <2>1, <2>2, Zenon DEF OnlyScans, Ends
<1> QED  BY <1>1, <1>2, <1>3, <1>4, <1>5, Zenon DEF ReplyInv

\* Behind the end of a result set, what is not announced are errors; behind
\* columns it is rows.
LEMMA QuietAfterEnd ==
    ASSUME ReadType, ReplyInv, TodoInv, NEW p \in 0..Len(sent), Ends(p),
           NEW b \in Int, b <= Len(sent), Quiet(p+1, b)
    PROVE  OnlyScans(p+1, b)
<1>0. Len(sent) \in Nat
  BY SentFacts, Zenon
<1>1. SUFFICES ASSUME NEW i \in p+1..b, sent[i] # "scan"  PROVE FALSE
  BY Zenon DEF OnlyScans
<1>2. i \in 1..Len(sent) /\ i \in Int
  BY <1>0
<1>3. sent[i] = "row"
  BY <1>1, Zenon DEF Quiet, Unannounced
<1>4. PICK c \in 1..i-1 : sent[c] = "cols" /\ OnlyRows(c+1, i)
  BY <1>2, <1>3, Zenon DEF ReplyInv
<1>5. CASE c \in p+1..b
  BY <1>4, <1>5 DEF Quiet, Unannounced
<1>6. CASE c < p
  <2>1. p \in c+1..i /\ p # 0
    BY <1>2, <1>6
  <2> QED  BY <1>4, <2>1 DEF OnlyRows, Ends
<1>7. CASE c = p
  BY <1>4, <1>7 DEF Ends
<1> QED  BY <1>2, <1>5, <1>6, <1>7

LEMMA QuietAfterCols ==
    ASSUME ReadType, ReplyInv, TodoInv, NEW q \in 1..Len(sent), sent[q] = "cols",
           NEW b \in Int, b <= Len(sent), Quiet(q+1, b)
    PROVE  OnlyRows(q+1, b)
<1>0. Len(sent) \in Nat
  BY SentFacts, Zenon
<1>1. SUFFICES ASSUME NEW i \in q+1..b, sent[i] # "row"  PROVE FALSE
  BY Zenon DEF OnlyRows
<1>2. i \in 1..Len(sent) /\ i \in Int
  BY <1>0
<1>3. sent[i] = "scan"
  BY <1>1, Zenon DEF Quiet, Unannounced
<1>4. PICK e \in 0..i-1 : Ends(e) /\ OnlyScans(e+1, i)
  BY <1>2, <1>3, Zenon DEF ReplyInv
<1>5. CASE e \in q+1..b
  <2>1. e # 0
    BY <1>5
  <2> QED  BY <1>4, <1>5, <2>1, Zenon DEF Quiet, Unannounced, Ends
<1>6. CASE e < q
  <2>1. q \in e+1..i
    BY <1>2, <1>6
  <2> QED  BY <1>4, <2>1 DEF OnlyScans
<1>7. CASE e = q
  BY <1>4, <1>7 DEF Ends
<1> QED  BY <1>2, <1>5, <1>6, <1>7

\* A step of the server leaves tokens and messages in step.
LEMMA ServerSync ==
    ASSUME Typed, CtrlInv, ReplyInv, TodoInv, Server,
           NEW p \in 0..Len(sent), NEW q \in 0..Len(sent), Sync(p, q)
    PROVE  Sync(p, q)' /\ p \in 0..Len(sent') /\ q \in 0..Len(sent')
<1>0. ReadType /\ FlagType
  BY Zenon DEF Typed
<1> DEFINE N == Len(sent)
<1>1. UNCHANGED <<chan, queue, app, cols, cur, got, lastcols, inResultSet, requestDone, skipped>>
  BY Zenon DEF Server, ReadColumns, ReadRow, ReadNotice, ReadReturnValue, ReadFails, ReadDone,
         ReaderOnly, chanVars, rowsVars, sqlVars
<1>2. /\ reply = "open" /\ N \in Nat /\ Len(sent') \in {N, N + 1}
      /\ \A i \in 1..N : sent'[i] = sent[i]
  BY <1>0, ReadReply, LenProperties, Zenon DEF ReadType
<1>3. /\ ~TokenDue /\ ~MsgDue
      /\ UNCHANGED sent => ~TokenDue' /\ ~MsgDue'
      /\ ~UNCHANGED sent => /\ TokenDue' /\ Len(sent') = N + 1
                            /\ MsgDue' <=> sent'[Len(sent')] \notin Unannounced
  BY <1>0, ReadTodo, Zenon
<1>4. ~Finished /\ ~requestDone
  <2>1. \A i \in 1..N : sent[i] # "last"
    BY <1>2, Zenon DEF ReplyInv
  <2>2. sent # <<>> => N \in 1..N
    BY <1>2
  <2> QED  BY <1>2, <2>1, <2>2, Zenon DEF Finished, Sync
<1>5. Put = N /\ Put' = N /\ Told = N /\ Told' >= N /\ Told' \in Int
      /\ (Told' > N => sent'[Told'] \in Unannounced /\ Told' = N + 1)
  BY <1>2, <1>3 DEF Put, Told
<1>6. ChanInv(p)'
  <2>1. /\ p <= Put /\ Put <= p + Len(chan)
        /\ \A i \in 1..Len(chan) : p + i <= N /\ chan[i] = Tok(sent[p + i], p + i)
    BY <1>2, <1>5, Zenon DEF Sync, ChanInv
  <2>2. \A i \in 1..Len(chan) : p + i \in 1..N
    BY <2>1
  <2> QED  BY <1>1, <1>2, <1>5, <2>1, <2>2, Zenon DEF ChanInv
<1>7. QueueInv(q)'
  <2>1. /\ q <= N
        /\ \A i \in 1..Len(queue) : queue[i] = Notice
              \/ \E n \in q+1..N : sent[n] \notin Unannounced /\ queue[i] = MsgOf(n)
        /\ \A i, j \in 1..Len(queue) : i < j /\ queue[j].n # 0 =>
              queue[i] # Stop /\ queue[i].n < queue[j].n
        /\ \A n \in q+1..N : sent[n] \notin Unannounced => \E i \in 1..Len(queue) : queue[i].n = n
    BY <1>4, <1>5, Zenon DEF Sync, QueueInv
  <2>2. \A n \in q+1..N : /\ n \in 1..N /\ n \in q+1..Told' /\ n <= Put'
                          /\ sent'[n] = sent[n] /\ MsgOf(n)' = MsgOf(n)
    BY <1>2, <1>5 DEF MsgOf
  <2>3. \A i \in 1..Len(queue') : queue'[i] = Notice
              \/ \E n \in q+1..Told' : n <= Put' /\ sent'[n] \notin Unannounced /\ queue'[i] = MsgOf(n)'
    BY <1>1, <2>1, <2>2
  <2>4. \A n \in q+1..Told' : sent'[n] \notin Unannounced => n \in q+1..N
    BY <1>2, <1>5
  <2>5. \A n \in q+1..Told' : sent'[n] \notin Unannounced => \E i \in 1..Len(queue') : queue'[i].n = n
    BY <1>1, <2>1, <2>2, <2>4, Zenon
  <2>6. Notice' = Notice /\ Stop' = Stop
    BY Zenon DEF Notice, Stop, Msg
  <2>7. q <= Told' /\ q <= Put'
    BY <1>5, <2>1
  <2> QED  BY <1>1, <2>1, <2>3, <2>5, <2>6, <2>7, Zenon DEF QueueInv
<1>8. StepInv(p, q)'
  <2>1. /\ (p # 0 => sent'[p] = sent[p]) /\ (q # 0 => sent'[q] = sent[q])
        /\ reply # "broken"
    BY <1>2
  <2>2. /\ OnlyRows(q+1, p)' <=> OnlyRows(q+1, p)
        /\ OnlyRows(q+1, p-1)' <=> OnlyRows(q+1, p-1)
        /\ OnlyRows(p+1, q-1)' <=> OnlyRows(p+1, q-1)
        /\ OnlyScans(p+1, q-1)' <=> OnlyScans(p+1, q-1)
    <3>1. \A i \in (q+1..p) \cup (q+1..p-1) \cup (p+1..q-1) : sent'[i] = sent[i]
      BY <1>2
    <3> QED  BY <3>1, Zenon DEF OnlyRows, OnlyScans
  <2>3. (Ends(p)' <=> Ends(p)) /\ (Ends(q)' <=> Ends(q))
    BY <2>1, Zenon DEF Ends
  <2>4. p < q => q # 0
    OBVIOUS
  <2> QED  BY <1>1, <2>1, <2>2, <2>3, <2>4, Zenon DEF Sync, StepInv
<1>9. ASSUME ~skipped  PROVE AllGot(p)'
  <2>1. {i \in 1..p : sent'[i] = "row"} = {i \in 1..p : sent[i] = "row"}
    BY <1>2
  <2>2. AllGot(p)
    BY <1>9, Zenon DEF Sync
  <2> QED  BY <1>1, <2>1, <2>2, Zenon DEF AllGot
<1> QED  BY <1>1, <1>2, <1>4, <1>6, <1>7, <1>8, <1>9 DEF Sync

\* A token that is put into the channel is the next one, or a failure behind
\* all tokens.
LEMMA SendSync ==
    ASSUME Typed, ReplyInv, TodoInv, SendToken,
           NEW p \in 0..Len(sent), NEW q \in 0..Len(sent), Sync(p, q)
    PROVE  Sync(p, q)'
<1> DEFINE N == Len(sent)
           h == Head(todo)
<1>0. ReadType /\ FlagType /\ chan \in Seq(ChanItems) /\ Len(chan) \in Nat /\ N \in Nat
  BY LenProperties, Zenon DEF Typed, ChanType, ReadType
<1>1. /\ todo # <<>> /\ h.to = "chan" /\ todo' = Tail(todo) /\ chan' = Append(chan, h)
      /\ UNCHANGED <<sent, reply, queue, app, cols, cur, got, lastcols, inResultSet,
                     requestDone, skipped>>
  BY Zenon DEF SendToken, rowsVars, sqlVars
<1>2. /\ TodoItem(h) /\ ~Sending' /\ ~TokenDue' /\ (MsgDue' <=> MsgDue)
      /\ TokenDue <=> h.n # 0
  BY <1>0, <1>1, TodoHead, Zenon
<1>3. Sending
  <2>1. todo[1] = h /\ 1 \in 1..Len(todo)
    BY <1>0, <1>1, TailFacts DEF ReadType
  <2> QED  BY <1>1, <2>1, Zenon DEF Sending
<1>4. /\ \A i \in 1..Len(chan) : p + i <= Put /\ chan[i] = Tok(sent[p + i], p + i)
      /\ p <= Put /\ Put <= p + Len(chan)
  BY <1>3, Zenon DEF Sync, ChanInv
<1>5. Put \in Int /\ Put = p + Len(chan)
  <2>1. Put \in Int
    BY <1>0 DEF Put
  <2>2. CASE Len(chan) = 0
    BY <1>0, <1>4, <2>1, <2>2
  <2>3. CASE Len(chan) # 0
    <3>1. Len(chan) \in 1..Len(chan)
      BY <1>0, <2>3
    <3>2. p + Len(chan) <= Put
      BY <1>4, <3>1, Zenon
    <3>3. Put <= p + Len(chan)
      BY <1>4, Zenon
    <3> QED  BY <1>0, <2>1, <3>2, <3>3
  <2> QED  BY <2>2, <2>3, Zenon
<1>6. h \in ChanItems
  BY <1>0, <1>1, FirstTodo, Zenon
<1>7. /\ Len(chan') = Len(chan) + 1 /\ chan'[Len(chan) + 1] = h
      /\ \A i \in 1..Len(chan) : chan'[i] = chan[i]
  <2> HIDE DEF h
  <2> QED  BY <1>0, <1>1, <1>6, AppendProperties
<1>8. /\ h.n # 0 => h = Tok(sent[N], N)
      /\ h.n = 0 => h.kind \in Failures /\ reply \in {"broken", "cut"}
  BY <1>0, <1>1, <1>2, TodoCases, Zenon
<1>9. Put' = N /\ Put = (IF h.n # 0 THEN N - 1 ELSE N) /\ Told' = Told
  BY <1>1, <1>2, Zenon DEF Put, Told
<1> HIDE DEF h
<1>10. ChanInv(p)'
  <2>1. \A i \in 1..Len(chan') : i \in 1..Len(chan) \/ i = Len(chan')
    BY <1>0, <1>7
  <2>2. \A i \in 1..Len(chan) : p + i <= Put' /\ chan'[i] = Tok(sent'[p + i], p + i)
    BY <1>0, <1>1, <1>4, <1>5, <1>7, <1>9
  <2>3. p <= Put' /\ Put' <= p + Len(chan')
    BY <1>0, <1>5, <1>7, <1>9
  <2>4. CASE h.n # 0
    <3>1. p + Len(chan') = N /\ chan'[Len(chan')] = Tok(sent'[N], N)
      BY <1>0, <1>1, <1>5, <1>7, <1>8, <1>9, <2>4
    <3> QED  BY <1>9, <2>1, <2>2, <2>3, <3>1, Zenon DEF ChanInv
  <2>5. CASE h.n = 0
    <3>1. ~(p + Len(chan') <= Put') /\ chan'[Len(chan')].kind \in Failures
      BY <1>0, <1>5, <1>7, <1>8, <1>9, <2>5
    <3>2. reply' \in {"broken", "cut"}
      BY <1>1, <1>8, <2>5, Zenon
    <3> QED  BY <1>2, <2>1, <2>2, <2>3, <3>1, <3>2, Zenon DEF ChanInv
  <2> QED  BY <2>4, <2>5, Zenon
<1>11. QueueInv(q)'
  <2>1. Put <= Put'
    BY <1>0, <1>9
  <2>2. Finished' = Finished /\ (\A n : MsgOf(n)' = MsgOf(n)) /\ Notice' = Notice /\ Stop' = Stop
    BY <1>1, Zenon DEF Finished, MsgOf, Notice, Stop, Msg
  <2>3. q <= Put' /\ \A n \in q+1..Told : n <= Put => n <= Put'
    BY <1>0, <1>5, <1>9, <2>1 DEF Sync, QueueInv, Told
  <2> QED  BY <1>1, <1>2, <1>9, <2>2, <2>3, Zenon DEF Sync, QueueInv
<1>12. StepInv(p, q)'
  BY <1>1, Zenon DEF Sync, StepInv, OnlyRows, OnlyScans, Ends
<1>13. ~skipped => AllGot(p)'
  BY <1>1, Zenon DEF Sync, AllGot
<1> QED  BY <1>1, <1>10, <1>11, <1>12, <1>13, Zenon DEF Sync

\* A message that is put into the queue is behind the earlier ones.
LEMMA EnqueueSync ==
    ASSUME Typed, ReplyInv, TodoInv, Enqueue, ~ctx,
           NEW p \in 0..Len(sent), NEW q \in 0..Len(sent), Sync(p, q)
    PROVE  Sync(p, q)'
<1> DEFINE N == Len(sent)
           h == Head(todo)
<1>0. ReadType /\ queue \in Seq(QueueItems) /\ Len(queue) \in Nat /\ N \in Nat
  BY LenProperties, Zenon DEF Typed, QueueType, ReadType
<1>1. /\ todo # <<>> /\ h.to = "queue" /\ todo' = Tail(todo) /\ queue' = Append(queue, h)
      /\ UNCHANGED <<sent, reply, chan, app, cols, cur, got, lastcols, inResultSet,
                     requestDone, skipped>>
  BY Zenon DEF Enqueue, chanVars, rowsVars, sqlVars
<1>2. /\ TodoItem(h) /\ (Sending' => Sending)
      /\ h = Notice => (TokenDue' <=> TokenDue) /\ (MsgDue' <=> MsgDue)
      /\ h # Notice => ~TokenDue /\ ~TokenDue' /\ ~MsgDue' /\ (MsgDue <=> h.n # 0)
  BY <1>0, <1>1, TodoHead, Zenon
<1>3. h \in QueueItems
  BY <1>0, <1>1, FirstTodo, Zenon
<1>4. /\ Len(queue') = Len(queue) + 1 /\ queue'[Len(queue) + 1] = h
      /\ \A i \in 1..Len(queue) : queue'[i] = queue[i]
  <2> HIDE DEF h
  <2> QED  BY <1>0, <1>1, <1>3, AppendProperties
<1>5. /\ h.n # 0 => sent[N] \notin Unannounced /\ h = MsgOf(N) /\ N # 0
      /\ h.n = 0 => h = Notice \/ (h = Stop /\ Finished)
  BY <1>0, <1>1, <1>2, TodoCases DEF ReadType
<1>6. /\ h.n # 0 => h # Notice /\ h.n = N
      /\ Notice.n = 0 /\ Stop.n = 0 /\ \A n \in Nat : MsgOf(n).n = n
  BY <1>0, <1>5, MessageFacts
<1> HIDE DEF h
<1>7. /\ Put' = Put /\ Told' \in Int /\ Told \in Int /\ Put \in Int
      /\ h.n = 0 => Told' = Told /\ (MsgDue' <=> MsgDue)
      /\ h.n # 0 => Told = N - 1 /\ Told' = N /\ Put = N /\ MsgDue /\ ~MsgDue'
  BY <1>0, <1>1, <1>2, <1>5, <1>6 DEF Put, Told
<1>8. ChanInv(p)'
  BY <1>1, <1>2, <1>7, Zenon DEF Sync, ChanInv
<1>9. Finished' = Finished /\ (\A n : MsgOf(n)' = MsgOf(n)) /\ Notice' = Notice /\ Stop' = Stop
  BY <1>1, Zenon DEF Finished, MsgOf, Notice, Stop, Msg
<1>10. /\ q <= Told /\ q <= Put
       /\ \A i \in 1..Len(queue) :
             \/ queue[i] = Notice
             \/ queue[i] = Stop /\ Finished /\ ~MsgDue
             \/ \E n \in q+1..Told : n <= Put /\ sent[n] \notin Unannounced /\ queue[i] = MsgOf(n)
       /\ \A i, j \in 1..Len(queue) : i < j /\ queue[j].n # 0 =>
             queue[i] # Stop /\ queue[i].n < queue[j].n
       /\ \A n \in q+1..Told : sent[n] \notin Unannounced => \E i \in 1..Len(queue) : queue[i].n = n
  BY Zenon DEF Sync, QueueInv
<1>11. QueueInv(q)'
  <2>1. \A i \in 1..Len(queue') : i \in 1..Len(queue) \/ i = Len(queue) + 1
    BY <1>0, <1>4
  <2>2. q <= Told' /\ q <= Put'
    BY <1>0, <1>7, <1>10, Zenon
  <2>3. \A i \in 1..Len(queue) :
           \/ queue'[i] = Notice
           \/ queue'[i] = Stop /\ Finished /\ ~MsgDue'
           \/ \E n \in q+1..Told' : n <= Put' /\ sent'[n] \notin Unannounced /\ queue'[i] = MsgOf(n)
    <3>1. \A n \in q+1..Told : n \in q+1..Told'
      BY <1>0, <1>7
    <3>2. ~MsgDue => ~MsgDue'
      BY <1>7, Zenon
    <3> QED  BY <1>1, <1>4, <1>7, <1>10, <3>1, <3>2
  <2>4. \/ h = Notice
        \/ h = Stop /\ Finished /\ ~MsgDue'
        \/ \E n \in q+1..Told' : n <= Put' /\ sent'[n] \notin Unannounced /\ h = MsgOf(n)
    <3>1. CASE h.n = 0
      BY <1>2, <1>5, <3>1, Zenon
    <3>2. CASE h.n # 0
      <4>1. N \in q+1..Told' /\ N <= Put' /\ sent'[N] \notin Unannounced /\ h = MsgOf(N)
        BY <1>0, <1>1, <1>5, <1>7, <1>10, <3>2
      <4> QED  BY <4>1, Zenon
    <3> QED  BY <3>1, <3>2, Zenon
  <2>5. ASSUME NEW i \in 1..Len(queue'), NEW j \in 1..Len(queue'), i < j, queue'[j].n # 0
        PROVE  queue'[i] # Stop /\ queue'[i].n < queue'[j].n
    <3>1. i \in 1..Len(queue)
      BY <1>0, <1>4, <2>5
    <3>2. CASE j \in 1..Len(queue)
      BY <1>4, <1>10, <2>5, <3>1, <3>2, Zenon
    <3>3. CASE j = Len(queue) + 1
      <4>1. h.n # 0 /\ queue'[j].n = N /\ Told = N - 1 /\ MsgDue
        BY <1>4, <1>6, <1>7, <2>5, <3>3, Zenon
      <4>2. queue[i] = Notice \/ \E n \in q+1..Told : queue[i] = MsgOf(n)
        BY <1>10, <3>1, <4>1, Zenon
      <4>3. CASE queue[i] = Notice
        BY <1>0, <1>4, <1>5, <1>6, <3>1, <4>1, <4>3, MessageFacts
      <4>4. ASSUME NEW n \in q+1..Told, queue[i] = MsgOf(n)
            PROVE  queue[i].n = n /\ n < N /\ n # 0
        BY <1>0, <1>6, <4>1, <4>4
      <4> QED  BY <1>4, <1>6, <3>1, <4>1, <4>2, <4>3, <4>4
    <3> QED  BY <2>1, <3>2, <3>3, Zenon
  <2>6. ASSUME NEW n \in q+1..Told', sent'[n] \notin Unannounced
        PROVE  \E i \in 1..Len(queue') : queue'[i].n = n
    <3>1. CASE n \in q+1..Told
      <4>1. PICK i \in 1..Len(queue) : queue[i].n = n
        BY <1>1, <1>10, <2>6, <3>1, Zenon
      <4> QED  BY <1>0, <1>4, <4>1
    <3>2. CASE n \notin q+1..Told
      <4>1. h.n # 0 /\ n = N
        BY <1>0, <1>7, <1>10, <3>2
      <4> QED  BY <1>0, <1>4, <1>6, <4>1
    <3> QED  BY <3>1, <3>2, Zenon
  <2> QED  BY <1>4, <1>9, <2>1, <2>2, <2>3, <2>4, <2>5, <2>6, Zenon DEF QueueInv
<1>12. StepInv(p, q)'
  BY <1>1, Zenon DEF Sync, StepInv, OnlyRows, OnlyScans, Ends
<1>13. ~skipped => AllGot(p)'
  BY <1>1, Zenon DEF Sync, AllGot
<1> QED  BY <1>1, <1>8, <1>11, <1>12, <1>13, Zenon DEF Sync

\* The token that is taken is the next one, or the reader's failure after all
\* tokens.
LEMMA TokenTaken ==
    ASSUME Typed, ReplyInv, TodoInv, NEW p \in 0..Len(sent), ChanInv(p),
           chan # <<>>, chan' = Tail(chan), UNCHANGED readVars
    PROVE  \/ /\ p + 1 <= Put /\ p + 1 \in 1..Len(sent) /\ Head(chan).n = p + 1
              /\ Head(chan).kind = sent[p + 1] /\ ChanInv(p + 1)'
           \/ Head(chan).kind \in Failures /\ reply \in {"broken", "cut"} /\ p = Put
<1>0. /\ Len(sent) \in Nat /\ Put \in Int /\ Put <= Len(sent) /\ Put' = Put
      /\ UNCHANGED <<sent, reply>> /\ Sending' = Sending
  BY SentFacts, Zenon DEF Typed, readVars, Put, TokenDue, Sending
<1>1. /\ Head(chan) = chan[1] /\ Len(chan) \in Nat \ {0} /\ Len(chan') = Len(chan) - 1
      /\ \A i \in 1..Len(chan') : chan'[i] = chan[i+1]
  BY TailFacts, Zenon DEF Typed, ChanType
<1>2. 1 \in 1..Len(chan)
  BY <1>1
<1>3. CASE p + 1 <= Put
  <2>1. Head(chan) = Tok(sent[p + 1], p + 1)
    BY <1>1, <1>2, <1>3, Zenon DEF ChanInv
  <2>2. Head(chan).n = p + 1 /\ Head(chan).kind = sent[p + 1]
    BY <2>1, MessageFacts
  <2>3. p + 1 \in 1..Len(sent)
    BY <1>0, <1>3
  <2>4. ASSUME NEW i \in 1..Len(chan')
        PROVE  IF p + 1 + i <= Put THEN chan'[i] = Tok(sent[p + 1 + i], p + 1 + i)
               ELSE /\ i = Len(chan') /\ reply \in {"broken", "cut"} /\ ~Sending
                    /\ chan'[i].kind \in Failures
    <3>1. i + 1 \in 1..Len(chan) /\ chan'[i] = chan[i+1] /\ p + (i + 1) = p + 1 + i
      BY <1>1, <2>4
    <3>2. IF p + (i + 1) <= Put THEN chan[i+1] = Tok(sent[p + (i + 1)], p + (i + 1))
          ELSE /\ i + 1 = Len(chan) /\ reply \in {"broken", "cut"} /\ ~Sending
               /\ chan[i+1].kind \in Failures
      BY <3>1, Zenon DEF ChanInv
    <3>3. i + 1 = Len(chan) => i = Len(chan')
      <4> DEFINE c == Len(chan)
                 d == Len(chan')
      <4>1. c \in Nat /\ d = c - 1 /\ i \in Int
        BY <1>1, <3>1
      <4> HIDE DEF c, d
      <4>2. i + 1 = c => i = d
        BY <4>1
      <4> QED  BY <4>2, Zenon DEF c, d
    <3> QED  BY <3>1, <3>2, <3>3, Zenon
  <2>5. p + 1 <= Put' /\ Put' <= p + 1 + Len(chan')
    <3>1. Put <= p + Len(chan)
      BY Zenon DEF ChanInv
    <3> QED  BY <1>0, <1>1, <1>3, <3>1
  <2>6. ChanInv(p + 1)'
    BY <1>0, <2>4, <2>5, Zenon DEF ChanInv
  <2> QED  BY <1>3, <2>2, <2>3, <2>6, Zenon
<1>4. CASE ~(p + 1 <= Put)
  <2>1. chan[1].kind \in Failures /\ reply \in {"broken", "cut"}
    BY <1>2, <1>4, Zenon DEF ChanInv
  <2>2. p = Put
    BY <1>0, <1>4 DEF ChanInv
  <2> QED  BY <1>1, <2>1, <2>2, Zenon
<1> QED  BY <1>3, <1>4, Zenon

\* The queue is left as it is.
LEMMA QueueKept ==
    ASSUME NEW q, QueueInv(q), UNCHANGED <<readVars, queue>>  PROVE QueueInv(q)'
<1>1. UNCHANGED <<Told, Put, Finished, sent, queue>> /\ (MsgDue' <=> MsgDue)
  BY Zenon DEF readVars, Told, Put, MsgDue, TokenDue, Finished
<1>2. (\A n : MsgOf(n)' = MsgOf(n)) /\ Notice' = Notice /\ Stop' = Stop
  BY <1>1, Zenon DEF MsgOf, Notice, Stop, Msg
<1> QED  BY <1>1, <1>2, Zenon DEF QueueInv

\* A step that takes no row leaves what was got.
LEMMA GotKept ==
    ASSUME NEW p, AllGot(p), UNCHANGED <<got, sent>>  PROVE AllGot(p)'
<1>1. got' = got /\ sent' = sent
  BY Zenon
<1> QED  BY <1>1, Zenon DEF AllGot

\* Columns passes over errors and takes the columns that the message announced.
LEMMA ColumnsSync ==
    ASSUME Typed, ReplyInv, TodoInv, NEW p \in 0..Len(sent), NEW q \in 0..Len(sent),
           Sync(p, q), p + 1 \in 1..Len(sent), ChanInv(p + 1)', UNCHANGED <<readVars, queue>>,
           Columns(sent[p + 1], p + 1)
    PROVE  Sync(p + 1, q)' /\ app' \in {"next", "columns"} /\ UNCHANGED <<over, ctx, good>>
<1>0. Len(sent) \in Nat /\ FlagType /\ UNCHANGED sent /\ UNCHANGED <<over, ctx, good>>
  BY SentFacts, Zenon DEF Typed, readVars, Columns, ctxVars
<1>1. p < q /\ q = cur /\ sent[q] = "cols" /\ OnlyScans(p+1, q-1)
  BY Zenon DEF Columns, Sync, StepInv
<1>2. UNCHANGED <<cur, requestDone, got, skipped>>
  BY Zenon DEF Columns
<1>3. ~requestDone
  BY <1>0 DEF Sync
<1>a. sent[p + 1] # "row"
  BY <1>1 DEF OnlyScans
<1>5. ASSUME ~skipped  PROVE AllGot(p + 1)'
  <2>1. {i \in 1..p+1 : sent[i] = "row"} = {i \in 1..p : sent[i] = "row"}
    BY <1>a
  <2>2. AllGot(p)
    BY <1>2, <1>5, Zenon DEF Sync
  <2>3. AllGot(p + 1)
    BY <2>1, <2>2, Zenon DEF AllGot
  <2> QED  BY <1>0, <1>2, <2>3, GotKept
<1>6. CASE q = p + 1
  <2>1. app' = "next" /\ lastcols' = TRUE /\ cols' = p + 1 /\ inResultSet' = TRUE
    BY <1>1, <1>6, Zenon DEF Columns
  <2>2. StepInv(p + 1, q)'
    BY <1>0, <1>1, <1>2, <1>6, <2>1 DEF StepInv, OnlyRows
  <2> QED  BY <1>0, <1>2, <1>3, <1>5, <2>1, <2>2, QueueKept, Zenon DEF Sync
<1>7. CASE p + 1 < q
  <2>1. sent[p + 1] = "scan"
    BY <1>1, <1>7 DEF OnlyScans
  <2>2. app' = "columns"
    BY <2>1, Zenon DEF Columns
  <2>3. OnlyScans(p+1+1, q-1)'
    BY <1>0, <1>1 DEF OnlyScans
  <2>4. StepInv(p + 1, q)'
    BY <1>0, <1>1, <1>2, <1>7, <2>2, <2>3 DEF StepInv
  <2> QED  BY <1>0, <1>2, <1>3, <1>5, <2>2, <2>4, QueueKept, Zenon DEF Sync
<1> QED  BY <1>1, <1>6, <1>7

\* Next takes a row of the columns that the message announced, or their DONE.
LEMMA NextSync ==
    ASSUME Typed, ReplyInv, TodoInv, NEW p \in 0..Len(sent), NEW q \in 0..Len(sent),
           Sync(p, q), p + 1 \in 1..Len(sent), ChanInv(p + 1)', UNCHANGED <<readVars, queue>>,
           NextToken(sent[p + 1], p + 1)
    PROVE  Sync(p + 1, q)' /\ app' \in {"rows", "loop"} /\ UNCHANGED <<over, ctx, good>>
<1>0. /\ Len(sent) \in Nat /\ FlagType /\ UNCHANGED sent /\ got \in Seq(Nat)
      /\ sent[p + 1] \in {"cols", "row", "done", "last", "scan"}
      /\ \A i \in 1..Len(sent) :
            /\ sent[i] = "cols" => i = 1 \/ sent[i-1] \in {"done", "scan"}
            /\ sent[i] = "scan" => i = 1 \/ sent[i-1] \in {"done", "last", "scan"}
            /\ sent[i] = "last" => i = Len(sent)
  BY SentFacts, Zenon DEF Typed, readVars, AppType
<1>1. /\ app = "next" /\ lastcols /\ inResultSet /\ q = cols /\ q = cur /\ q # 0 /\ q <= p
      /\ sent[q] = "cols" /\ OnlyRows(q+1, p)
  BY Zenon DEF NextToken, Sync, StepInv
<1>2. UNCHANGED <<lastcols, cur, cols, skipped, over, ctx, good>>
      /\ sent[p + 1] \notin {"cols", "scan"}
  <2>1. sent[p] \in {"cols", "row"}
    BY <1>0, <1>1 DEF OnlyRows
  <2>2. sent[p + 1] \notin {"cols", "scan"}
    BY <1>0, <1>1, <2>1
  <2> QED  BY <1>0, <2>2, Zenon DEF NextToken, Errors, rowsVars
<1>3. ~requestDone
  BY <1>0 DEF Sync
<1>4. CASE sent[p + 1] = "row"
  <2>1. /\ app' = "rows" /\ got' = Append(got, p + 1) /\ UNCHANGED <<inResultSet, requestDone>>
    BY <1>4, Zenon DEF NextToken, Errors, rowsVars
  <2>2. /\ Len(got) \in Nat /\ Len(got') = Len(got) + 1 /\ got'[Len(got) + 1] = p + 1
        /\ \A i \in 1..Len(got) : got'[i] = got[i]
    BY <1>0, <2>1, AppendProperties, LenProperties
  <2>3. StepInv(p + 1, q)'
    <3>1. OnlyRows(q+1, p+1)'
      BY <1>0, <1>1, <1>4 DEF OnlyRows
    <3>2. got' # <<>> /\ got'[Len(got')] = p + 1
      BY <2>2
    <3>3. /\ app' = "rows" /\ lastcols' /\ inResultSet' /\ q = cols' /\ q = cur'
          /\ sent'[q] = "cols" /\ q <= p + 1 /\ p + 1 > q
      <4>1. lastcols' /\ inResultSet'
        BY <1>1, <1>2, <2>1, Zenon
      <4>2. app' = "rows" /\ q = cols' /\ q = cur' /\ sent'[q] = "cols"
        BY <1>0, <1>1, <1>2, <2>1, Zenon
      <4>3. q <= p + 1 /\ p + 1 > q
        BY <1>0, <1>1
      <4> QED  BY <4>1, <4>2, <4>3, Zenon
    <3> QED  BY <1>1, <3>1, <3>2, <3>3, Zenon DEF StepInv
  <2>4. ASSUME ~skipped  PROVE AllGot(p + 1)'
    <3>1. AllGot(p)
      BY <2>4, Zenon DEF Sync
    <3>2. \A i \in 1..Len(got) : got[i] \in 1..p
      BY <3>1, Zenon DEF AllGot
    <3>3. \A i \in 1..Len(got') : i \in 1..Len(got) \/ i = Len(got')
      BY <2>2
    <3>4. \A i, j \in 1..Len(got') : i < j => got'[i] < got'[j]
      BY <2>2, <3>1, <3>2, <3>3 DEF AllGot
    <3>5. {got'[i] : i \in 1..Len(got')} = {got[i] : i \in 1..Len(got)} \cup {p + 1}
      <4>1. /\ Len(got') \in 1..Len(got') /\ got'[Len(got')] = p + 1
            /\ \A i \in 1..Len(got) : i \in 1..Len(got') /\ got'[i] = got[i]
        BY <2>2
      <4> QED  BY <3>3, <4>1, Zenon
    <3>6. {i \in 1..p+1 : sent[i] = "row"} = {i \in 1..p : sent[i] = "row"} \cup {p + 1}
      BY <1>4
    <3> QED  BY <1>0, <3>1, <3>4, <3>5, <3>6, Zenon DEF AllGot
  <2> QED  BY <1>2, <1>3, <2>1, <2>3, <2>4, QueueKept, Zenon DEF Sync
<1>5. CASE sent[p + 1] \in {"done", "last"}
  <2>1. /\ app' = "loop" /\ inResultSet' = FALSE /\ UNCHANGED got
        /\ requestDone' = (requestDone \/ sent[p + 1] = "last")
    BY <1>1, <1>5, Zenon DEF NextToken, Errors
  <2>2. StepInv(p + 1, q)'
    <3>1. Ends(p + 1)' /\ OnlyRows(q+1, p)' /\ q < p + 1 /\ (p + 1) - 1 = p
      BY <1>0, <1>1, <1>5 DEF OnlyRows, Ends
    <3>2. app' = "loop" /\ lastcols' /\ ~inResultSet'
      BY <1>1, <1>2, <2>1, Zenon
    <3> QED  BY <3>1, <3>2, Zenon DEF StepInv
  <2>3. ASSUME ~skipped  PROVE AllGot(p + 1)'
    <3>1. {i \in 1..p+1 : sent[i] = "row"} = {i \in 1..p : sent[i] = "row"}
      BY <1>5
    <3>2. AllGot(p)
      BY <2>3, Zenon DEF Sync
    <3>3. sent' = sent /\ got' = got
      BY <1>0, <2>1, Zenon
    <3>4. AllGot(p + 1)
      BY <3>1, <3>2, Zenon DEF AllGot
    <3> QED  BY <3>3, <3>4, Zenon DEF AllGot
  <2>4. requestDone' => p + 1 = Len(sent') /\ p + 1 # 0 /\ sent'[p + 1] = "last"
    <3>1. requestDone' => sent[p + 1] = "last"
      BY <1>3, <2>1, Zenon
    <3> QED  BY <1>0, <3>1
  <2> QED  BY <1>2, <2>1, <2>2, <2>3, <2>4, QueueKept, Zenon DEF Sync
<1> QED  BY <1>0, <1>2, <1>4, <1>5, Zenon

\* NextResultSet goes to the end of a result set that was left, or to the next
\* columns or DONE.
LEMMA NextSetSync ==
    ASSUME Typed, ReplyInv, TodoInv, NEW p \in 0..Len(sent), NEW q \in 0..Len(sent),
           Sync(p, q), p + 1 \in 1..Len(sent), ChanInv(p + 1)', UNCHANGED <<readVars, queue>>,
           NextResultSetToken(sent[p + 1], p + 1), sent[p + 1] # "scan"
    PROVE  Sync(p + 1, q)' /\ app' \in {"nextset", "loop"} /\ UNCHANGED <<over, ctx, good>>
<1>0. /\ Len(sent) \in Nat /\ UNCHANGED <<sent, reply>>
      /\ sent[p + 1] \in {"cols", "row", "done", "last"}
      /\ \A i \in 1..Len(sent) :
            /\ sent[i] = "row" => i > 1 /\ sent[i-1] \in {"cols", "row"}
            /\ sent[i] = "last" => i = Len(sent)
  BY SentFacts, Zenon DEF Typed, readVars
<1>1. /\ app = "nextset" /\ ~lastcols
      /\ \/ q = p /\ Ends(p)
         \/ /\ p < q /\ Ends(q) /\ OnlyRows(p+1, q-1)
            /\ p + 1 < q => skipped
         \/ p < q /\ Ends(q) /\ OnlyScans(p+1, q-1)
         \/ /\ reply = "broken" /\ OnlyRows(p+1, Len(sent)) /\ skipped
  BY Zenon DEF NextResultSetToken, Sync, StepInv
<1>2. UNCHANGED <<lastcols, skipped, over, ctx, good, got>>
  BY <1>0, Zenon DEF NextResultSetToken, Errors, rowsVars
<1>3. ~requestDone
  BY <1>0 DEF Sync
<1>4. (p + 1) - 1 = p
  OBVIOUS
<1>5. ASSUME sent[p + 1] # "row"
      PROVE  /\ q <= p + 1 /\ OnlyRows(q+1, p)
             /\ sent[p + 1] = "cols" => q = p
             /\ ~skipped => AllGot(p + 1)'
  <2>0. ASSUME ~skipped  PROVE AllGot(p + 1)'
    <3>1. {i \in 1..p+1 : sent[i] = "row"} = {i \in 1..p : sent[i] = "row"}
      BY <1>5
    <3>2. AllGot(p)
      BY <2>0, Zenon DEF Sync
    <3>3. AllGot(p + 1)
      BY <3>1, <3>2, Zenon DEF AllGot
    <3> QED  BY <1>0, <1>2, <3>3, GotKept
  <2>1. CASE q = p /\ Ends(p)
    BY <2>0, <2>1 DEF OnlyRows
  <2>2. CASE p < q /\ Ends(q) /\ OnlyRows(p+1, q-1)
    <3>1. ~(p + 1 <= q - 1)
      BY <1>5, <2>2 DEF OnlyRows
    <3>2. q = p + 1
      BY <2>2, <3>1
    <3> QED  BY <2>0, <2>2, <3>2 DEF OnlyRows, Ends
  <2>3. CASE OnlyRows(p+1, Len(sent))
    BY <1>0, <1>5, <2>3 DEF OnlyRows
  <2>4. CASE p < q /\ Ends(q) /\ OnlyScans(p+1, q-1)
    <3>1. ~(p + 1 <= q - 1)
      BY <2>4 DEF OnlyScans
    <3>2. q = p + 1
      BY <2>4, <3>1
    <3> QED  BY <2>0, <2>4, <3>2 DEF OnlyRows, Ends
  <2> QED  BY <1>1, <2>0, <2>1, <2>2, <2>3, <2>4, Zenon
<1>6. CASE sent[p + 1] = "cols"
  <2>1. app' = "loop" /\ cols' = p + 1 /\ inResultSet' = TRUE /\ UNCHANGED requestDone
    BY <1>6, Zenon DEF NextResultSetToken, Errors
  <2>2. q < p + 1 /\ OnlyRows(q+1, p)'
    BY <1>0, <1>5, <1>6 DEF OnlyRows
  <2>3. ~lastcols' /\ cols' # 0 /\ inResultSet'
    BY <1>1, <1>2, <2>1
  <2>4. StepInv(p + 1, q)'
    BY <1>0, <1>4, <1>6, <2>1, <2>2, <2>3, Zenon DEF StepInv
  <2>5. ~requestDone'
    BY <1>3, <2>1, Zenon
  <2>6. ~skipped' => AllGot(p + 1)'
    BY <1>2, <1>5, <1>6, Zenon
  <2> QED  BY <1>2, <2>1, <2>4, <2>5, <2>6, QueueKept, Zenon DEF Sync
<1>7. CASE sent[p + 1] \in {"done", "last"}
  <2>1. /\ app' = "loop" /\ cols' = 0 /\ inResultSet' = FALSE
        /\ requestDone' = (requestDone \/ sent[p + 1] = "last")
    BY <1>7, Zenon DEF NextResultSetToken, Errors
  <2>2. q <= p + 1 /\ OnlyRows(q+1, p)' /\ Ends(p + 1)'
    BY <1>0, <1>5, <1>7, Zenon DEF OnlyRows, Ends
  <2>3. ~lastcols' /\ ~inResultSet'
    BY <1>1, <1>2, <2>1, Zenon
  <2>4. StepInv(p + 1, q)'
    BY <1>4, <2>1, <2>2, <2>3, Zenon DEF StepInv
  <2>5. requestDone' => p + 1 = Len(sent') /\ p + 1 # 0 /\ sent'[p + 1] = "last"
    <3>1. requestDone' => sent[p + 1] = "last"
      BY <1>3, <2>1, Zenon
    <3> QED  BY <1>0, <3>1
  <2>6. ~skipped' => AllGot(p + 1)'
    BY <1>2, <1>5, <1>7, Zenon
  <2> QED  BY <1>2, <2>1, <2>4, <2>5, <2>6, QueueKept, Zenon DEF Sync
<1>8. CASE sent[p + 1] = "row"
  <2>1. app' = "nextset" /\ UNCHANGED <<cols, inResultSet, requestDone>>
    BY <1>8, Zenon DEF NextResultSetToken, Errors, rowsVars
  <2>2. ~(q = p /\ Ends(p))
    BY <1>0, <1>8 DEF Ends
  <2>3. skipped /\ \/ p + 1 < q /\ Ends(q) /\ OnlyRows(p+1, q-1)
                   \/ reply = "broken" /\ OnlyRows(p+1, Len(sent))
    <3>1. CASE p < q /\ Ends(q) /\ OnlyRows(p+1, q-1) /\ (p + 1 < q => skipped)
      <4>1. q # p + 1
        BY <1>8, <3>1 DEF Ends
      <4>2. p + 1 < q
        BY <3>1, <4>1
      <4> QED  BY <3>1, <4>2, Zenon
    <3>2. ~(p < q /\ Ends(q) /\ OnlyScans(p+1, q-1))
      <4>1. SUFFICES ASSUME p < q, Ends(q), OnlyScans(p+1, q-1)  PROVE FALSE
        BY Zenon
      <4>2. q = p + 1 \/ p + 1 \in p+1..q-1
        BY <4>1
      <4> QED  BY <1>8, <4>1, <4>2 DEF Ends, OnlyScans
    <3> QED  BY <1>1, <2>2, <3>1, <3>2, Zenon
  <2>4. \/ p + 1 < q /\ Ends(q)' /\ OnlyRows(p+1+1, q-1)'
        \/ reply' = "broken" /\ OnlyRows(p+1+1, Len(sent))'
    BY <1>0, <2>3 DEF OnlyRows, Ends
  <2>5. skipped' /\ ~lastcols'
    BY <1>1, <1>2, <2>3, Zenon
  <2>6. StepInv(p + 1, q)'
    BY <2>1, <2>4, <2>5, Zenon DEF StepInv
  <2> QED  BY <1>2, <1>3, <2>1, <2>5, <2>6, QueueKept, Zenon DEF Sync
<1> QED  BY <1>0, <1>2, <1>6, <1>7, <1>8, Zenon

\* The queue after a message was taken, when the reader did nothing.
LEMMA QueueShorter ==
    ASSUME NEW q, UNCHANGED readVars, q <= Told, q <= Put,
           \A i \in 1..Len(queue') :
              \/ queue'[i] = Notice
              \/ queue'[i] = Stop /\ Finished /\ ~MsgDue
              \/ \E n \in q+1..Told : n <= Put /\ sent[n] \notin Unannounced /\ queue'[i] = MsgOf(n),
           \A i, j \in 1..Len(queue') : i < j /\ queue'[j].n # 0 =>
              queue'[i] # Stop /\ queue'[i].n < queue'[j].n,
           \A n \in q+1..Told : sent[n] \notin Unannounced => \E i \in 1..Len(queue') : queue'[i].n = n
    PROVE  QueueInv(q)'
<1>1. UNCHANGED <<Told, Put, Finished, sent>> /\ (MsgDue' <=> MsgDue)
  BY Zenon DEF readVars, Told, Put, MsgDue, TokenDue, Finished
<1>2. (\A n : MsgOf(n)' = MsgOf(n)) /\ Notice' = Notice /\ Stop' = Stop
  BY <1>1, Zenon DEF MsgOf, Notice, Stop, Msg
<1> QED  BY <1>1, <1>2, Zenon DEF QueueInv

\* The message that is taken announces the first token after that of the last
\* one that is announced, or nothing, or the end.
LEMMA MessageTaken ==
    ASSUME Typed, ReplyInv, TodoInv, NEW q \in 0..Len(sent), QueueInv(q),
           queue # <<>>, queue' = Tail(queue), UNCHANGED readVars
    PROVE  \/ Head(queue).kind = "notice" /\ QueueInv(q)'
           \/ /\ Head(queue).kind = "nextset" /\ QueueInv(q)'
              /\ Finished /\ Quiet(q+1, Len(sent))
           \/ \E r \in q+1..Len(sent) :
                 /\ QueueInv(r)' /\ Head(queue).n = r
                 /\ sent[r] \notin Unannounced /\ Quiet(q+1, r-1)
                 /\ Head(queue).kind = IF sent[r] = "cols" THEN "next" ELSE "nextset"
<1> DEFINE h == Head(queue)
<1>0. /\ Len(sent) \in Nat /\ Put \in Int /\ Told \in Int /\ Put <= Len(sent)
      /\ Told <= Len(sent) /\ UNCHANGED <<sent, Told, Put, Finished>> /\ (MsgDue' <=> MsgDue)
      /\ Told = IF MsgDue THEN Len(sent) - 1 ELSE Len(sent)
  BY SentFacts, Zenon DEF Typed, readVars, Told, Put, MsgDue, TokenDue, Finished
<1>1. /\ h = queue[1] /\ Len(queue) \in Nat \ {0} /\ Len(queue') = Len(queue) - 1
      /\ \A i \in 1..Len(queue') : queue'[i] = queue[i+1]
  BY TailFacts, Zenon DEF Typed, QueueType
<1>2. /\ 1 \in 1..Len(queue)
      /\ \A i \in 1..Len(queue') : i + 1 \in 1..Len(queue) /\ 1 < i + 1
      /\ \A i \in 1..Len(queue) : i # 1 => i - 1 \in 1..Len(queue') /\ queue'[i-1] = queue[i]
  BY <1>1
<1>4. /\ q <= Told /\ q <= Put
      /\ \A i \in 1..Len(queue) :
            \/ queue[i] = Notice
            \/ queue[i] = Stop /\ Finished /\ ~MsgDue
            \/ \E n \in q+1..Told : n <= Put /\ sent[n] \notin Unannounced /\ queue[i] = MsgOf(n)
      /\ \A i, j \in 1..Len(queue) : i < j /\ queue[j].n # 0 =>
            queue[i] # Stop /\ queue[i].n < queue[j].n
      /\ \A n \in q+1..Told : sent[n] \notin Unannounced => \E i \in 1..Len(queue) : queue[i].n = n
  BY Zenon DEF QueueInv
<1>5. ASSUME NEW i \in 1..Len(queue'), NEW j \in 1..Len(queue'), i < j, queue'[j].n # 0
      PROVE  queue'[i] # Stop /\ queue'[i].n < queue'[j].n
  <2>1. i + 1 \in 1..Len(queue) /\ j + 1 \in 1..Len(queue) /\ i + 1 < j + 1
    BY <1>1, <1>5
  <2> QED  BY <1>1, <1>4, <1>5, <2>1
<1>6. ASSUME h.n = 0  PROVE QueueInv(q)'
  <2>1. ASSUME NEW n \in q+1..Told, sent[n] \notin Unannounced
        PROVE  \E i \in 1..Len(queue') : queue'[i].n = n
    <3>1. PICK i \in 1..Len(queue) : queue[i].n = n
      BY <1>4, <2>1, Zenon
    <3>2. i # 1
      BY <1>1, <1>6, <3>1
    <3> QED  BY <1>2, <3>1, <3>2, Zenon
  <2>2. \A i \in 1..Len(queue') :
            \/ queue'[i] = Notice
            \/ queue'[i] = Stop /\ Finished /\ ~MsgDue
            \/ \E n \in q+1..Told : n <= Put /\ sent[n] \notin Unannounced /\ queue'[i] = MsgOf(n)
    BY <1>1, <1>2, <1>4
  <2>3. q <= Told /\ q <= Put
    BY <1>4, Zenon
  <2> QED  BY <1>5, <2>1, <2>2, <2>3, QueueShorter
<1>7. CASE h = Notice
  BY <1>6, <1>7, MessageFacts, Zenon
<1>8. CASE h = Stop /\ Finished /\ ~MsgDue
  <2>1. h.n = 0 /\ h.kind = "nextset"
    BY <1>8, MessageFacts, Zenon
  <2>2. ASSUME NEW n \in q+1..Len(sent)  PROVE sent[n] \in Unannounced
    <3>1. SUFFICES ASSUME sent[n] \notin Unannounced  PROVE FALSE
      BY Zenon
    <3>2. Told = Len(sent)
      BY <1>0, <1>8, Zenon
    <3>3. PICK i \in 1..Len(queue) : queue[i].n = n
      BY <1>4, <3>1, <3>2, Zenon
    <3>4. n # 0 /\ i # 1 /\ 1 < i
      BY <1>1, <2>1, <3>3
    <3> QED  BY <1>1, <1>2, <1>4, <1>8, <3>3, <3>4, Zenon
  <2> QED  BY <1>6, <1>8, <2>1, <2>2, Zenon DEF Quiet
<1>9. ASSUME NEW r \in q+1..Told, r <= Put, sent[r] \notin Unannounced, h = MsgOf(r)
      PROVE  /\ r \in q+1..Len(sent) /\ QueueInv(r)' /\ h.n = r /\ Quiet(q+1, r-1)
             /\ h.kind = IF sent[r] = "cols" THEN "next" ELSE "nextset"
  <2>1. /\ r \in q+1..Len(sent) /\ r \in Nat \ {0} /\ h.n = r
        /\ h.kind = IF sent[r] = "cols" THEN "next" ELSE "nextset"
    <3>1. r \in q+1..Len(sent) /\ r \in Nat \ {0}
      BY <1>0, <1>9
    <3> QED  BY <1>9, <3>1, MessageFacts
  <2>2. \A i \in 1..Len(queue) : i # 1 /\ queue[i].n # 0 => r < queue[i].n
    BY <1>1, <1>2, <1>4, <2>1
  <2>3. ASSUME NEW n \in q+1..r-1  PROVE sent[n] \in Unannounced
    <3>1. SUFFICES ASSUME sent[n] \notin Unannounced  PROVE FALSE
      BY Zenon
    <3>2. n \in q+1..Told /\ n # 0 /\ n < r
      BY <1>0, <1>9, <2>1
    <3>3. PICK i \in 1..Len(queue) : queue[i].n = n
      BY <1>4, <3>1, <3>2, Zenon
    <3> QED  BY <1>1, <2>1, <2>2, <3>2, <3>3
  <2>4. ASSUME NEW i \in 1..Len(queue')
        PROVE  \/ queue'[i] = Notice
               \/ queue'[i] = Stop /\ Finished /\ ~MsgDue
               \/ \E n \in r+1..Told : n <= Put /\ sent[n] \notin Unannounced /\ queue'[i] = MsgOf(n)
    <3>1. i + 1 \in 1..Len(queue) /\ i + 1 # 1 /\ queue'[i] = queue[i+1]
      BY <1>1, <1>2
    <3>2. ASSUME NEW n \in q+1..Told, n <= Put, sent[n] \notin Unannounced, queue[i+1] = MsgOf(n)
          PROVE  n \in r+1..Told
      <4>1. n \in Nat \ {0} /\ queue[i+1].n = n
        BY <1>0, <3>2, MessageFacts
      <4>2. r < n
        BY <2>2, <3>1, <4>1, Zenon
      <4> QED  BY <1>0, <2>1, <4>1, <4>2
    <3> QED  BY <1>4, <3>1, <3>2
  <2>5. ASSUME NEW n \in r+1..Told, sent[n] \notin Unannounced
        PROVE  \E i \in 1..Len(queue') : queue'[i].n = n
    <3>1. n \in q+1..Told /\ n # r
      BY <1>0, <2>1
    <3>2. PICK i \in 1..Len(queue) : queue[i].n = n
      BY <1>4, <2>5, <3>1, Zenon
    <3>3. i # 1
      BY <1>1, <2>1, <3>1, <3>2, Zenon
    <3> QED  BY <1>2, <3>2, <3>3, Zenon
  <2>6. r <= Told /\ r <= Put
    BY <1>0, <1>9
  <2>7. QueueInv(r)'
    BY <1>5, <2>4, <2>5, <2>6, QueueShorter
  <2> QED  BY <2>1, <2>3, <2>7, Zenon DEF Quiet
<1>10. h = Notice \/ (h = Stop /\ Finished /\ ~MsgDue)
       \/ \E r \in q+1..Told : r <= Put /\ sent[r] \notin Unannounced /\ h = MsgOf(r)
  <2>1. 1 \in 1..Len(queue) /\ h = queue[1]
    BY <1>1, <1>2, Zenon
  <2> HIDE DEF h
  <2> QED  BY <1>4, <2>1, Zenon
<1> QED  BY <1>7, <1>8, <1>9, <1>10, Zenon

\* The channel is left as it is.
LEMMA ChanKept ==
    ASSUME NEW p, ChanInv(p), UNCHANGED <<readVars, chan>>  PROVE ChanInv(p)'
<1>1. UNCHANGED <<Put, sent, reply, chan>> /\ (Sending' <=> Sending)
  BY Zenon DEF readVars, Put, TokenDue, Sending
<1> QED  BY <1>1 DEF ChanInv

\* There is one first token behind q that is announced.
LEMMA FirstEnd ==
    ASSUME NEW p \in Int, NEW q \in Int, NEW r \in Int, q < p, q < r,
           sent[p] \notin Unannounced, sent[r] \notin Unannounced, OnlyRows(q+1, p-1), Quiet(q+1, r-1)
    PROVE  r = p
<1>1. ~(r < p)
  BY DEF OnlyRows, Unannounced
<1>2. ~(p < r)
  BY DEF Quiet
<1> QED  BY <1>1, <1>2

\* A MsgNext comes when the columns it announces have been taken by
\* NextResultSet, or are the next token.
LEMMA HandleNextSync ==
    ASSUME Typed, ReplyInv, TodoInv, Live, good,
           NEW p \in 0..Len(sent), NEW q \in 0..Len(sent), Sync(p, q), HandleNext
    PROVE  /\ \E r \in 0..Len(sent) : Sync(p, r)'
           /\ app' \in {"next", "columns"} /\ UNCHANGED <<over, ctx>>
<1>0. /\ Len(sent) \in Nat /\ ReadType /\ FlagType /\ p \in Int /\ q \in Int
      /\ \A i \in 1..Len(sent) :
            sent[i] = "cols" => i = 1 \/ sent[i-1] \in {"done", "scan"}
  BY SentFacts DEF Typed
<1>1. /\ app = "loop" /\ queue # <<>> /\ Head(queue).kind = "next" /\ queue' = Tail(queue)
      /\ UNCHANGED <<readVars, chan, inResultSet, cols, requestDone, got, skipped>>
      /\ cur' = Head(queue).n
  BY Zenon DEF HandleNext, Calls, chanVars, rowsVars
<1>2. /\ UNCHANGED <<over, ctx>> /\ lastcols' = (lastcols \/ lastcols \/ cols # 0)
      /\ app' = IF lastcols \/ cols # 0 THEN "next" ELSE "columns"
  BY Zenon DEF HandleNext, CallNext, Live
<1>3. PICK r \in q+1..Len(sent) :
         /\ QueueInv(r)' /\ Head(queue).n = r /\ sent[r] = "cols" /\ Quiet(q+1, r-1)
  <2>1. QueueInv(q)
    BY Zenon DEF Sync
  <2> QED  BY <1>1, <2>1, MessageTaken, Zenon
<1>4. r \in 0..Len(sent) /\ r \in Int /\ q < r /\ UNCHANGED sent /\ sent[r] \notin Unannounced
      /\ (r = 1 \/ sent[r-1] \in {"done", "scan"})
  BY <1>0, <1>1, <1>3 DEF readVars, Unannounced
<1>5. ChanInv(p)' /\ (~skipped' => AllGot(p)')
      /\ (requestDone' => p = Len(sent') /\ p # 0 /\ sent'[p] = "last")
  <2>1. ChanInv(p)'
    BY <1>1, ChanKept, Zenon DEF Sync
  <2> QED  BY <1>1, <1>4, <2>1 DEF Sync, AllGot
<1>6. CASE lastcols /\ inResultSet
  <2>1. q # 0 /\ sent[q] = "cols"
    BY <1>1, <1>6, Zenon DEF Sync, StepInv
  <2>2. r - 1 = q \/ r - 1 \in q+1..r-1
    BY <1>0, <1>4
  <2>a. OnlyRows(q+1, r-1)
    <3>1. q \in 1..Len(sent) /\ r-1 \in Int /\ r-1 <= Len(sent)
      BY <1>0, <1>4, <2>1
    <3> QED  BY <1>0, <1>3, <2>1, <3>1, QuietAfterCols, Zenon
  <2>3. sent[r-1] \in {"cols", "row"} /\ r # 1
    BY <1>0, <1>4, <2>1, <2>2, <2>a DEF OnlyRows
  <2> QED  BY <1>4, <2>3, Zenon
<1>7. CASE lastcols /\ ~inResultSet
  <2>1. q < p /\ Ends(p) /\ OnlyRows(q+1, p-1)
    BY <1>1, <1>7, Zenon DEF Sync, StepInv
  <2>2. sent[p] \in {"done", "last"}
    BY <1>0, <2>1 DEF Ends
  <2>3. r = p
    BY <1>0, <1>3, <1>4, <2>1, <2>2, FirstEnd, Zenon DEF Unannounced
  <2> QED  BY <1>3, <2>2, <2>3, Zenon
<1>8. CASE ~lastcols /\ cols # 0
  <2>1. p = cols /\ q < p /\ sent[p] = "cols" /\ inResultSet /\ OnlyRows(q+1, p-1)
    BY <1>1, <1>8, Zenon DEF Sync, StepInv
  <2>2. r = p
    BY <1>0, <1>3, <1>4, <2>1, FirstEnd, Zenon DEF Unannounced
  <2>3. app' = "next" /\ lastcols'
    BY <1>2, <1>8, Zenon
  <2>4. inResultSet'
    BY <1>1, <2>1, Zenon
  <2>5. OnlyRows(r+1, p)'
    BY <1>0, <2>2 DEF OnlyRows
  <2>6. r = cols' /\ r = cur' /\ r # 0 /\ r <= p /\ sent'[r] = "cols"
    BY <1>0, <1>1, <1>3, <1>4, <2>1, <2>2
  <2>7. StepInv(p, r)'
    BY <2>3, <2>4, <2>5, <2>6, Zenon DEF StepInv
  <2>8. Sync(p, r)'
    BY <1>3, <1>5, <2>7, Zenon DEF Sync
  <2> QED  BY <1>2, <1>4, <2>3, <2>8, Zenon
<1>9. CASE ~lastcols /\ cols = 0
  <2>1. q <= p /\ Ends(p) /\ OnlyRows(q+1, p-1)
    BY <1>1, <1>9, Zenon DEF Sync, StepInv
  <2>2. q = p
    <3>1. CASE q < p
      <4>1. sent[p] \in {"done", "last"}
        BY <1>0, <2>1, <3>1 DEF Ends
      <4>2. r = p
        BY <1>0, <1>3, <1>4, <2>1, <3>1, <4>1, FirstEnd, Zenon DEF Unannounced
      <4> QED  BY <1>3, <4>1, <4>2, Zenon
    <3> QED  BY <1>0, <2>1, <3>1
  <2>3. OnlyScans(p+1, r-1) /\ p < r
    <3>1. p < r /\ r-1 \in Int /\ r-1 <= Len(sent)
      BY <1>0, <1>4, <2>2
    <3> QED  BY <1>0, <1>3, <2>1, <2>2, <3>1, QuietAfterEnd, Zenon
  <2>4. app' = "columns"
    BY <1>2, <1>9, Zenon
  <2>5. r = cur' /\ sent'[r] = "cols"
    BY <1>1, <1>3, <1>4, Zenon
  <2>a. OnlyScans(p+1, r-1)'
    BY <1>4, <2>3, Zenon DEF OnlyScans
  <2>6. StepInv(p, r)'
    BY <2>3, <2>4, <2>5, <2>a, Zenon DEF StepInv
  <2>7. Sync(p, r)'
    BY <1>3, <1>5, <2>6, Zenon DEF Sync
  <2> QED  BY <1>2, <1>4, <2>4, <2>7, Zenon
<1> QED  BY <1>6, <1>7, <1>8, <1>9, Zenon

\* A MsgNextResultSet comes when the DONE it announces has been taken, or is
\* the next token, or ends the result set that was left.
LEMMA HandleSetSync ==
    ASSUME Typed, ReplyInv, TodoInv, Live, ~requestDone,
           NEW p \in 0..Len(sent), NEW q \in 0..Len(sent), Sync(p, q), HandleNextResultSet
    PROVE  /\ \E r \in 0..Len(sent) : Sync(p, r)'
           /\ app' = "nextset" /\ UNCHANGED <<over, ctx>>
<1>0. /\ Len(sent) \in Nat /\ ReadType /\ FlagType /\ p \in Int /\ q \in Int
      /\ \A i \in 1..Len(sent) : sent[i] \in {"cols", "row", "done", "last", "scan"}
      /\ sent # <<>> => Len(sent) # 0
  BY SentFacts DEF Typed
<1>1. /\ app = "loop" /\ queue # <<>> /\ Head(queue).kind = "nextset" /\ queue' = Tail(queue)
      /\ UNCHANGED <<readVars, chan, inResultSet, cols, requestDone, got, skipped>>
      /\ UNCHANGED <<over, ctx>> /\ app' = "nextset" /\ lastcols' = FALSE
  BY Zenon DEF HandleNextResultSet, Calls, chanVars, rowsVars, Live
<1>2. ChanInv(p)' /\ (~skipped' => AllGot(p)') /\ ~requestDone' /\ UNCHANGED <<sent, reply>>
  <2>1. ChanInv(p)'
    BY <1>1, ChanKept, Zenon DEF Sync
  <2>2. UNCHANGED <<sent, reply>>
    BY <1>1, Zenon DEF readVars
  <2> QED  BY <1>1, <2>1, <2>2, Zenon DEF Sync, AllGot
<1>3. ASSUME NEW r \in 0..Len(sent), QueueInv(r)',
             \/ r = p /\ Ends(p)
             \/ p < r /\ Ends(r) /\ OnlyRows(p+1, r-1) /\ (p + 1 < r => skipped)
             \/ p < r /\ Ends(r) /\ OnlyScans(p+1, r-1)
             \/ reply = "broken" /\ OnlyRows(p+1, Len(sent)) /\ skipped
      PROVE  \E x \in 0..Len(sent) : Sync(p, x)'
  <2>1. /\ skipped' = skipped /\ reply' = reply /\ sent' = sent
        /\ Ends(p)' = Ends(p) /\ Ends(r)' = Ends(r)
        /\ OnlyRows(p+1, r-1)' = OnlyRows(p+1, r-1)
        /\ OnlyScans(p+1, r-1)' = OnlyScans(p+1, r-1)
        /\ OnlyRows(p+1, Len(sent))' = OnlyRows(p+1, Len(sent))
    BY <1>1, <1>2, Zenon DEF Ends, OnlyRows, OnlyScans
  <2>2. ~lastcols'
    BY <1>1, Zenon
  <2>3. StepInv(p, r)'
    BY <1>1, <1>3, <2>1, <2>2 DEF StepInv
  <2> QED  BY <1>2, <1>3, <2>3, Zenon DEF Sync
<1>4. ASSUME NEW r \in q+1..Len(sent), QueueInv(r)', sent[r] \in {"done", "last"},
             Quiet(q+1, r-1)
      PROVE  \E x \in 0..Len(sent) : Sync(p, x)'
  <2>0. r \in 0..Len(sent) /\ r \in Int /\ q < r /\ Ends(r) /\ sent[r] \notin Unannounced
    BY <1>0, <1>4 DEF Ends, Unannounced
  <2>1. CASE lastcols /\ inResultSet
    <3>1. q <= p /\ OnlyRows(q+1, p) /\ skipped /\ q # 0 /\ sent[q] = "cols"
      BY <1>1, <2>1, Zenon DEF Sync, StepInv
    <3>2. p < r
      BY <1>0, <2>0, <3>1 DEF OnlyRows, Unannounced
    <3>a. q \in 1..Len(sent) /\ r-1 \in Int /\ r-1 <= Len(sent)
      BY <1>0, <2>0, <3>1
    <3>b. OnlyRows(q+1, r-1)
      BY <1>0, <1>4, <3>1, <3>a, QuietAfterCols, Zenon
    <3>3. OnlyRows(p+1, r-1)
      BY <1>0, <2>0, <3>1, <3>b DEF OnlyRows
    <3> QED  BY <1>3, <1>4, <2>0, <3>1, <3>2, <3>3, Zenon
  <2>2. CASE lastcols /\ ~inResultSet
    <3>1. q < p /\ Ends(p) /\ OnlyRows(q+1, p-1)
      BY <1>1, <2>2, Zenon DEF Sync, StepInv
    <3>2. sent[p] \notin Unannounced
      BY <1>0, <3>1 DEF Ends, Unannounced
    <3>3. r = p
      BY <1>0, <1>4, <2>0, <3>1, <3>2, FirstEnd, Zenon
    <3> QED  BY <1>3, <1>4, <2>0, <3>1, <3>3, Zenon
  <2>3. CASE ~lastcols /\ cols # 0
    <3>1. q < p /\ sent[p] = "cols" /\ OnlyRows(q+1, p-1)
      BY <1>1, <2>3, Zenon DEF Sync, StepInv
    <3>2. r = p
      BY <1>0, <1>4, <2>0, <3>1, FirstEnd, Zenon DEF Unannounced
    <3> QED  BY <1>4, <3>1, <3>2, Zenon
  <2>4. CASE ~lastcols /\ cols = 0
    <3>1. q <= p /\ Ends(p) /\ OnlyRows(q+1, p-1)
      BY <1>1, <2>4, Zenon DEF Sync, StepInv
    <3>2. CASE q < p
      <4>1. sent[p] \notin Unannounced
        BY <1>0, <3>1, <3>2 DEF Ends, Unannounced
      <4>2. r = p
        BY <1>0, <1>4, <2>0, <3>1, <3>2, <4>1, FirstEnd, Zenon
      <4> QED  BY <1>3, <1>4, <2>0, <3>1, <4>2, Zenon
    <3>3. CASE q = p
      <4>1. p < r /\ r-1 \in Int /\ r-1 <= Len(sent)
        BY <1>0, <2>0, <3>3
      <4>2. OnlyScans(p+1, r-1)
        BY <1>0, <1>4, <3>1, <3>3, <4>1, QuietAfterEnd, Zenon
      <4> QED  BY <1>3, <1>4, <2>0, <4>1, <4>2, Zenon
    <3> QED  BY <1>0, <3>1, <3>2, <3>3
  <2> QED  BY <2>1, <2>2, <2>3, <2>4, Zenon
<1>5. ASSUME QueueInv(q)', Finished, Quiet(q+1, Len(sent))
      PROVE  \E x \in 0..Len(sent) : Sync(p, x)'
  <2>0. reply = "broken" \/ (q = Len(sent) /\ q # 0 /\ sent[q] = "last")
    <3>1. CASE sent # <<>> /\ sent[Len(sent)] = "last"
      <4>1. ~(q < Len(sent))
        BY <1>0, <1>5, <3>1 DEF Quiet, Unannounced
      <4>2. q = Len(sent)
        BY <1>0, <4>1
      <4> QED  BY <1>0, <3>1, <4>2, Zenon
    <3> QED  BY <1>5, <3>1, Zenon DEF Finished
  <2>1. CASE lastcols /\ inResultSet
    <3>1. q <= p /\ q # 0 /\ sent[q] = "cols" /\ skipped
      BY <1>1, <2>1, Zenon DEF Sync, StepInv
    <3>2. reply = "broken"
      BY <2>0, <3>1, Zenon
    <3>a. q \in 1..Len(sent) /\ Len(sent) \in Int /\ Len(sent) <= Len(sent)
      BY <1>0, <3>1
    <3>b. OnlyRows(q+1, Len(sent))
      BY <1>0, <1>5, <3>1, <3>a, QuietAfterCols, Zenon
    <3>3. OnlyRows(p+1, Len(sent))
      BY <1>0, <3>1, <3>b DEF OnlyRows
    <3> QED  BY <1>3, <1>5, <3>1, <3>2, <3>3, Zenon
  <2>2. CASE lastcols /\ ~inResultSet
    <3>1. q < p /\ Ends(p)
      BY <1>1, <2>2, Zenon DEF Sync, StepInv
    <3>2. sent[p] \in Unannounced /\ p # 0
      BY <1>0, <1>5, <3>1 DEF Quiet
    <3> QED  BY <3>1, <3>2, Zenon DEF Ends, Unannounced
  <2>3. CASE ~lastcols /\ cols # 0
    <3>1. q < p /\ sent[p] = "cols"
      BY <1>1, <2>3, Zenon DEF Sync, StepInv
    <3>2. sent[p] \in Unannounced
      BY <1>0, <1>5, <3>1 DEF Quiet
    <3> QED  BY <3>1, <3>2, Zenon DEF Unannounced
  <2>4. CASE ~lastcols /\ cols = 0
    <3>1. q <= p /\ Ends(p)
      BY <1>1, <2>4, Zenon DEF Sync, StepInv
    <3>2. q = p
      <4>1. CASE q < p
        <5>1. sent[p] \in Unannounced /\ p # 0
          BY <1>0, <1>5, <4>1 DEF Quiet
        <5> QED  BY <3>1, <5>1, Zenon DEF Ends, Unannounced
      <4> QED  BY <1>0, <3>1, <4>1
    <3> QED  BY <1>3, <1>5, <3>1, <3>2, Zenon
  <2> QED  BY <2>1, <2>2, <2>3, <2>4, Zenon
<1>6. \E x \in 0..Len(sent) : Sync(p, x)'
  <2>1. QueueInv(q)
    BY Zenon DEF Sync
  <2>2. \/ QueueInv(q)' /\ Finished /\ Quiet(q+1, Len(sent))
        \/ \E r \in q+1..Len(sent) :
              /\ QueueInv(r)' /\ sent[r] \notin Unannounced /\ Quiet(q+1, r-1)
              /\ Head(queue).kind = IF sent[r] = "cols" THEN "next" ELSE "nextset"
    BY <1>1, <2>1, MessageTaken, Zenon
  <2>3. \A r \in q+1..Len(sent) : sent[r] \in {"cols", "row", "done", "last", "scan"}
    BY <1>0
  <2> QED  BY <1>1, <1>4, <1>5, <2>2, <2>3, Zenon DEF Unannounced
<1> QED  BY <1>1, <1>6, Zenon

\* Taking a token while the Rows are open: tokens and messages stay in step,
\* or the Rows are closed at the end of the reply or with an error.
LEMMA TakeSync ==
    ASSUME Typed, CtrlInv, ReplyInv, TodoInv, LiveInv, Live, TakeToken
    PROVE  \/ /\ \E p, q \in 0..Len(sent) : Sync(p, q)'
              /\ UNCHANGED <<over, ctx, good>> /\ app' \notin {"close", "finish", "ended"}
              /\ \A f \in Failures : Has(chan, f) => Has(chan', f)
           \/ /\ over' /\ app' \in {"close", "finish"} /\ (app' = "close" => reply # "open")
              /\ ~failed' => reply = "whole" /\ (~skipped' => AllGot(Len(sent))')
<1>0. /\ UNCHANGED <<readVars, queue>> /\ UNCHANGED <<sent, reply>> /\ Len(sent) \in Nat
      /\ chan \in Seq(ChanItems)
  BY LenProperties, Zenon DEF TakeToken, Typed, ReadType, ChanType, readVars
<1>1. PICK p \in 0..Len(sent), q \in 0..Len(sent) : Sync(p, q)
  BY Zenon DEF LiveInv
<1>3. Put \in Int
  BY SentFacts, Zenon DEF Typed
<1>2. app \notin {"close", "finish"} /\ (app = "columns" => p + 1 <= Put)
  <2>1. q <= Put /\ (app = "columns" => p < q)
    BY <1>1, Zenon DEF Sync, StepInv, QueueInv
  <2>2. app = "columns" => p + 1 <= Put
    BY <1>3, <2>1
  <2> QED  BY <2>2, Zenon DEF LiveInv
<1>4. ASSUME chan # <<>>, chan' = Tail(chan), NEW k, NEW n, k = Head(chan).kind,
             n = Head(chan).n, Take(k, n), k = sent[p + 1], n = p + 1,
             p + 1 \in 1..Len(sent), ChanInv(p + 1)', k = "scan" => app # "nextset"
      PROVE  /\ \E x, y \in 0..Len(sent) : Sync(x, y)'
             /\ UNCHANGED <<over, ctx, good>> /\ app' \notin {"close", "finish", "ended"}
             /\ \A f \in Failures : Has(chan, f) => Has(chan', f)
  <2>1. \A f \in Failures : Has(chan, f) => Has(chan', f)
    <3>1. \A f : Has(chan, f) <=> Head(chan).kind = f \/ Has(chan', f)
      BY <1>0, <1>4, HasFacts, Zenon
    <3>2. k \in {"cols", "row", "done", "last", "scan"}
      BY <1>4, SentFacts, Zenon DEF Typed
    <3> QED  BY <1>4, <3>1, <3>2, Zenon DEF Failures
  <2>2. p + 1 \in 0..Len(sent)
    BY <1>0, <1>4
  <2>3. CASE Columns(k, n)
    <3>1. Sync(p + 1, q)' /\ app' \in {"next", "columns"} /\ UNCHANGED <<over, ctx, good>>
      BY <1>0, <1>1, <1>4, <2>3, ColumnsSync, Zenon
    <3> QED  BY <2>1, <2>2, <3>1, Zenon
  <2>4. CASE NextToken(k, n)
    <3>1. Sync(p + 1, q)' /\ app' \in {"rows", "loop"} /\ UNCHANGED <<over, ctx, good>>
      BY <1>0, <1>1, <1>4, <2>4, NextSync, Zenon
    <3> QED  BY <2>1, <2>2, <3>1, Zenon
  <2>5. CASE NextResultSetToken(k, n)
    <3>0. sent[p + 1] # "scan"
      BY <1>4, <2>5, Zenon DEF NextResultSetToken
    <3>1. Sync(p + 1, q)' /\ app' \in {"nextset", "loop"} /\ UNCHANGED <<over, ctx, good>>
      BY <1>0, <1>1, <1>4, <2>5, <3>0, NextSetSync, Zenon
    <3> QED  BY <2>1, <2>2, <3>1, Zenon
  <2>6. ~CloseToken(k)
    BY <1>2, Zenon DEF CloseToken
  <2> QED  BY <1>4, <2>3, <2>4, <2>5, <2>6, Zenon DEF Take
<1>5. ASSUME NEW k, NEW n, Take(k, n), k \in Failures, p = Put, reply \in {"broken", "cut"}
      PROVE  over' /\ app' \in {"close", "finish"} /\ failed' /\ reply # "open"
  <2>1. ~Columns(k, n) /\ ~CloseToken(k)
    BY <1>2, <1>3, <1>5 DEF Columns, CloseToken
  <2>2. CASE NextToken(k, n)
    BY <1>5, <2>2, Zenon DEF NextToken, Failures, Errors, EnterClose
  <2>3. CASE NextResultSetToken(k, n)
    BY <1>5, <2>3, Zenon DEF NextResultSetToken, Failures, Errors, EnterClose
  <2> QED  BY <1>5, <2>1, <2>2, <2>3, Zenon DEF Take
<1>8. ASSUME NEW n, Take("scan", n), app = "nextset"
      PROVE  over' /\ app' = "finish" /\ failed'
  <2>1. NextResultSetToken("scan", n)
    BY <1>8, Zenon DEF Take, Columns, NextToken, CloseToken
  <2> QED  BY <2>1, Zenon DEF NextResultSetToken, Errors, EnterClose
<1>6. CASE chan # <<>> /\ chan' = Tail(chan) /\ Take(Head(chan).kind, Head(chan).n)
  <2>1. CASE /\ p + 1 <= Put /\ p + 1 \in 1..Len(sent) /\ Head(chan).n = p + 1
             /\ Head(chan).kind = sent[p + 1] /\ ChanInv(p + 1)'
    <3>1. CASE Head(chan).kind = "scan" /\ app = "nextset"
      <4>1. over' /\ app' = "finish" /\ failed'
        BY <1>6, <1>8, <3>1, Zenon
      <4> QED  BY <4>1, Zenon
    <3>2. CASE ~(Head(chan).kind = "scan" /\ app = "nextset")
      BY <1>4, <1>6, <2>1, <3>2, Zenon
    <3> QED  BY <3>1, <3>2, Zenon
  <2>2. CASE Head(chan).kind \in Failures /\ reply \in {"broken", "cut"} /\ p = Put
    BY <1>5, <1>6, <2>2, Zenon
  <2> QED  BY <1>0, <1>1, <1>6, <2>1, <2>2, TokenTaken, Zenon DEF Sync
<1>7. CASE chan = <<>> /\ closed /\ Take("nil", 0)
  <2>1. todo = <<>> /\ reply # "open" /\ p = Len(sent) /\ Put = Len(sent)
    <3>1. todo = <<>> /\ reply # "open"
      BY <1>7, Zenon DEF CtrlInv
    <3>2. Put = Len(sent)
      BY <3>1 DEF Put, TokenDue
    <3>3. p <= Put /\ Put <= p + Len(chan) /\ Len(chan) = 0
      BY <1>1, <1>7, Zenon DEF Sync, ChanInv
    <3> QED  BY <1>0, <3>1, <3>2, <3>3
  <2>2. reply = "whole" /\ p # 0 /\ sent[p] = "last"
    <3>1. ~(reply \in {"broken", "cut"})
      BY <1>7, <2>1, HasFacts, Zenon DEF LiveInv
    <3>2. reply = "whole"
      BY <2>1, <3>1, Zenon DEF Typed, ReadType
    <3>3. sent # <<>> /\ sent[Len(sent)] = "last"
      BY <3>2, Zenon DEF LiveInv
    <3> QED  BY <1>0, <2>1, <3>2, <3>3 DEF Typed, ReadType
  <2>3. app # "next" /\ app # "columns"
    <3>1. CASE app = "next"
      <4>1. q # 0 /\ q <= p /\ sent[q] = "cols" /\ OnlyRows(q+1, p)
        BY <1>1, <3>1, Zenon DEF Sync, StepInv
      <4>2. sent[p] \in {"cols", "row"}
        BY <1>0, <4>1 DEF OnlyRows
      <4> QED  BY <2>2, <4>2, Zenon
    <3> QED  BY <1>2, <2>1, <3>1
  <2>4. NextResultSetToken("nil", 0)
    BY <1>2, <1>7, <2>3, Zenon DEF Take, Columns, NextToken, CloseToken
  <2>5. over' /\ app' = "finish" /\ UNCHANGED <<got, skipped>>
    BY <2>4, Zenon DEF NextResultSetToken, EnterClose, Errors
  <2>6. ~skipped => AllGot(Len(sent))'
    BY <1>0, <1>1, <2>1, <2>5, Zenon DEF Sync, AllGot
  <2> QED  BY <2>2, <2>5, <2>6, Zenon
<1> QED  BY <1>6, <1>7, Zenon DEF TakeToken

\* A context that is done stays done.
LEMMA CtxStays == ASSUME [Next]_vars, appCtx  PROVE appCtx'
<1>1. CASE Server \/ Reader
  BY <1>1, Zenon DEF Server, ReadColumns, ReadRow, ReadNotice, ReadReturnValue, ReadFails, ReadDone, ReaderOnly,
     Reader, SendToken, Enqueue, ReaderExit, BackgroundDrain, ctxVars
<1>2. ASSUME NEW k, NEW n, Take(k, n)  PROVE appCtx'
  BY <1>2, Zenon DEF Take, Columns, NextToken, NextResultSetToken, CloseToken, ctxVars
<1>3. CASE TakeToken \/ Attention
  BY <1>2, <1>3, Zenon DEF TakeToken, Attention
<1>4. CASE HandleNext \/ HandleNotice \/ HandleNextResultSet \/ AfterRow \/ SqlCloses
           \/ UNCHANGED vars
  BY <1>4, Zenon DEF HandleNext, HandleNotice, HandleNextResultSet, AfterRow, SqlCloses,
     Calls, vars, ctxVars
<1>5. CASE Cancel
  BY <1>5, Zenon DEF Cancel
<1> QED  BY <1>1, <1>3, <1>4, <1>5, Zenon DEF Next, Application

\* Once the Rows are closed, at the end of the reply or with an error, they
\* stay so.
LEMMA OverStep ==
    ASSUME Typed, CtrlInv, OverInv, over, ~appCtx, [Next]_vars
    PROVE  LiveInv' /\ OverInv'
<1> DEFINE Closed == {"loop", "close", "finish", "ended"}
<1>0. /\ app \in Closed /\ (app \in {"loop", "close"} => reply # "open")
      /\ ~failed => reply = "whole" /\ (~skipped => AllGot(Len(sent)))
  BY Zenon DEF OverInv
<1>1. ASSUME UNCHANGED <<over, failed, got, skipped>>, app' \in Closed,
             app' \in {"loop", "close"} => app \in {"loop", "close"},
             reply # "open" => reply' # "open",
             reply = "whole" => UNCHANGED <<sent, reply>>
      PROVE  LiveInv' /\ OverInv'
  <2>1. ~Live'
    BY <1>1, Zenon DEF Live
  <2>2. app' \in {"loop", "close"} => reply' # "open"
    BY <1>0, <1>1, Zenon
  <2>3. ASSUME ~failed'  PROVE reply' = "whole" /\ (~skipped' => AllGot(Len(sent))')
    <3>1. ~failed /\ reply = "whole" /\ (~skipped => AllGot(Len(sent)))
      BY <1>0, <1>1, <2>3, Zenon
    <3> QED  BY <1>1, <3>1, Zenon DEF AllGot
  <2> QED  BY <1>1, <2>1, <2>2, <2>3, Zenon DEF LiveInv, OverInv
<1>2. CASE Server
  <2>1. reply = "open"
    BY <1>2, Zenon DEF Server, ReadColumns, ReadRow, ReadNotice, ReadReturnValue, ReadFails,
       ReadDone, Reading, CtrlInv
  <2>2. UNCHANGED <<over, failed, got, skipped, app>>
    BY <1>2, Zenon DEF Server, ReadColumns, ReadRow, ReadNotice, ReadReturnValue, ReadFails,
       ReadDone, ReaderOnly, rowsVars, sqlVars
  <2> QED  BY <1>0, <1>1, <2>1, <2>2, Zenon
<1>3. CASE Reader
  <2>1. UNCHANGED <<over, failed, got, skipped, app, sent, reply>>
    BY <1>3, Zenon DEF Reader, SendToken, Enqueue, ReaderExit, BackgroundDrain,
       readVars, rowsVars, sqlVars
  <2> QED  BY <1>0, <1>1, <2>1, Zenon
<1>4. ASSUME NEW k, NEW n, Take(k, n)
      PROVE  /\ UNCHANGED <<over, failed, got, skipped>> /\ app' \in Closed
             /\ app' \in {"loop", "close"} => app \in {"loop", "close"}
  <2>1. CloseToken(k)
    BY <1>0, <1>4, Zenon DEF Take, Columns, NextToken, NextResultSetToken
  <2> QED  BY <1>0, <2>1, Zenon DEF CloseToken, rowsVars, sqlVars
<1>5. CASE TakeToken
  <2>1. /\ UNCHANGED <<over, failed, got, skipped>> /\ app' \in Closed
        /\ app' \in {"loop", "close"} => app \in {"loop", "close"}
    BY <1>4, <1>5, Zenon DEF TakeToken
  <2>2. UNCHANGED <<sent, reply>>
    BY <1>5, Zenon DEF TakeToken, readVars
  <2> QED  BY <1>1, <2>1, <2>2, Zenon
<1>6. CASE Attention
  <2>1. /\ UNCHANGED <<over, failed, got, skipped>> /\ app' \in Closed
        /\ app' \in {"loop", "close"} => app \in {"loop", "close"}
    BY <1>4, <1>6, Zenon DEF Attention
  <2>2. reply # "open" => UNCHANGED <<sent, reply>>
    BY <1>6, Zenon DEF Attention, readVars
  <2> QED  BY <1>1, <2>1, <2>2, Zenon
<1>7. CASE HandleNext \/ HandleNotice \/ HandleNextResultSet
  <2>1. UNCHANGED <<over, sent, reply, got, skipped, failed>>
    BY <1>7, Zenon DEF HandleNext, HandleNotice, HandleNextResultSet, Calls, readVars,
       rowsVars, sqlVars
  <2>2. app' \in Closed /\ (app' \in {"loop", "close"} => app \in {"loop", "close"})
    BY <1>0, <1>7, Zenon DEF HandleNext, HandleNotice, HandleNextResultSet
  <2> QED  BY <1>1, <2>1, <2>2, Zenon
<1>8. ~AfterRow /\ ~SqlCloses
  BY <1>0, Zenon DEF AfterRow, SqlCloses
<1>9. CASE Cancel
  BY <1>9, Zenon DEF Cancel, LiveInv, OverInv, Live
<1>10. CASE UNCHANGED vars
  <2>1. UNCHANGED <<over, failed, got, skipped, app, sent, reply>>
    BY <1>10, Zenon DEF vars, readVars, rowsVars, sqlVars
  <2> QED  BY <1>0, <1>1, <2>1, Zenon
<1> QED  BY <1>2, <1>3, <1>5, <1>6, <1>7, <1>8, <1>9, <1>10, Zenon DEF Next, Application

\* While the Rows are open, every step leaves tokens and messages in step, or
\* closes the Rows at the end of the reply, or follows the end of the context.
LEMMA OpenStep ==
    ASSUME Typed, CtrlInv, ReplyInv, TodoInv, LiveInv, Live, [Next]_vars
    PROVE  LiveInv' /\ OverInv'
<1>0. /\ ~ctx /\ ~drainer /\ good /\ app \notin {"close", "finish", "ended"}
      /\ ~appCtx /\ ~over
      /\ reply = "whole" => sent # <<>> /\ sent[Len(sent)] = "last"
      /\ reply \in {"broken", "cut"} => \E f \in Failures : Has(todo, f) \/ Has(chan, f)
  BY Zenon DEF LiveInv, Live
<1>1. PICK p \in 0..Len(sent), q \in 0..Len(sent) : Sync(p, q)
  BY Zenon DEF LiveInv
<1>2. FlagType /\ ReadType /\ drainer \in BOOLEAN
  BY Zenon DEF Typed, ChanType
<1>3. ASSUME UNCHANGED <<ctx, drainer, good, over, sent, reply>>,
             app' \notin {"close", "finish", "ended"},
             \A f \in Failures : Has(todo, f) \/ Has(chan, f) => Has(todo', f) \/ Has(chan', f),
             \E x, y \in 0..Len(sent) : Sync(x, y)'
      PROVE  LiveInv' /\ OverInv'
  BY <1>0, <1>3, Zenon DEF LiveInv, OverInv
<1>4. ASSUME over', app' \in {"close", "finish"}, app' = "close" => reply' # "open",
             ~failed' => reply' = "whole" /\ (~skipped' => AllGot(Len(sent))')
      PROVE  LiveInv' /\ OverInv'
  BY <1>4, Zenon DEF LiveInv, OverInv, Live
<1>5. CASE Server
  <2>1. UNCHANGED <<ctx, drainer, good, over, app>>
    BY <1>5, Zenon DEF Server, ReadColumns, ReadRow, ReadNotice, ReadReturnValue, ReadFails, ReadDone, ReaderOnly,
       chanVars, ctxVars, rowsVars, sqlVars
  <2>2. Sync(p, q)' /\ p \in 0..Len(sent') /\ q \in 0..Len(sent')
    BY <1>1, <1>5, ServerSync, Zenon
  <2>3. reply' \in {"broken", "cut"} => \E f \in Failures : Has(todo', f)
    BY <1>2, <1>5, ReadHas, Zenon
  <2>4. reply' = "whole" => sent' # <<>> /\ sent'[Len(sent')] = "last"
    <3>0. reply = "open"
      BY <1>2, <1>5, ReadReply, Zenon
    <3>1. ASSUME NEW last \in BOOLEAN, NEW count \in BOOLEAN, ReadDone(last, count),
                 reply' = "whole"
          PROVE  sent' # <<>> /\ sent'[Len(sent')] = "last"
      <4>1. sent' = Append(sent, "last")
        BY <3>0, <3>1, Zenon DEF ReadDone, EndKind
      <4>2. sent \in Seq(Kinds) /\ "last" \in Kinds
        BY <1>2, Zenon DEF ReadType, Kinds
      <4> QED  BY <4>1, <4>2, AppendProperties
    <3> QED  BY <1>5, <3>0, <3>1, Zenon DEF Server, ReadColumns, ReadRow, ReadNotice, ReadReturnValue, ReadFails
  <2> QED  BY <1>0, <2>1, <2>2, <2>3, <2>4, Zenon DEF LiveInv, OverInv
<1>6. CASE SendToken
  <2>1. Sync(p, q)'
    BY <1>1, <1>6, SendSync, Zenon
  <2>2. UNCHANGED <<ctx, drainer, good, over, sent, reply, app>>
    BY <1>6, Zenon DEF SendToken, ctxVars, rowsVars, sqlVars
  <2>3. /\ \A k : Has(chan', k) <=> Has(chan, k) \/ Head(todo).kind = k
        /\ \A k : Has(todo, k) <=> Has(todo', k) \/ Head(todo).kind = k
    <3>1. /\ chan \in Seq(ChanItems) /\ todo \in Seq(ChanItems \cup QueueItems)
          /\ Head(todo) \in ChanItems
      BY <1>6, FirstTodo, Zenon DEF SendToken, Typed, ChanType, ReadType
    <3> QED  BY <1>6, <3>1, HasFacts, Zenon DEF SendToken
  <2> QED  BY <1>0, <1>3, <2>1, <2>2, <2>3, Zenon
<1>7. CASE Enqueue
  <2>1. Sync(p, q)'
    BY <1>0, <1>1, <1>7, EnqueueSync, Zenon
  <2>2. UNCHANGED <<ctx, drainer, good, over, sent, reply, app, chan>>
    BY <1>7, Zenon DEF Enqueue, chanVars, ctxVars, rowsVars, sqlVars
  <2>3. \A f \in Failures : Has(todo, f) => Has(todo', f)
    <3>1. /\ todo \in Seq(ChanItems \cup QueueItems)
          /\ Head(todo).kind \in {"next", "nextset", "notice"}
      BY <1>7, FirstTodo, ItemFacts, Zenon DEF Enqueue, Typed, ReadType
    <3>2. \A k : Has(todo, k) <=> Has(todo', k) \/ Head(todo).kind = k
      BY <1>7, <3>1, HasFacts, Zenon DEF Enqueue
    <3> QED  BY <3>1, <3>2, Zenon DEF Failures
  <2> QED  BY <1>0, <1>3, <2>1, <2>2, <2>3, Zenon
<1>8. CASE TakeToken
  <2>1. UNCHANGED <<drainer, sent, reply, todo>>
    BY <1>8, Zenon DEF TakeToken, readVars
  <2>2. CASE /\ \E x, y \in 0..Len(sent) : Sync(x, y)'
             /\ UNCHANGED <<over, ctx, good>> /\ app' \notin {"close", "finish", "ended"}
             /\ \A f \in Failures : Has(chan, f) => Has(chan', f)
    BY <1>3, <2>1, <2>2, Zenon
  <2>3. CASE /\ over' /\ app' \in {"close", "finish"} /\ (app' = "close" => reply # "open")
             /\ ~failed' => reply = "whole" /\ (~skipped' => AllGot(Len(sent))')
    BY <1>4, <2>1, <2>3, Zenon
  <2> QED  BY <1>8, <2>2, <2>3, TakeSync, Zenon
<1>9. ASSUME UNCHANGED <<readVars, chan, drainer, good>>
      PROVE  /\ UNCHANGED <<drainer, good, sent, reply, todo, chan>>
             /\ \A f \in Failures : Has(todo, f) \/ Has(chan, f) => Has(todo', f) \/ Has(chan', f)
  BY <1>9, Zenon DEF readVars
<1>10. CASE HandleNext
  <2>1. /\ \E r \in 0..Len(sent) : Sync(p, r)'
        /\ app' \in {"next", "columns"} /\ UNCHANGED <<over, ctx>>
    BY <1>0, <1>1, <1>10, HandleNextSync, Zenon
  <2>2. UNCHANGED <<readVars, chan, drainer, good>>
    BY <1>10, Zenon DEF HandleNext, Calls, chanVars, rowsVars
  <2> QED  BY <1>1, <1>3, <1>9, <2>1, <2>2, Zenon
<1>11. CASE HandleNotice
  <2>1. /\ UNCHANGED <<readVars, chan, drainer, good, ctx, over, app>>
        /\ UNCHANGED <<cols, cur, got, lastcols, inResultSet, requestDone, skipped>>
        /\ queue # <<>> /\ queue' = Tail(queue) /\ Head(queue).kind = "notice"
    BY <1>11, Zenon DEF HandleNotice, Calls, chanVars, rowsVars, sqlVars
  <2>2. QueueInv(q)'
    <3>1. QueueInv(q)
      BY <1>1, Zenon DEF Sync
    <3> QED  BY <2>1, <3>1, MessageTaken, Zenon
  <2>3. ChanInv(p)'
    BY <1>1, <2>1, ChanKept, Zenon DEF Sync
  <2>4. UNCHANGED <<sent, reply>>
    BY <2>1, Zenon DEF readVars
  <2>5. StepInv(p, q)'
    BY <1>1, <2>1, <2>4, Zenon DEF Sync, StepInv, OnlyRows, OnlyScans, Ends
  <2>6. Sync(p, q)'
    BY <1>1, <2>1, <2>2, <2>3, <2>4, <2>5, Zenon DEF Sync, AllGot
  <2> QED  BY <1>0, <1>1, <1>3, <1>9, <2>1, <2>6, Zenon
<1>12. CASE HandleNextResultSet
  <2>1. UNCHANGED <<readVars, chan, drainer, good, requestDone, got, skipped>>
    BY <1>12, Zenon DEF HandleNextResultSet, Calls, chanVars, rowsVars
  <2>2. CASE ~requestDone
    <3>1. /\ \E r \in 0..Len(sent) : Sync(p, r)'
          /\ app' = "nextset" /\ UNCHANGED <<over, ctx>>
      BY <1>1, <1>12, <2>2, HandleSetSync, Zenon
    <3> QED  BY <1>1, <1>3, <1>9, <2>1, <3>1, Zenon
  <2>3. CASE requestDone
    <3>1. over' /\ app' = "finish"
      BY <1>0, <1>12, <2>3, Zenon DEF HandleNextResultSet, EnterClose
    <3>2. p = Len(sent) /\ p # 0 /\ sent[p] = "last" /\ (~skipped => AllGot(p))
      BY <1>1, <2>3, Zenon DEF Sync
    <3>3. reply = "whole" /\ UNCHANGED <<sent, reply>>
      <4>1. p \in 1..Len(sent)
        BY <1>2, <3>2 DEF ReadType
      <4> QED  BY <2>1, <3>2, <4>1, Zenon DEF ReplyInv, readVars
    <3>4. ~skipped' => AllGot(Len(sent))'
      BY <2>1, <3>2, <3>3, Zenon DEF AllGot
    <3> QED  BY <1>4, <3>1, <3>3, <3>4, Zenon
  <2> QED  BY <2>2, <2>3, Zenon
<1>13. CASE AfterRow
  <2>1. UNCHANGED <<readVars, chan, drainer, good, queue, inResultSet, cols, requestDone, cur, got>>
        /\ app = "rows"
    BY <1>13, Zenon DEF AfterRow, Calls, chanVars, rowsVars
  <2>2. UNCHANGED <<over, ctx>> /\ \/ app' = "next" /\ lastcols' = TRUE /\ UNCHANGED skipped
                                   \/ app' = "loop" /\ skipped' = TRUE /\ UNCHANGED lastcols
    BY <1>0, <1>13, Zenon DEF AfterRow, CallNext
  <2>3. UNCHANGED <<sent, reply>> /\ ChanInv(p)' /\ QueueInv(q)'
    BY <1>1, <2>1, ChanKept, QueueKept, Zenon DEF Sync, readVars
  <2>4. StepInv(p, q)'
    <3>1. /\ lastcols /\ inResultSet /\ q = cols /\ q = cur /\ q # 0 /\ q <= p
          /\ sent[q] = "cols" /\ OnlyRows(q+1, p)
      BY <1>1, <2>1, Zenon DEF Sync, StepInv
    <3>2. /\ q = cols' /\ q = cur' /\ q # 0 /\ q <= p
          /\ sent'[q] = "cols" /\ OnlyRows(q+1, p)'
      BY <2>1, <2>3, <3>1, Zenon DEF OnlyRows
    <3>3. lastcols' /\ inResultSet'
      BY <2>1, <2>2, <3>1, Zenon
    <3>4. app' = "next" \/ (app' = "loop" /\ skipped')
      BY <2>2, Zenon
    <3> QED  BY <3>2, <3>3, <3>4, Zenon DEF StepInv
  <2>5. ~skipped' => AllGot(p)'
    <3>1. ~skipped' => ~skipped
      BY <2>2, Zenon
    <3> QED  BY <1>1, <2>1, <2>3, <3>1 DEF Sync, AllGot
  <2>6. Sync(p, q)'
    BY <1>1, <2>1, <2>3, <2>4, <2>5, Zenon DEF Sync
  <2> QED  BY <1>1, <1>3, <1>9, <2>1, <2>2, <2>6, Zenon
<1>14. ~BackgroundDrain /\ ~Attention /\ ~SqlCloses
  BY <1>0, Zenon DEF BackgroundDrain, Attention, SqlCloses
<1>15. CASE Cancel
  BY <1>15, Zenon DEF Cancel, LiveInv, OverInv, Live
<1>16. CASE ReaderExit \/ UNCHANGED vars
  <2>1. /\ UNCHANGED <<chan, drainer, good, ctx, over, app, queue, sent, reply, todo>>
        /\ UNCHANGED <<cols, cur, got, lastcols, inResultSet, requestDone, skipped>>
    BY <1>16, Zenon DEF ReaderExit, vars, readVars, chanVars, ctxVars, rowsVars, sqlVars
  <2>2. ChanInv(p)' /\ QueueInv(q)'
    <3>1. /\ UNCHANGED <<Told, Put, Finished>> /\ (MsgDue' <=> MsgDue) /\ (Sending' <=> Sending)
          /\ (\A n : MsgOf(n)' = MsgOf(n)) /\ Notice' = Notice /\ Stop' = Stop
      BY <2>1, Zenon DEF Told, Put, MsgDue, TokenDue, Sending, Finished, MsgOf, Notice, Stop, Msg
    <3> QED  BY <1>1, <2>1, <3>1, Zenon DEF Sync, ChanInv, QueueInv
  <2>3. StepInv(p, q)'
    BY <1>1, <2>1, Zenon DEF Sync, StepInv, OnlyRows, OnlyScans, Ends
  <2>4. Sync(p, q)'
    BY <1>1, <2>1, <2>2, <2>3, Zenon DEF Sync, AllGot
  <2> QED  BY <1>0, <1>1, <1>3, <2>1, <2>4, Zenon
<1> QED  BY <1>5, <1>6, <1>7, <1>8, <1>10, <1>11, <1>12, <1>13, <1>14, <1>15, <1>16, Zenon
         DEF Next, Reader, Application

-----------------------------------------------------------------------------
(* What the application sees.                                               *)

\* The inductive invariant.
QueryInv ==
    Typed /\ CtrlInv /\ ReplyInv /\ TodoInv /\ LiveInv /\ OverInv

\* It holds for ever.
LEMMA QueryInvariant == Spec => []QueryInv
<1>1. Init => QueryInv
  <2> SUFFICES ASSUME Init  PROVE QueryInv
    BY Zenon
  <2>1. Typed /\ Len(sent) = 0 /\ Len(todo) = 0 /\ Len(chan) = 0 /\ Len(queue) = 0 /\ Len(got) = 0
    BY InitTyped, Zenon DEF Init
  <2>2. CtrlInv /\ ReplyInv
    BY <2>1 DEF Init, CtrlInv, ReplyInv
  <2>3. ~TokenDue /\ ~MsgDue /\ Put = 0 /\ Told = 0
    <3>1. 1..Len(todo) = {}
      BY <2>1
    <3>2. ~TokenDue /\ ~MsgDue
      BY <3>1, Zenon DEF TokenDue, MsgDue
    <3> QED  BY <2>1, <3>2, Zenon DEF Put, Told
  <2>4. TodoInv
    BY <2>1, <2>3 DEF TodoInv
  <2>5. ChanInv(0) /\ QueueInv(0)
    BY <2>1, <2>3 DEF ChanInv, QueueInv
  <2>6. StepInv(0, 0)
    BY DEF Init, StepInv, Ends, OnlyRows
  <2>7. AllGot(0)
    BY <2>1 DEF AllGot
  <2>8. Sync(0, 0)
    BY <2>5, <2>6, <2>7, Zenon DEF Init, Sync
  <2>9. LiveInv /\ OverInv
    BY <2>1, <2>8 DEF Init, LiveInv, OverInv
  <2> QED  BY <2>1, <2>2, <2>4, <2>9, Zenon DEF QueryInv
<1>2. QueryInv /\ [Next]_vars => QueryInv'
  <2> SUFFICES ASSUME QueryInv, [Next]_vars  PROVE QueryInv'
    BY Zenon
  <2>1. Typed' /\ CtrlInv' /\ ReplyInv' /\ TodoInv'
    BY TypeStep, CtrlStep, ReplyStep, Zenon DEF QueryInv
  <2>2. CASE appCtx
    BY <2>1, <2>2, CtxStays, Zenon DEF QueryInv, LiveInv, OverInv, Live
  <2>3. CASE over /\ ~appCtx
    BY <2>1, <2>3, OverStep, Zenon DEF QueryInv
  <2>4. CASE ~over /\ ~appCtx
    BY <2>1, <2>4, OpenStep, Zenon DEF QueryInv, Live
  <2> QED  BY <2>2, <2>3, <2>4, Zenon
<1> QED  BY <1>1, <1>2, PTL DEF Spec

\* The rows that Next returns follow the columns that the last MsgNext
\* announced, with only rows between: the order in which the reader fills the
\* two queues keeps them in step, whatever their capacities, as long as the
\* context is live.
THEOREM RowsFollowTheirMessage == Spec => []RowsOfMessage
<1>1. QueryInv => RowsOfMessage
  <2> SUFFICES ASSUME QueryInv, app = "rows", ~appCtx  PROVE RowsOfMessage
    BY Zenon DEF RowsOfMessage
  <2>1. Live
    BY Zenon DEF QueryInv, OverInv, Live
  <2>2. PICK p \in 0..Len(sent), q \in 0..Len(sent) : Sync(p, q)
    BY <2>1, Zenon DEF QueryInv, LiveInv
  <2>3. q = cur /\ sent[q] = "cols" /\ OnlyRows(q+1, p) /\ got[Len(got)] = p /\ p > q
    BY <2>2, Zenon DEF Sync, StepInv
  <2> QED  BY <2>3, Zenon DEF RowsOfMessage, OnlyRows
<1> QED  BY <1>1, QueryInvariant, PTL

\* Columns, which would loop on an error, is only called when the columns are
\* in the channel.
THEOREM ColumnsFindColumns == Spec => []ColumnsAreThere
<1>1. QueryInv => ColumnsAreThere
  <2> SUFFICES ASSUME QueryInv, app = "columns", ~appCtx
               PROVE  \E i \in 1..Len(chan) : chan[i].kind = "cols"
    BY Zenon DEF ColumnsAreThere
  <2>1. Live
    BY Zenon DEF QueryInv, OverInv, Live
  <2>2. PICK p \in 0..Len(sent), q \in 0..Len(sent) : Sync(p, q)
    BY <2>1, Zenon DEF QueryInv, LiveInv
  <2>3. p < q /\ sent[q] = "cols" /\ q <= Put /\ Put <= p + Len(chan)
    BY <2>2, Zenon DEF Sync, StepInv, QueueInv, ChanInv
  <2>4. Put \in Int /\ Len(chan) \in Nat
    BY SentFacts, LenProperties, Zenon DEF QueryInv, Typed, ChanType
  <2>5. q - p \in 1..Len(chan) /\ p + (q - p) = q
    BY <2>3, <2>4
  <2>6. chan[q - p] = Tok(sent[q], q)
    BY <2>2, <2>3, <2>5, Zenon DEF Sync, ChanInv
  <2>7. chan[q - p].kind = "cols"
    BY <2>3, <2>6, MessageFacts
  <2> QED  BY <2>5, <2>7, Zenon
<1> QED  BY <1>1, QueryInvariant, PTL

\* An application whose loop ended by itself, and to which Next and
\* NextResultSet returned no error, has had the whole reply, and, if it left no
\* result set, every row the server sent, once and in order.
THEOREM EveryRowIsSeen == Spec => []AllRowsSeen
<1>1. QueryInv => AllRowsSeen
  <2> SUFFICES ASSUME QueryInv, app = "ended", ~appCtx, ~failed
               PROVE  AllRowsSeen
    BY Zenon DEF AllRowsSeen
  <2>1. over
    BY Zenon DEF QueryInv, LiveInv, Live
  <2>2. reply = "whole" /\ (~skipped => AllGot(Len(sent)))
    BY <2>1, Zenon DEF QueryInv, OverInv
  <2> QED  BY <2>2, Zenon DEF AllRowsSeen, AllGot
<1> QED  BY <1>1, QueryInvariant, PTL

-----------------------------------------------------------------------------
(* The two goroutines do not wait for each other.                           *)

\* The application waits for a message, or in nextToken for a token.
AppWaits ==
    /\ ~appCtx
    /\ \/ app = "loop" /\ queue = <<>>
       \/ app \in {"columns", "next", "nextset"} /\ chan = <<>> /\ ~closed /\ ~ctx

\* The reader waits for room in one of the queues, or has exited.
ReaderWaits ==
    \/ todo # <<>> /\ Head(todo).to = "chan" /\ Len(chan) = Cap
    \/ todo # <<>> /\ Head(todo).to = "queue" /\ Len(queue) = QueueCap /\ ~ctx
    \/ rd = "none"

\* When both wait, it is in one of the situations that LoopEnds names.
OnlyNamedWaits ==
    AppWaits /\ ReaderWaits => QueueFull \/ RowsLeft \/ ErrorsLeft \/ Silent

Items(s) == {s[i] : i \in 1..Len(s)}

\* With a failure the reader sends nothing about a token.
FailInv == (\E x \in Items(todo) : x.kind \in Failures) => \A y \in Items(todo) : y.n = 0

Last == sent # <<>> /\ sent[Len(sent)] = "last"

\* The last token is on its way until it is taken, and the message after it
\* until the Rows are closed.
EndInv ==
    Live /\ Last =>
        /\ requestDone \/ \E x \in Items(chan) \cup Items(todo) : x.kind = "last"
        /\ Stop \in Items(queue) \cup Items(todo)

\* Rows that database/sql closed while the loop goes on had the reader's
\* failure, after which no token comes.
CloseInv ==
    over /\ ~appCtx /\ app \in {"close", "loop"} =>
        ~Sending /\ reply \in {"broken", "cut"}

\* The items of a sequence with one more at its end.
LEMMA ItemsAppended ==
    ASSUME NEW S, NEW s \in Seq(S), NEW x \in S
    PROVE  Items(Append(s, x)) = Items(s) \cup {x}
<1>1. /\ Len(s) \in Nat /\ Len(Append(s, x)) = Len(s) + 1
      /\ \A i \in 1..Len(s) : Append(s, x)[i] = s[i]
      /\ Append(s, x)[Len(s) + 1] = x
  BY AppendProperties, LenProperties
<1>2. \A i \in 1..Len(s)+1 : i \in 1..Len(s) \/ i = Len(s) + 1
  BY <1>1
<1>3. 1..Len(s) \subseteq 1..Len(s)+1 /\ Len(s) + 1 \in 1..Len(s)+1
  BY <1>1
<1> QED  BY <1>1, <1>2, <1>3, Zenon DEF Items

\* The first item of a sequence and the others.
LEMMA ItemsTail ==
    ASSUME NEW S, NEW s \in Seq(S), s # <<>>
    PROVE  Items(s) = {Head(s)} \cup Items(Tail(s))
<1>1. /\ Head(s) = s[1] /\ Len(s) \in Nat \ {0} /\ Len(Tail(s)) = Len(s) - 1
      /\ \A i \in 1..Len(s)-1 : Tail(s)[i] = s[i+1]
  BY TailFacts, Zenon
<1>2. \A i \in 1..Len(s) : i = 1 \/ (i - 1 \in 1..Len(s)-1 /\ (i - 1) + 1 = i)
  BY <1>1
<1>3. 1 \in 1..Len(s) /\ \A i \in 1..Len(s)-1 : i + 1 \in 1..Len(s)
  BY <1>1
<1>4. ASSUME NEW x \in Items(s)  PROVE x \in {Head(s)} \cup Items(Tail(s))
  <2>1. PICK i \in 1..Len(s) : x = s[i]
    BY Zenon DEF Items
  <2>2. CASE i = 1
    BY <1>1, <2>1, <2>2, Zenon
  <2>3. CASE i - 1 \in 1..Len(s)-1 /\ (i - 1) + 1 = i
    <3>1. Tail(s)[i-1] = x
      BY <1>1, <2>1, <2>3, Zenon
    <3> QED  BY <1>1, <2>3, <3>1, Zenon DEF Items
  <2> QED  BY <1>2, <2>2, <2>3, Zenon
<1>5. Head(s) \in Items(s)
  BY <1>1, <1>3, Zenon DEF Items
<1>6. ASSUME NEW x \in Items(Tail(s))  PROVE x \in Items(s)
  <2>1. PICK i \in 1..Len(s)-1 : x = Tail(s)[i]
    BY <1>1, Zenon DEF Items
  <2>2. x = s[i+1] /\ i + 1 \in 1..Len(s)
    BY <1>1, <1>3, <2>1, Zenon
  <2> QED  BY <2>2, Zenon DEF Items
<1> QED  BY <1>4, <1>5, <1>6, Zenon

\* The empty sequence has no items.
LEMMA NoItems == Items(<<>>) = {}
BY DEF Items

\* The items of a short sequence.
LEMMA ItemsOfOne == ASSUME NEW a  PROVE Items(<<a>>) = {a}
BY DEF Items

LEMMA ItemsOfTwo == ASSUME NEW a, NEW b  PROVE Items(<<a, b>>) = {a, b}
BY DEF Items

LEMMA ItemsOfThree ==
    ASSUME NEW a, NEW b, NEW c  PROVE Items(<<a, b, c>>) = {a, b, c}
BY DEF Items

LEMMA ItemsOfFour ==
    ASSUME NEW a, NEW b, NEW c, NEW d  PROVE Items(<<a, b, c, d>>) = {a, b, c, d}
BY DEF Items

\* The variables whose values are sequences: their items after a step.
LEMMA ItemsTyped ==
    ASSUME Typed
    PROVE  /\ todo # <<>> => Items(todo) = {Head(todo)} \cup Items(Tail(todo))
           /\ chan # <<>> => Items(chan) = {Head(chan)} \cup Items(Tail(chan))
           /\ queue # <<>> => Items(queue) = {Head(queue)} \cup Items(Tail(queue))
           /\ \A x \in ChanItems : Items(Append(chan, x)) = Items(chan) \cup {x}
           /\ \A x \in QueueItems : Items(Append(queue, x)) = Items(queue) \cup {x}
<1>1. /\ chan \in Seq(ChanItems) /\ queue \in Seq(QueueItems)
      /\ todo \in Seq(ChanItems \cup QueueItems)
  BY Zenon DEF Typed, ReadType, ChanType, QueueType
<1>2. todo # <<>> => Items(todo) = {Head(todo)} \cup Items(Tail(todo))
  BY <1>1, ItemsTail, Zenon
<1>3. chan # <<>> => Items(chan) = {Head(chan)} \cup Items(Tail(chan))
  BY <1>1, ItemsTail, Zenon
<1>4. queue # <<>> => Items(queue) = {Head(queue)} \cup Items(Tail(queue))
  BY <1>1, ItemsTail, Zenon
<1>5. \A x \in ChanItems : Items(Append(chan, x)) = Items(chan) \cup {x}
  BY <1>1, ItemsAppended, Zenon
<1>6. \A x \in QueueItems : Items(Append(queue, x)) = Items(queue) \cup {x}
  BY <1>1, ItemsAppended, Zenon
<1> QED  BY <1>2, <1>3, <1>4, <1>5, <1>6, Zenon

\* What the reader has to send for what it has read.
LEMMA ServerItems ==
    ASSUME ReadType, CtrlInv, ReplyInv, Server
    PROVE  /\ FailInv'
           /\ Last' => Stop \in Items(todo') /\ \E x \in Items(todo') : x.kind = "last"
<1>0. reply = "open" /\ ~Last
  <2>1. reply = "open"
    BY Zenon DEF Server, ReadColumns, ReadRow, ReadNotice, ReadReturnValue, ReadFails, ReadDone, Reading, CtrlInv
  <2> QED  BY <2>1 DEF Last, ReplyInv, ReadType
<1>1. /\ \A k, n : Tok(k, n).kind = k /\ Tok(k, n).n = n
      /\ \A k, n : Msg(k, n).kind = k /\ Msg(k, n).n = n
      /\ Notice = Msg("notice", 0) /\ Stop = Msg("nextset", 0)
  BY Zenon DEF Tok, Msg, Notice, Stop
<1>2. CASE ReadColumns \/ ReadRow \/ ReadNotice \/ ReadReturnValue
  <2>1. \/ todo' = <<Tok("cols", Number), Msg("next", Number)>>
        \/ todo' = <<Tok("row", Number)>> \/ todo' = <<Msg("notice", 0)>>
        \/ todo' = <<Tok("scan", Number)>>
    BY <1>2, Zenon DEF ReadColumns, ReadRow, ReadNotice, ReadReturnValue
  <2>2. \/ Items(todo') = {Tok("cols", Number), Msg("next", Number)}
        \/ Items(todo') = {Tok("row", Number)} \/ Items(todo') = {Msg("notice", 0)}
        \/ Items(todo') = {Tok("scan", Number)}
    <3>1. Items(<<Tok("cols", Number), Msg("next", Number)>>) = {Tok("cols", Number), Msg("next", Number)}
      BY ItemsOfTwo, Zenon
    <3>2. /\ Items(<<Tok("row", Number)>>) = {Tok("row", Number)}
          /\ Items(<<Tok("scan", Number)>>) = {Tok("scan", Number)}
      BY ItemsOfOne, Zenon
    <3>3. Items(<<Msg("notice", 0)>>) = {Msg("notice", 0)}
      BY ItemsOfOne, Zenon
    <3> QED  BY <2>1, <3>1, <3>2, <3>3
  <2>3. \A x \in Items(todo') : x.kind \notin Failures
    <3>1. \A x \in Items(todo') : x.kind \in {"cols", "next", "row", "notice", "scan"}
      BY <1>1, <2>2
    <3> QED  BY <3>1 DEF Failures
  <2>4. ~Last'
    <3>1. sent' \in {sent, Append(sent, "cols"), Append(sent, "row"), Append(sent, "scan")}
      BY <1>2, Zenon DEF ReadColumns, ReadRow, ReadNotice, ReadReturnValue
    <3>2. sent \in Seq(Kinds) /\ "cols" \in Kinds /\ "row" \in Kinds /\ "scan" \in Kinds
      BY Zenon DEF ReadType, Kinds
    <3>3. /\ Append(sent, "cols")[Len(Append(sent, "cols"))] = "cols"
          /\ Append(sent, "row")[Len(Append(sent, "row"))] = "row"
          /\ Append(sent, "scan")[Len(Append(sent, "scan"))] = "scan"
      BY <3>2, AppendProperties
    <3> QED  BY <1>0, <3>1, <3>3 DEF Last
  <2> QED  BY <2>3, <2>4, Zenon DEF FailInv, Items
<1>3. CASE ReadFails
  <2>1. \/ todo' = <<Tok("broken", 0)>> \/ todo' = <<Tok("plain", 0)>>
        \/ todo' = <<Notice, Tok("broken", 0)>> \/ todo' = <<Tok("broken", 0), Stop>>
        \/ todo' = <<Notice, Tok("plain", 0)>>
    BY <1>3, Zenon DEF ReadFails, Notice, Stop
  <2>2. \/ Items(todo') = {Tok("broken", 0)} \/ Items(todo') = {Tok("plain", 0)}
        \/ Items(todo') = {Notice, Tok("broken", 0)}
        \/ Items(todo') = {Tok("broken", 0), Stop}
        \/ Items(todo') = {Notice, Tok("plain", 0)}
    <3>1. /\ Items(<<Tok("broken", 0)>>) = {Tok("broken", 0)}
          /\ Items(<<Tok("plain", 0)>>) = {Tok("plain", 0)}
      BY ItemsOfOne, Zenon
    <3>2. /\ Items(<<Notice, Tok("broken", 0)>>) = {Notice, Tok("broken", 0)}
          /\ Items(<<Tok("broken", 0), Stop>>) = {Tok("broken", 0), Stop}
          /\ Items(<<Notice, Tok("plain", 0)>>) = {Notice, Tok("plain", 0)}
      BY ItemsOfTwo, Zenon
    <3> QED  BY <2>1, <3>1, <3>2
  <2>3. \A x \in Items(todo') : x.n = 0
    BY <2>2, MessageFacts
  <2>4. ~Last'
    BY <1>0, <1>3, Zenon DEF ReadFails, Last
  <2> QED  BY <2>3, <2>4, Zenon DEF FailInv, Items
<1>4. ASSUME NEW last \in BOOLEAN, NEW count \in BOOLEAN, ReadDone(last, count)
      PROVE  /\ FailInv'
             /\ Last' => Stop \in Items(todo') /\ \E x \in Items(todo') : x.kind = "last"
  <2> DEFINE t == Tok(EndKind(last), Number)
             m == Msg("nextset", Number)
  <2>1. /\ todo' \in {<<t, m, Stop>>, <<Notice, t, m, Stop>>, <<t, m>>, <<Notice, t, m>>}
        /\ last => todo' \in {<<t, m, Stop>>, <<Notice, t, m, Stop>>}
    BY <1>4, ReadDoneTodo, Zenon DEF DoneTodo
  <2>2. t.kind = EndKind(last) /\ m.kind = "nextset"
    BY <1>1, Zenon
  <2>3. EndKind(last) \in {"done", "last"} /\ (last <=> EndKind(last) = "last")
    BY Zenon DEF EndKind
  <2> HIDE DEF t, m
  <2>4. /\ Items(todo') \subseteq {Notice, t, m, Stop}
        /\ last => t \in Items(todo') /\ Stop \in Items(todo')
    <3>1. Items(<<t, m>>) = {t, m}
      BY ItemsOfTwo, Zenon
    <3>2. Items(<<t, m, Stop>>) = {t, m, Stop} /\ Items(<<Notice, t, m>>) = {Notice, t, m}
      BY ItemsOfThree, Zenon
    <3>3. Items(<<Notice, t, m, Stop>>) = {Notice, t, m, Stop}
      BY ItemsOfFour, Zenon
    <3> QED  BY <2>1, <3>1, <3>2, <3>3, Zenon
  <2>5. \A x \in Items(todo') : x.kind \notin Failures
    <3>1. \A x \in Items(todo') : x.kind \in {"done", "last", "notice", "nextset"}
      <4>1. /\ Notice.kind = "notice" /\ Stop.kind = "nextset"
            /\ t.kind \in {"done", "last"} /\ m.kind = "nextset"
        BY <2>2, <2>3, MessageFacts
      <4> QED  BY <2>4, <4>1, Zenon
    <3> QED  BY <3>1 DEF Failures
  <2>6. Last' => last
    <3>1. sent' = Append(sent, EndKind(last))
      BY <1>4, Zenon DEF ReadDone
    <3>2. sent \in Seq(Kinds) /\ EndKind(last) \in Kinds
      BY <2>3, Zenon DEF ReadType, Kinds
    <3>3. sent'[Len(sent')] = EndKind(last)
      BY <3>1, <3>2, AppendProperties
    <3> QED  BY <2>3, <3>3, Zenon DEF Last
  <2> QED  BY <2>2, <2>3, <2>4, <2>5, <2>6, Zenon DEF FailInv, Items
<1> QED  BY <1>2, <1>3, <1>4, Zenon DEF Server

\* No step adds something about a token to a failure that is to be sent.
LEMMA FailStep ==
    ASSUME Typed, CtrlInv, ReplyInv, FailInv, [Next]_vars  PROVE FailInv'
<1>0. ReadType
  BY Zenon DEF Typed
<1>1. CASE Server
  BY <1>0, <1>1, ServerItems, Zenon
<1>2. CASE todo # <<>> /\ todo' = Tail(todo)
  <2>1. Items(todo') \subseteq Items(todo)
    BY <1>2, ItemsTyped, Zenon
  <2> QED  BY <2>1, Zenon DEF FailInv
<1>3. CASE todo' = <<>>
  BY <1>3, NoItems, Zenon DEF FailInv
<1>4. CASE UNCHANGED todo
  BY <1>4, Zenon DEF FailInv, Items
<1>5. CASE Reader
  BY <1>2, <1>4, <1>5, Zenon DEF Reader, SendToken, Enqueue, ReaderExit, BackgroundDrain, readVars
<1>6. CASE Application
  BY <1>3, <1>4, <1>6, Zenon DEF Application, TakeToken, Attention, HandleNext, HandleNotice,
     HandleNextResultSet, AfterRow, Calls, readVars
<1>7. CASE Cancel \/ SqlCloses \/ UNCHANGED vars
  BY <1>4, <1>7, Zenon DEF Cancel, SqlCloses, Calls, vars, readVars
<1> QED  BY <1>1, <1>5, <1>6, <1>7, Zenon DEF Next

\* When the message after the last token is the next one, the last token has
\* been taken.
LEMMA StopLast ==
    ASSUME QueryInv, EndInv, Live, Last, app = "loop", queue # <<>>, Head(queue) = Stop
    PROVE  requestDone
<1>0. ReadType /\ ChanType /\ QueueType /\ ReplyInv /\ TodoInv
  BY Zenon DEF QueryInv, Typed
<1>1. PICK p \in 0..Len(sent), q \in 0..Len(sent) : Sync(p, q)
  BY Zenon DEF QueryInv, LiveInv
<1>2. ChanInv(p) /\ QueueInv(q) /\ StepInv(p, q)
  BY <1>1, Zenon DEF Sync
<1>3. /\ Len(sent) \in Nat /\ Len(sent) # 0 /\ Put \in Int /\ Told \in Int
      /\ Put <= Len(sent) /\ Told <= Len(sent) /\ sent[Len(sent)] = "last"
      /\ \A i \in 1..Len(sent) : sent[i] = "last" => i = Len(sent)
  BY <1>0, SentFacts, Zenon DEF Last
<1>4. queue[1] = Stop /\ 1 \in 1..Len(queue) /\ Len(queue) \in Nat
  <2>1. Head(queue) = queue[1]
    BY <1>0, FirstMessage, Zenon
  <2>2. Len(queue) \in Nat \ {0}
    BY <1>0, LenProperties DEF QueueType
  <2> QED  BY <2>1, <2>2
<1>5. ~MsgDue
  <2>1. ASSUME NEW n \in q+1..Told, queue[1] = MsgOf(n)  PROVE FALSE
    <3>1. n \in Nat /\ n # 0
      BY <1>3, <2>1
    <3>2. MsgOf(n).n = n /\ Stop.n = 0
      BY <3>1, MessageFacts, Zenon
    <3> QED  BY <1>4, <2>1, <3>1, <3>2
  <2>2. \/ queue[1] = Notice
        \/ queue[1] = Stop /\ Finished /\ ~MsgDue
        \/ \E n \in q+1..Told : n <= Put /\ sent[n] \notin Unannounced /\ queue[1] = MsgOf(n)
    BY <1>2, <1>4, Zenon DEF QueueInv
  <2>3. queue[1] # Notice
    BY <1>4, MessageFacts
  <2> QED  BY <2>1, <2>2, <2>3, Zenon
<1>6. Told = Len(sent)
  BY <1>5, Zenon DEF Told
<1>7. q = Len(sent)
  <2> SUFFICES ASSUME q # Len(sent)  PROVE FALSE
    OBVIOUS
  <2>1. Len(sent) \in q+1..Told
    BY <1>3, <1>6
  <2>2. PICK i \in 1..Len(queue) : queue[i].n = Len(sent)
    <3>1. sent[Len(sent)] \notin Unannounced
      BY <1>3 DEF Unannounced
    <3> QED  BY <1>2, <2>1, <3>1, Zenon DEF QueueInv
  <2>3. i # 1
    BY <1>3, <1>4, <2>2, MessageFacts
  <2>4. 1 < i /\ queue[i].n # 0
    BY <1>3, <1>4, <2>2, <2>3
  <2> QED  BY <1>2, <1>4, <2>4, Zenon DEF QueueInv
<1>8. Put = Len(sent) /\ ~TokenDue
  <2>1. q <= Put
    BY <1>2, Zenon DEF QueueInv
  <2>2. Put = Len(sent)
    BY <1>3, <1>7, <2>1
  <2> QED  BY <1>3, <2>2 DEF Put
<1>9. p = Len(sent)
  <2>1. sent[q] # "cols"
    BY <1>3, <1>7
  <2>2. q <= p
    BY <1>2, <2>1, <1>3 DEF StepInv
  <2> QED  BY <1>3, <1>7, <2>2
<1>10. ASSUME NEW x \in Items(chan)  PROVE x.kind # "last"
  <2>1. PICK i \in 1..Len(chan) : x = chan[i]
    BY Zenon DEF Items
  <2>2. ~(p + i <= Put)
    BY <1>3, <1>8, <1>9, <2>1
  <2>3. x.kind \in Failures
    BY <1>2, <2>1, <2>2, Zenon DEF ChanInv
  <2> QED  BY <2>3 DEF Failures
<1>11. ASSUME NEW x \in Items(todo)  PROVE x.kind # "last"
  <2>1. PICK i \in 1..Len(todo) : x = todo[i]
    BY Zenon DEF Items
  <2>2. TodoItem(x)
    BY <1>0, <2>1, Zenon DEF TodoInv
  <2>3. CASE x.to = "chan"
    <3>1. x.n = 0
      BY <1>8, <2>1, <2>3, Zenon DEF TokenDue
    <3>2. x.kind \in Failures
      BY <1>0, <2>2, <2>3, <3>1, TodoCases, Zenon
    <3> QED  BY <3>2 DEF Failures
  <2>4. CASE x.to = "queue"
    <3>1. x \in {Notice, Stop, MsgOf(Len(sent))}
      BY <1>0, <2>2, <2>4, TodoCases, Zenon
    <3>2. x.kind \in {"notice", "nextset", "next"}
      BY <1>3, <3>1, MessageFacts
    <3> QED  BY <3>2
  <2> QED  BY <1>0, <2>2, <2>3, <2>4, TodoCases, Zenon
<1> QED  BY <1>10, <1>11, Zenon DEF EndInv

\* Rows that are closed stay so.
LEMMA OverStays == ASSUME [Next]_vars, over  PROVE over'
<1>1. CASE Server \/ Reader
  BY <1>1, Zenon DEF Server, ReadColumns, ReadRow, ReadNotice, ReadReturnValue, ReadFails, ReadDone, ReaderOnly,
     Reader, SendToken, Enqueue, ReaderExit, BackgroundDrain, sqlVars
<1>2. ASSUME NEW k, NEW n, Take(k, n)  PROVE over'
  BY <1>2, Zenon DEF Take, Columns, NextToken, NextResultSetToken, CloseToken, EnterClose, sqlVars
<1>3. CASE TakeToken \/ Attention
  BY <1>2, <1>3, Zenon DEF TakeToken, Attention
<1>4. CASE HandleNext \/ HandleNotice \/ HandleNextResultSet \/ AfterRow
  BY <1>4, Zenon DEF HandleNext, HandleNotice, HandleNextResultSet, AfterRow, CallNext,
     EnterClose, sqlVars
<1>5. CASE Cancel \/ SqlCloses \/ UNCHANGED vars
  BY <1>5, Zenon DEF Cancel, SqlCloses, EnterClose, vars, sqlVars
<1> QED  BY <1>1, <1>3, <1>4, <1>5, Zenon DEF Next, Application

\* Columns finds its columns, or errors before them, in the channel.
LEMMA ColumnsFirst ==
    ASSUME QueryInv, Live, app = "columns"
    PROVE  chan # <<>> /\ Head(chan).kind \in {"cols", "scan"}
<1>1. PICK p \in 0..Len(sent), q \in 0..Len(sent) : Sync(p, q)
  BY Zenon DEF QueryInv, LiveInv
<1>2. /\ p < q /\ sent[q] = "cols" /\ q <= Put /\ Put <= p + Len(chan)
      /\ OnlyScans(p+1, q-1)
  BY <1>1, Zenon DEF Sync, StepInv, QueueInv, ChanInv
<1>3. Put \in Int /\ Len(chan) \in Nat /\ (chan = <<>> => Len(chan) = 0) /\ ChanType
  BY SentFacts, LenProperties DEF QueryInv, Typed, ChanType
<1>4. 1 \in 1..Len(chan) /\ chan # <<>>
  BY <1>2, <1>3
<1>5. p + 1 <= Put /\ sent[p + 1] \in {"cols", "scan"}
  BY <1>2, <1>3 DEF OnlyScans
<1>a. chan[1] = Tok(sent[p + 1], p + 1)
  BY <1>1, <1>4, <1>5, Zenon DEF Sync, ChanInv
<1>6. chan[1].kind \in {"cols", "scan"}
  BY <1>5, <1>a, MessageFacts
<1> QED  BY <1>3, <1>4, <1>6, FirstToken, Zenon

\* The last token and the message after it are not lost.
LEMMA EndStep ==
    ASSUME QueryInv, EndInv, [Next]_vars  PROVE EndInv'
<1> SUFFICES ASSUME Live', Last'
             PROVE  /\ \/ requestDone'
                       \/ \E x \in Items(chan') \cup Items(todo') : x.kind = "last"
                    /\ Stop \in Items(queue') \cup Items(todo')
  BY Zenon DEF EndInv, Items, Stop, Msg
<1>0. /\ Live /\ ~ctx /\ ~drainer /\ good /\ ~appCtx /\ ~over
      /\ app \notin {"close", "finish", "ended"}
      /\ Typed /\ ReadType /\ ChanType /\ QueueType /\ CtrlInv /\ ReplyInv
  BY CtxStays, OverStays, Zenon DEF QueryInv, Typed, LiveInv, Live
<1>1. CASE Server
  BY <1>0, <1>1, ServerItems, Zenon
<1>2. ASSUME UNCHANGED sent
      PROVE  /\ requestDone \/ \E x \in Items(chan) \cup Items(todo) : x.kind = "last"
             /\ Stop \in Items(queue) \cup Items(todo) /\ Last
  BY <1>0, <1>2, Zenon DEF EndInv, Last
<1>3. ASSUME UNCHANGED <<sent, chan, todo>>, requestDone => requestDone',
             Stop \in Items(queue) => Stop \in Items(queue')
      PROVE  /\ \/ requestDone'
                \/ \E x \in Items(chan') \cup Items(todo') : x.kind = "last"
             /\ Stop \in Items(queue') \cup Items(todo')
  BY <1>2, <1>3, Zenon
<1>4. CASE SendToken
  <2>1. /\ todo # <<>> /\ Head(todo).to = "chan" /\ chan' = Append(chan, Head(todo))
        /\ todo' = Tail(todo) /\ UNCHANGED <<sent, queue, requestDone>>
    BY <1>4, Zenon DEF SendToken, rowsVars
  <2>2. Head(todo) \in ChanItems /\ Head(todo) # Stop
    BY <1>0, <2>1, FirstTodo, MessageFacts
  <2>3. /\ Items(chan') = Items(chan) \cup {Head(todo)}
        /\ Items(todo) = {Head(todo)} \cup Items(todo')
    BY <1>0, <2>1, <2>2, ItemsTyped, Zenon
  <2> QED  BY <1>2, <2>1, <2>2, <2>3, Zenon
<1>5. CASE Enqueue
  <2>1. /\ todo # <<>> /\ Head(todo).to = "queue" /\ queue' = Append(queue, Head(todo))
        /\ todo' = Tail(todo) /\ UNCHANGED <<sent, chan, requestDone>>
    BY <1>0, <1>5, Zenon DEF Enqueue, rowsVars, chanVars
  <2>2. Head(todo) \in QueueItems /\ Head(todo).kind # "last"
    <3>1. Head(todo) \in QueueItems
      BY <1>0, <2>1, FirstTodo, Zenon
    <3>2. Head(todo).kind \in {"next", "nextset", "notice"}
      BY <3>1, ItemFacts, Zenon
    <3> QED  BY <3>1, <3>2
  <2>3. /\ Items(queue') = Items(queue) \cup {Head(todo)}
        /\ Items(todo) = {Head(todo)} \cup Items(todo')
    BY <1>0, <2>1, <2>2, ItemsTyped, Zenon
  <2> QED  BY <1>2, <2>1, <2>2, <2>3, Zenon
<1>6. CASE ReaderExit \/ AfterRow \/ UNCHANGED vars
  <2>1. UNCHANGED <<sent, chan, todo, queue, requestDone>>
    BY <1>6, Zenon DEF ReaderExit, AfterRow, Calls, vars, readVars, chanVars, rowsVars
  <2> QED  BY <1>3, <2>1, Zenon
<1>7. ~BackgroundDrain /\ ~Attention /\ ~SqlCloses /\ ~Cancel
  BY <1>0, Zenon DEF BackgroundDrain, Attention, SqlCloses, Cancel, Live
<1>8. ASSUME NEW k, NEW n, Take(k, n)
      PROVE  (requestDone => requestDone') /\ (k = "last" => requestDone' \/ app = "columns")
  <2>0. "last" \notin Errors /\ "last" \notin Errors \cup {"nil"}
    BY DEF Errors
  <2>1. CASE Columns(k, n)
    BY <2>1, Zenon DEF Columns
  <2>2. CASE NextToken(k, n)
    <3>1. requestDone => requestDone'
      BY <2>2, Zenon DEF NextToken, rowsVars
    <3>2. k = "last" => requestDone'
      BY <2>0, <2>2, Zenon DEF NextToken
    <3> QED  BY <3>1, <3>2, Zenon
  <2>3. CASE NextResultSetToken(k, n)
    <3>1. requestDone => requestDone'
      BY <2>3, Zenon DEF NextResultSetToken, rowsVars
    <3>2. k = "last" => requestDone'
      BY <2>0, <2>3, Zenon DEF NextResultSetToken
    <3> QED  BY <3>1, <3>2, Zenon
  <2> QED  BY <1>0, <1>8, <2>1, <2>2, <2>3, Zenon DEF Take, CloseToken
<1>9. CASE TakeToken
  <2>1. UNCHANGED <<sent, todo, queue>>
    BY <1>9, Zenon DEF TakeToken, readVars
  <2>2. CASE chan # <<>> /\ chan' = Tail(chan) /\ Take(Head(chan).kind, Head(chan).n)
    <3>1. Items(chan) = {Head(chan)} \cup Items(chan')
      BY <1>0, <2>2, ItemsTyped, Zenon
    <3>2. Head(chan).kind = "last" => requestDone'
      <4>1. Head(chan).kind = "last" => app # "columns"
        BY <1>0, ColumnsFirst, Zenon
      <4> QED  BY <1>8, <2>2, <4>1, Zenon
    <3>3. requestDone => requestDone'
      BY <1>8, <2>2, Zenon
    <3> QED  BY <1>2, <2>1, <3>1, <3>2, <3>3, Zenon
  <2>3. CASE UNCHANGED chan /\ Take("nil", 0)
    BY <1>3, <1>8, <2>1, <2>3, Zenon
  <2> QED  BY <1>9, <2>2, <2>3, Zenon DEF TakeToken
<1>10. ASSUME queue # <<>>, Head(queue) # Stop, queue' = Tail(queue)
       PROVE  Stop \in Items(queue) => Stop \in Items(queue')
  BY <1>0, <1>10, ItemsTyped, Zenon
<1>11. CASE HandleNext \/ HandleNotice
  <2>1. /\ queue # <<>> /\ queue' = Tail(queue) /\ Head(queue).kind \in {"next", "notice"}
        /\ UNCHANGED <<sent, chan, todo, requestDone>>
    BY <1>11, Zenon DEF HandleNext, HandleNotice, Calls, readVars, chanVars, rowsVars
  <2>2. Head(queue) # Stop
    BY <2>1, MessageFacts
  <2> QED  BY <1>3, <1>10, <2>1, <2>2, Zenon
<1>12. CASE HandleNextResultSet
  <2>1. /\ queue # <<>> /\ queue' = Tail(queue) /\ app = "loop"
        /\ UNCHANGED <<sent, chan, todo, requestDone>>
    BY <1>0, <1>12, Zenon DEF HandleNextResultSet, Calls, readVars, chanVars, rowsVars
  <2>2. ~requestDone
    BY <1>0, <1>12, Zenon DEF HandleNextResultSet, EnterClose, Live
  <2>3. Head(queue) # Stop
    BY <1>0, <1>2, <2>1, <2>2, StopLast, Zenon
  <2> QED  BY <1>3, <1>10, <2>1, <2>3, Zenon
<1> QED  BY <1>1, <1>4, <1>5, <1>6, <1>7, <1>9, <1>11, <1>12, Zenon DEF Next, Reader, Application

\* Rows that are closed while the loop goes on had the reader's failure.
LEMMA CloseStep ==
    ASSUME QueryInv, CloseInv, [Next]_vars  PROVE CloseInv'
<1> SUFFICES ASSUME over', ~appCtx', app' \in {"close", "loop"}
             PROVE  ~Sending' /\ reply' \in {"broken", "cut"}
  BY Zenon DEF CloseInv
<1>0. ~appCtx /\ Typed /\ ReadType /\ ChanType /\ CtrlInv /\ TodoInv
  BY CtxStays, Zenon DEF QueryInv, Typed
<1>1. CASE over
  <2>0. app \in {"loop", "close", "finish", "ended"}
    BY <1>0, <1>1, Zenon DEF QueryInv, OverInv
  <2>2. ASSUME NEW k, NEW n, Take(k, n)  PROVE app \in {"close", "loop"}
    BY <2>0, <2>2, Zenon DEF Take, Columns, NextToken, NextResultSetToken, CloseToken
  <2>a. app \in {"close", "loop"}
    <3>1. CASE Server
      BY <3>1, Zenon DEF Server, ReadColumns, ReadRow, ReadNotice, ReadReturnValue, ReadFails,
         ReadDone, ReaderOnly
    <3>2. CASE Reader \/ Cancel \/ SqlCloses \/ UNCHANGED vars
      BY <1>1, <3>2, Zenon DEF Reader, SendToken, Enqueue, ReaderExit, BackgroundDrain, Cancel,
         SqlCloses, vars
    <3>3. CASE TakeToken \/ Attention
      BY <2>2, <3>3, Zenon DEF TakeToken, Attention
    <3>4. CASE HandleNext \/ HandleNotice \/ HandleNextResultSet \/ AfterRow
      BY <2>0, <3>4, Zenon DEF HandleNext, HandleNotice, HandleNextResultSet, AfterRow
    <3> QED  BY <3>1, <3>2, <3>3, <3>4, Zenon DEF Next, Application
  <2>4. ~Sending /\ reply \in {"broken", "cut"}
    BY <1>0, <1>1, <2>a, Zenon DEF CloseInv
  <2>1. ~Server
    BY <1>0, <2>4, Zenon DEF Server, ReadColumns, ReadRow, ReadNotice, ReadReturnValue, ReadFails,
       ReadDone, Reading, CtrlInv
  <2>3. UNCHANGED reply
    <3>1. CASE Reader \/ Cancel \/ SqlCloses \/ UNCHANGED vars
      BY <3>1, Zenon DEF Reader, SendToken, Enqueue, ReaderExit, BackgroundDrain, Cancel,
         SqlCloses, Calls, vars, readVars
    <3>2. CASE TakeToken \/ Attention
      BY <2>4, <3>2, Zenon DEF TakeToken, Attention, readVars
    <3>3. CASE HandleNext \/ HandleNotice \/ HandleNextResultSet \/ AfterRow
      BY <3>3, Zenon DEF HandleNext, HandleNotice, HandleNextResultSet, AfterRow, Calls,
         readVars
    <3> QED  BY <2>1, <3>1, <3>2, <3>3, Zenon DEF Next, Application
  <2>5. CASE UNCHANGED todo
    BY <2>3, <2>4, <2>5, Zenon DEF Sending
  <2>6. CASE todo' = <<>>
    <3>1. 1..Len(todo') = {}
      BY <2>6
    <3> QED  BY <2>3, <2>4, <3>1, Zenon DEF Sending
  <2>7. CASE todo # <<>> /\ todo' = Tail(todo) /\ UNCHANGED sent
    BY <1>0, <2>3, <2>4, <2>7, TodoHead, Zenon
  <2>8. CASE Reader
    BY <2>5, <2>7, <2>8, Zenon DEF Reader, SendToken, Enqueue, ReaderExit, BackgroundDrain, readVars
  <2>9. CASE Application
    BY <2>5, <2>6, <2>9, Zenon DEF Application, TakeToken, Attention, HandleNext, HandleNotice,
       HandleNextResultSet, AfterRow, Calls, readVars
  <2>10. CASE Cancel \/ SqlCloses \/ UNCHANGED vars
    BY <2>5, <2>10, Zenon DEF Cancel, SqlCloses, Calls, vars, readVars
  <2> QED  BY <2>1, <2>8, <2>9, <2>10, Zenon DEF Next
<1>2. CASE ~over
  <2>0. Live /\ good /\ ~ctx
    BY <1>0, <1>2, Zenon DEF QueryInv, LiveInv, Live
  <2>1. ~Server /\ ~Reader /\ ~Cancel /\ ~UNCHANGED vars
    BY <1>2, Zenon DEF Server, ReadColumns, ReadRow, ReadNotice, ReadReturnValue, ReadFails, ReadDone, ReaderOnly,
       Reader, SendToken, Enqueue, ReaderExit, BackgroundDrain, Cancel, vars, sqlVars
  <2>2. ~SqlCloses /\ ~Attention /\ ~HandleNext /\ ~HandleNotice /\ ~AfterRow
    BY <1>0, <1>2, <2>0, Zenon DEF SqlCloses, Attention, HandleNext, HandleNotice, AfterRow,
       CallNext, sqlVars
  <2>3. ~HandleNextResultSet
    BY <1>2, <2>0, Zenon DEF HandleNextResultSet, EnterClose
  <2>4. ASSUME NEW k, NEW n, Take(k, n)  PROVE k \in Errors /\ app = "next"
    <3>1. ~Columns(k, n) /\ ~CloseToken(k)
      BY <1>2, Zenon DEF Columns, CloseToken, sqlVars
    <3>2. ~NextResultSetToken(k, n)
      BY <1>2, Zenon DEF NextResultSetToken, EnterClose
    <3> QED  BY <1>2, <2>4, <3>1, <3>2, Zenon DEF Take, NextToken
  <2>5. TakeToken
    BY <2>1, <2>2, <2>3, Zenon DEF Next, Application
  <2>6. chan # <<>> /\ Head(chan).kind \in Errors /\ app = "next" /\ UNCHANGED <<todo, reply>>
    <3>1. "nil" \notin Errors
      BY DEF Errors
    <3> QED  BY <2>4, <2>5, <3>1, Zenon DEF TakeToken, readVars
  <2>7. PICK p \in 0..Len(sent), q \in 0..Len(sent) : Sync(p, q)
    BY <2>0, Zenon DEF QueryInv, LiveInv
  <2>8. Head(chan) = chan[1] /\ 1 \in 1..Len(chan)
    <3>1. Len(chan) \in Nat \ {0}
      BY <1>0, <2>6, LenProperties DEF ChanType
    <3> QED  BY <1>0, <2>6, <3>1, FirstToken
  <2>9. ~(p + 1 <= Put)
    <3> SUFFICES ASSUME p + 1 <= Put  PROVE FALSE
      OBVIOUS
    <3>1. chan[1] = Tok(sent[p + 1], p + 1)
      BY <2>7, <2>8, Zenon DEF Sync, ChanInv
    <3>2. p + 1 \in 1..Len(sent)
      BY SentFacts, <2>7 DEF QueryInv, Typed
    <3>a. /\ sent[p + 1] \in {"cols", "row", "done", "last", "scan"}
          /\ sent[p + 1] = "scan" => p + 1 = 1 \/ sent[(p + 1) - 1] \in {"done", "last", "scan"}
      BY <3>2, SentFacts, Zenon DEF QueryInv, Typed
    <3>b. q # 0 /\ q <= p /\ sent[q] = "cols" /\ OnlyRows(q+1, p)
      BY <2>6, <2>7, Zenon DEF Sync, StepInv
    <3>c. p # 0 /\ sent[p] \in {"cols", "row"}
      BY <3>b DEF OnlyRows
    <3>3. sent[p + 1] \in {"cols", "row", "done", "last"}
      BY <3>a, <3>c
    <3>4. chan[1].kind = sent[p + 1]
      BY <3>1 DEF Tok
    <3> QED  BY <2>6, <2>8, <3>3, <3>4 DEF Errors
  <2>10. ~Sending /\ reply \in {"broken", "cut"}
    BY <2>7, <2>8, <2>9, Zenon DEF Sync, ChanInv
  <2> QED  BY <2>6, <2>10, Zenon DEF Sending
<1> QED  BY <1>1, <1>2, Zenon

\* The channel is full while the application waits for a message only when the
\* application has left a result set, or when it is full of errors.
LEMMA LeftRows ==
    ASSUME QueryInv, FailInv, Live, app = "loop", queue = <<>>,
           todo # <<>>, Head(todo).to = "chan", Len(chan) = Cap
    PROVE  skipped \/ \A i \in 1..Cap : chan[i].kind = "scan"
<1>0. ReadType /\ ReplyInv /\ TodoInv
  BY Zenon DEF QueryInv, Typed
<1>1. PICK p \in 0..Len(sent), q \in 0..Len(sent) : Sync(p, q)
  BY Zenon DEF QueryInv, LiveInv
<1>2. ChanInv(p) /\ QueueInv(q) /\ StepInv(p, q)
  BY <1>1, Zenon DEF Sync
<1>3. /\ Len(sent) \in Nat /\ Put \in Int /\ Told \in Int
      /\ Put <= Len(sent) /\ Told <= Len(sent)
  BY <1>0, SentFacts, Zenon
<1>4. Head(todo) = todo[1] /\ 1 \in 1..Len(todo)
  <2>1. Len(todo) \in Nat \ {0}
    BY <1>0, LenProperties DEF ReadType
  <2> QED  BY <1>0, <2>1, FirstTodo
<1>5. /\ p + 1 <= Put
      /\ \A i \in 1..Cap : p + i <= Put /\ chan[i] = Tok(sent[p + i], p + i)
  <2>1. Sending
    BY <1>4, Zenon DEF Sending
  <2>2. 1 \in 1..Len(chan)
    BY CapAssumption
  <2> QED  BY <1>2, <2>1, <2>2, Zenon DEF ChanInv
<1>6. Put <= Told
  <2>1. CASE Head(todo).n # 0
    <3>1. TokenDue
      BY <1>4, <2>1, Zenon DEF TokenDue
    <3> QED  BY <1>3, <3>1 DEF Put, Told
  <2>2. CASE Head(todo).n = 0
    <3>1. TodoItem(Head(todo))
      BY <1>0, <1>4, Zenon DEF TodoInv
    <3>2. Head(todo).kind \in Failures
      BY <1>0, <2>2, <3>1, TodoCases, Zenon
    <3>3. \A i \in 1..Len(todo) : todo[i].n = 0
      BY <1>4, <3>2, Zenon DEF FailInv, Items
    <3>4. ~TokenDue /\ ~MsgDue
      BY <3>3, Zenon DEF TokenDue, MsgDue
    <3> QED  BY <1>3, <3>4 DEF Put, Told
  <2> QED  BY <2>1, <2>2, Zenon
<1>7. \A n \in q+1..Put : sent[n] \in Unannounced
  <2>1. 1..Len(queue) = {}
    OBVIOUS
  <2>2. \A n \in q+1..Told : sent[n] \in Unannounced
    BY <1>2, <2>1, Zenon DEF QueueInv
  <2> QED  BY <1>3, <1>6, <2>2
<1>8. ASSUME q < p  PROVE sent[p] \in Unannounced /\ p # 0
  BY <1>3, <1>5, <1>7, <1>8
<1>10. q < p => ~Ends(p)
  BY <1>8 DEF Ends, Unannounced
<1>11. CASE lastcols /\ inResultSet
  BY <1>2, <1>11, Zenon DEF StepInv
<1>12. CASE lastcols /\ ~inResultSet
  BY <1>2, <1>10, <1>12 DEF StepInv
<1>13. CASE ~lastcols /\ cols # 0
  BY <1>2, <1>8, <1>13 DEF StepInv, Unannounced
<1>14. CASE ~lastcols /\ cols = 0
  <2>1. q = p /\ Ends(p)
    BY <1>2, <1>10, <1>14 DEF StepInv
  <2>2. OnlyScans(p+1, Put)
    <3>1. Quiet(p+1, Put)
      BY <1>7, <2>1, Zenon DEF Quiet
    <3> QED  BY <1>0, <1>3, <2>1, <3>1, QuietAfterEnd, Zenon
  <2>3. \A i \in 1..Cap : p + i \in p+1..Put
    BY <1>3, <1>5, CapAssumption
  <2>4. \A i \in 1..Cap : sent[p + i] = "scan"
    BY <2>2, <2>3, Zenon DEF OnlyScans
  <2> QED  BY <1>5, <2>4, MessageFacts
<1> QED  BY <1>11, <1>12, <1>13, <1>14, Zenon

\* When the reader waits for room or has exited while the application waits for
\* a message or a token, it is for one of four reasons: more messages than the
\* queue holds came between two tokens, the application left a result set before
\* its end, more output parameters than the channel holds could not be scanned,
\* or the reader failed without a message.  The two bounded queues have no other
\* deadlock, whatever their capacities.
THEOREM OnlyNamedDeadlocks == Spec => []OnlyNamedWaits
<1> DEFINE WaitInv == QueryInv /\ FailInv /\ EndInv /\ CloseInv
<1>1. Init => FailInv /\ EndInv /\ CloseInv
  BY NoItems, Zenon DEF Init, FailInv, EndInv, CloseInv, Last
<1>2. QueryInv /\ FailInv /\ EndInv /\ CloseInv /\ [Next]_vars => FailInv' /\ EndInv' /\ CloseInv'
  BY FailStep, EndStep, CloseStep, Zenon DEF QueryInv
<1>3. ASSUME QueryInv, FailInv, EndInv, CloseInv  PROVE OnlyNamedWaits
  <2> SUFFICES ASSUME AppWaits, ReaderWaits, ~QueueFull, ~RowsLeft, ~ErrorsLeft,
                      ~Silent
               PROVE  FALSE
    BY Zenon DEF OnlyNamedWaits
  <2>0. /\ ~appCtx /\ CtrlInv /\ ChanType /\ QueueType /\ ReadType
        /\ (chan = <<>> => Len(chan) # Cap) /\ (queue = <<>> => Len(queue) # QueueCap)
    <3>1. ~appCtx /\ CtrlInv /\ ChanType /\ QueueType /\ ReadType
      BY <1>3, Zenon DEF AppWaits, QueryInv, Typed
    <3>2. (chan = <<>> => Len(chan) # Cap) /\ (queue = <<>> => Len(queue) # QueueCap)
      BY CapAssumption, QueueCapAssumption
    <3> QED  BY <3>1, <3>2, Zenon
  <2>1. CASE app = "loop" /\ queue = <<>>
    <3>1. CASE todo # <<>> /\ Head(todo).to = "chan" /\ Len(chan) = Cap
      <4>1. ~skipped /\ ~(\A i \in 1..Cap : chan[i].kind = "scan")
        BY <2>1, <3>1, Zenon DEF RowsLeft, ErrorsLeft
      <4>2. over
        BY <1>3, <2>0, <2>1, <3>1, <4>1, LeftRows, Zenon DEF Live
      <4>3. ~Sending
        BY <1>3, <2>0, <2>1, <4>2, Zenon DEF CloseInv
      <4>4. Head(todo) = todo[1] /\ 1 \in 1..Len(todo)
        <5>1. Len(todo) \in Nat \ {0}
          BY <2>0, <3>1, LenProperties DEF ReadType
        <5> QED  BY <2>0, <3>1, <5>1, FirstTodo
      <4> QED  BY <3>1, <4>3, <4>4, Zenon DEF Sending
    <3>2. CASE rd = "none"
      <4>1. reply = "whole" /\ todo = <<>>
        BY <2>0, <2>1, <3>2, Zenon DEF Silent, CtrlInv
      <4>2. Live
        BY <1>3, <2>0, <2>1, <4>1 DEF Live, CloseInv
      <4>3. Last
        BY <1>3, <4>1, <4>2, Zenon DEF QueryInv, LiveInv, Last
      <4> QED  BY <1>3, <2>1, <4>1, <4>2, <4>3, NoItems, Zenon DEF EndInv
    <3> QED  BY <2>0, <2>1, <3>1, <3>2, Zenon DEF ReaderWaits
  <2>2. CASE app \in {"columns", "next", "nextset"} /\ chan = <<>> /\ ~closed
    <3>1. app # "columns"
      <4>1. app = "columns" => Live
        BY <1>3, <2>0 DEF QueryInv, OverInv, Live
      <4> QED  BY <1>3, <2>2, <4>1, ColumnsFirst, Zenon
    <3>2. rd # "none"
      BY <2>0, <2>2, Zenon DEF CtrlInv
    <3> QED  BY <2>0, <2>2, <3>1, <3>2, Zenon DEF ReaderWaits, QueueFull
  <2> QED  BY <2>1, <2>2, Zenon DEF AppWaits
<1>4. Spec => []WaitInv
  BY <1>1, <1>2, QueryInvariant, PTL DEF Spec
<1> QED  BY <1>3, <1>4, PTL
=============================================================================
