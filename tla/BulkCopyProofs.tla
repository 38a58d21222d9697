-------------------------- MODULE BulkCopyProofs ---------------------------
(***************************************************************************)
(* Proofs about module BulkCopy, for every set of bulk copies, number of   *)
(* columns and number of calls.                                            *)
(***************************************************************************)
EXTENDS BulkCopy, SequenceTheorems, TLAPS

USE BulksAssumption, ExclusiveAssumption, ColumnsAssumption, MaxCallsAssumption

-----------------------------------------------------------------------------
(* The invariants.                                                          *)

\* A call that is running is one of a bulk copy, and nothing is reported done.
CallInv == pc # "idle" => cur \in Bulks /\ done = None

\* The header is sent once: while it is being prepared it is not sent, and a
\* bulk copy without a header has no rows.
HeaderInv ==
    /\ pc \in {"on", "select", "close", "off", "match", "insert"} => ~hdr[cur]
    /\ pc \in {"meta", "row"} => hdr[cur]
    /\ \A b \in Bulks : ~hdr[b] => accepted[b] = <<>> /\ loaded[b] = <<>>

\* The application goes on with no bulk copy but the current one.
TurnInv == \A b \in Bulks : hdr[b] /\ b # cur => b \in dropped

\* While the server waits for the current bulk copy's message, nothing of it
\* is in the table, and the message holds the rows that AddRow accepted,
\* unless the connection broke in the middle of a row.
OpenInv ==
    srv = cur /\ srv # None /\ hdr[cur] =>
        /\ loaded[cur] = <<>>
        /\ (\A i \in 1..Len(msg) : msg[i].whole) => msg = accepted[cur]

\* A message for a bulk copy that is not the current one cannot be ended.
OtherInv == srv # cur /\ srv # None /\ cur # None => ~hdr[cur]

\* FMTONLY is on only between the two requests that turn it on and off.
FmtInv ==
    good /\ ~behind /\ ctx = "live" /\ ~cut /\ fmtonly => pc \in {"select", "close", "off"}

RowsInv == /\ CallInv /\ HeaderInv /\ TurnInv /\ OpenInv /\ OtherInv
           /\ DoneIsComplete /\ LoadedOnce

-----------------------------------------------------------------------------
(* Type correctness.                                                        *)

\* The parts of the type invariant: the bulk copies, the call, the
\* connection and the server.
BulkType ==
    /\ hdr \in [Bulks -> BOOLEAN] /\ closed \in [Bulks -> BOOLEAN]
    /\ cols \in [Bulks -> Nat] /\ accepted \in [Bulks -> Seq(Rows)]
    /\ dropped \subseteq Bulks

CallType ==
    /\ calls \in 0..MaxCalls
    /\ pc \in {"idle", "on", "select", "close", "off", "match", "insert",
               "meta", "row"}
    /\ cur \in Bulks \cup {None} /\ done \in Bulks \cup {None}
    /\ row \in {"fits", "odd", "bad"} /\ ctx \in {"live", "done"}

ConnType ==
    /\ typ \in {"bulk", "other"} /\ msg \in Seq(Rows)
    /\ net \in {"up", "down"} /\ good \in BOOLEAN /\ behind \in BOOLEAN
    /\ out \in BOOLEAN

ServerType ==
    /\ srv \in Bulks \cup {None} /\ loaded \in [Bulks -> Seq(Rows)]
    /\ fmtonly \in BOOLEAN /\ cut \in BOOLEAN

Typed == BulkType /\ CallType /\ ConnType /\ ServerType

\* The parts make the whole.
LEMMA TypeParts == TypeOK <=> Typed
BY Zenon DEF TypeOK, Typed, BulkType, CallType, ConnType, ServerType

\* A reply changes the state of the connection and of the transport only, and
\* a connection that is behind stays so.
LEMMA AnswerTyped ==
    ASSUME ConnType, NEW o, NEW ran \in BOOLEAN, NEW tr \in {"up", "down"},
           Answer(o, ran, tr)
    PROVE  /\ good' \in BOOLEAN /\ net' \in {"up", "down"}
           /\ behind' \in BOOLEAN /\ (behind => behind')
<1>1. good' \in BOOLEAN
  BY Zenon DEF ConnType, Answer, connVars
<1>2. net' \in {"up", "down"}
  BY Zenon DEF ConnType, Answer, connVars
<1>3. behind' \in BOOLEAN /\ (behind => behind')
  BY Zenon DEF ConnType, Answer, connVars
<1> QED  BY <1>1, <1>2, <1>3, Zenon

LEMMA ReplyTyped ==
    ASSUME ConnType, NEW o \in Outcomes, NEW ran \in BOOLEAN, Reply(o, ran)
    PROVE  /\ good' \in BOOLEAN /\ net' \in {"up", "down"}
           /\ behind' \in BOOLEAN /\ (behind => behind')
<1>1. Transport \in {"up", "down"}
  BY Zenon DEF ConnType, Transport
<1>2. CASE good
  BY <1>1, <1>2, AnswerTyped, Zenon DEF Reply
<1>3. CASE ~good
  BY <1>3, Zenon DEF Reply, ConnType, connVars
<1> QED  BY <1>2, <1>3, Zenon

\* A request takes the buffer and the server from a bulk load.
LEMMA RequestTyped ==
    ASSUME ConnType, ServerType, NEW o \in Outcomes, NEW ran \in BOOLEAN,
           Request(o, ran)
    PROVE  ConnType' /\ srv' \in Bulks \cup {None} /\ (behind => behind')
<1>1. /\ good' \in BOOLEAN /\ net' \in {"up", "down"}
      /\ behind' \in BOOLEAN /\ (behind => behind')
  BY ReplyTyped, Zenon DEF Request
<1>2. CASE good
  <2>1. typ' = "other" /\ msg' = <<>> /\ out' = FALSE /\ srv' = None
    BY <1>2, Zenon DEF Request
  <2>2. out' \in BOOLEAN
    BY <2>1, Zenon
  <2> QED  BY <1>1, <2>1, <2>2 DEF ConnType
<1>3. CASE ~good
  BY <1>1, <1>3, Zenon DEF Request, ConnType, ServerType, bufVars
<1> QED  BY <1>2, <1>3, Zenon

\* A row that is written is of its type.
LEMMA RowTyped ==
    ASSUME CallType, cur \in Bulks, NEW whole \in BOOLEAN
    PROVE  Row(whole) \in Rows
BY Zenon DEF CallType, Row, Rows

\* Every step keeps the types, and a running call is one of a bulk copy.
LEMMA TypeStep ==
    ASSUME Typed, pc # "idle" => cur \in Bulks, [Next]_vars
    PROVE  Typed' /\ (pc' # "idle" => cur' \in Bulks)
<1> USE DEF Typed
<1>1. ASSUME NEW b \in Bulks, NEW r \in {"fits", "odd", "bad"}, AddRow(b, r)
      PROVE  Typed' /\ cur' \in Bulks
  <2>1. BulkType'
    BY <1>1, Zenon DEF AddRow, BulkType, CallType
  <2>2. CallType' /\ cur' \in Bulks
    BY <1>1 DEF AddRow, Usable, CallType
  <2>3. ConnType' /\ ServerType'
    BY <1>1, Zenon DEF AddRow, ConnType, ServerType, connVars, bufVars, srvVars
  <2> QED  BY <2>1, <2>2, <2>3, Zenon
<1>2. ASSUME NEW o \in Outcomes, NEW ran \in BOOLEAN,
             FmtOnlyOn(o, ran) \/ SelectColumns(o, ran) \/ FmtOnlyOff(o, ran)
      PROVE  Typed' /\ cur' = cur /\ pc # "idle"
  <2>1. BulkType' /\ CallType' /\ cur' = cur /\ pc # "idle"
    BY <1>2, Zenon DEF FmtOnlyOn, SelectColumns, FmtOnlyOff, BulkType, CallType,
       bulkVars, callVars
  <2>2. ConnType' /\ srv' \in Bulks \cup {None}
    BY <1>2, RequestTyped, Zenon DEF FmtOnlyOn, SelectColumns, FmtOnlyOff
  <2>3. fmtonly' \in BOOLEAN
    BY <1>2, Zenon DEF FmtOnlyOn, SelectColumns, FmtOnlyOff, ServerType
  <2>4. ServerType'
    BY <1>2, <2>2, <2>3, Zenon DEF FmtOnlyOn, SelectColumns, FmtOnlyOff, ServerType
  <2> QED  BY <2>1, <2>2, <2>4, Zenon
<1>3. ASSUME NEW o \in Outcomes, NEW ran \in BOOLEAN, InsertBulk(o, ran)
      PROVE  Typed' /\ cur' = cur /\ pc # "idle"
  <2>1. /\ good' \in BOOLEAN /\ net' \in {"up", "down"} /\ behind' \in BOOLEAN
        /\ cur \in Bulks /\ cur' = cur
    BY <1>3, ReplyTyped, Zenon DEF InsertBulk, callVars
  <2>2. (o = "ok") \in BOOLEAN
    BY Zenon
  <2>3. BulkType'
    BY <1>3, <2>1, <2>2, Zenon DEF InsertBulk, BulkType
  <2>4. CallType' /\ pc # "idle"
    BY <1>3, Zenon DEF InsertBulk, CallType, callVars
  <2>5. out' \in BOOLEAN
    BY <1>3, Zenon DEF InsertBulk, ConnType, bufVars
  <2>6. typ' \in {"bulk", "other"} /\ msg' \in Seq(Rows) /\ srv' \in Bulks \cup {None}
    <3>1. CASE good
      BY <1>3, <2>1, <3>1 DEF InsertBulk
    <3>2. CASE ~good
      BY <1>3, <3>2, Zenon DEF InsertBulk, ConnType, ServerType, bufVars
    <3> QED  BY <3>1, <3>2, Zenon
  <2>7. ConnType' /\ ServerType'
    BY <1>3, <2>1, <2>5, <2>6, Zenon DEF InsertBulk, ConnType, ServerType
  <2> QED  BY <2>1, <2>3, <2>4, <2>7, Zenon
<1>4. CASE CloseColumns
  <2>1. fmtonly' \in BOOLEAN /\ cut' \in BOOLEAN /\ behind' \in BOOLEAN
    BY <1>4, Zenon DEF CloseColumns, ServerType, ConnType
  <2> QED  BY <1>4, <2>1, Zenon DEF CloseColumns, BulkType, CallType, ConnType,
             ServerType, bulkVars, callVars, bufVars
<1>5. ASSUME NEW found \in 0..Columns, MatchColumns(found)  PROVE Typed' /\ cur' \in Bulks
  <2>1. cur \in Bulks /\ cols[cur] + found \in Nat
    BY <1>5 DEF MatchColumns, BulkType
  <2> QED  BY <1>5, <2>1 DEF MatchColumns, BulkType, CallType, ConnType,
             ServerType, callVars, connVars, bufVars, srvVars
<1>6. CASE WriteMetadata
  <2>1. out' \in BOOLEAN /\ behind' \in BOOLEAN /\ good' = good
    BY <1>6, Zenon DEF WriteMetadata, Write, WriteFails, ConnType
  <2>2. net' \in {"up", "down"} /\ pc' \in {"row", "idle"}
    BY <1>6, Zenon DEF WriteMetadata, Write, WriteFails, ConnType
  <2> QED  BY <1>6, <2>1, <2>2 DEF WriteMetadata, BulkType, CallType,
             ConnType, ServerType, bulkVars, callVars, srvVars
<1>7. CASE RejectRow
  BY <1>7 DEF RejectRow, BulkType, CallType, ConnType, ServerType, bulkVars,
     callVars, connVars, bufVars, srvVars
<1>8. CASE WriteRow
  <2>1. cur \in Bulks /\ Row(TRUE) \in Rows /\ Row(FALSE) \in Rows
    BY <1>8, RowTyped, Zenon DEF WriteRow
  <2>2. /\ out' \in BOOLEAN /\ behind' \in BOOLEAN /\ good' = good
        /\ net' \in {"up", "down"}
    BY <1>8, Zenon DEF WriteRow, Write, WriteFails, ConnType
  <2>3. msg' \in Seq(Rows)
    <3>1. msg' \in {Append(msg, Row(TRUE)), Append(msg, Row(FALSE))}
      BY <1>8, Zenon DEF WriteRow
    <3>2. Append(msg, Row(TRUE)) \in Seq(Rows) /\ Append(msg, Row(FALSE)) \in Seq(Rows)
      BY <2>1, AppendProperties, Zenon DEF ConnType
    <3> QED  BY <3>1, <3>2, Zenon
  <2>4. accepted' \in [Bulks -> Seq(Rows)]
    <3>1. Append(accepted[cur], Row(TRUE)) \in Seq(Rows)
      BY <2>1, AppendProperties, Zenon DEF BulkType
    <3> QED  BY <1>8, <2>1, <3>1, Zenon DEF WriteRow, BulkType
  <2> QED  BY <1>8, <2>1, <2>2, <2>3, <2>4, Zenon DEF WriteRow, BulkType, CallType,
             ConnType, ServerType, callVars, srvVars
<1>9. ASSUME NEW b \in Bulks, DoneWithoutRows(b)  PROVE Typed' /\ pc' = "idle"
  <2>1. closed' \in [Bulks -> BOOLEAN]
    BY <1>9, Zenon DEF DoneWithoutRows, Closing, BulkType
  <2> QED  BY <1>9, <2>1 DEF DoneWithoutRows, Usable, BulkType, CallType,
             ConnType, ServerType, connVars, bufVars, srvVars
<1>10. ASSUME NEW b \in Bulks, NEW o \in Outcomes, NEW ran \in BOOLEAN, Done(b, o, ran)
       PROVE  Typed' /\ pc' = "idle"
  <2> USE DEF EndMessage
  <2>1. closed' \in [Bulks -> BOOLEAN]
    BY <1>10, Zenon DEF Done, Closing, BulkType
  <2>2. BulkType' /\ CallType' /\ pc' = "idle"
    BY <1>10, <2>1 DEF Done, Usable, BulkType, CallType
  <2>3. /\ good' \in BOOLEAN /\ out' \in BOOLEAN /\ behind' \in BOOLEAN
        /\ net' \in {"up", "down"}
    <3>1. net \in {"up", "down"} /\ Answer(o, ran, net) /\ out' = FALSE
      BY <1>10, Zenon DEF Done, ConnType
    <3> QED  BY <3>1, AnswerTyped, Zenon
  <2>4. msg' = <<>> /\ srv' = None /\ typ' = "other"
    BY <1>10, Zenon DEF Done
  <2>5. loaded' \in [Bulks -> Seq(Rows)]
    <3>1. CASE ran
      <4>1. srv \in Bulks /\ loaded[srv] \o msg \in Seq(Rows)
        BY <1>10, <3>1 DEF Done, ConnType, ServerType
      <4> QED  BY <1>10, <3>1, <4>1, Zenon DEF Done, ServerType
    <3>2. CASE ~ran
      BY <1>10, <3>2, Zenon DEF Done, ServerType
    <3> QED  BY <3>1, <3>2, Zenon
  <2>6. ConnType' /\ ServerType'
    BY <1>10, <2>3, <2>4, <2>5 DEF Done, ConnType, ServerType
  <2> QED  BY <2>2, <2>6, Zenon
<1>11. ASSUME NEW o \in Outcomes, NEW ran \in BOOLEAN, OtherRequest(o, ran)
       PROVE  Typed' /\ pc' = "idle"
  <2>1. ConnType' /\ srv' \in Bulks \cup {None}
    BY <1>11, RequestTyped, Zenon DEF OtherRequest
  <2> QED  BY <1>11, <2>1 DEF OtherRequest, BulkType, CallType, ServerType, bulkVars
<1>12. CASE Cancel
  BY <1>12 DEF Cancel, BulkType, CallType, ConnType, ServerType, bulkVars,
     connVars, bufVars, srvVars
<1>13. CASE UNCHANGED vars
  BY <1>13 DEF vars, BulkType, CallType, ConnType, ServerType, bulkVars,
     callVars, connVars, bufVars, srvVars
<1> QED  BY <1>1, <1>2, <1>3, <1>4, <1>5, <1>6, <1>7, <1>8, <1>9, <1>10, <1>11,
          <1>12, <1>13, Zenon DEF Next

\* The connection starts well typed.
LEMMA InitTyped == ASSUME Init  PROVE Typed
<1>1. BulkType /\ CallType
  BY DEF Init, BulkType, CallType
<1>2. /\ good \in BOOLEAN /\ behind \in BOOLEAN /\ out \in BOOLEAN
      /\ fmtonly \in BOOLEAN /\ cut \in BOOLEAN
  BY Zenon DEF Init
<1>3. ConnType /\ ServerType
  BY <1>2 DEF Init, ConnType, ServerType
<1> QED  BY <1>1, <1>3, Zenon DEF Typed

\* Types, for every set of bulk copies, of columns and of calls.
THEOREM TypeCorrect == Spec => []TypeOK
<1> DEFINE Inv == Typed /\ (pc # "idle" => cur \in Bulks)
<1>1. Init => Inv
  BY InitTyped, Zenon DEF Init
<1>2. Inv /\ [Next]_vars => Inv'
  BY TypeStep, Zenon
<1>3. Inv => TypeOK
  BY TypeParts, Zenon
<1> QED  BY <1>1, <1>2, <1>3, PTL DEF Spec

-----------------------------------------------------------------------------
(* FMTONLY.                                                                 *)

\* No reply makes a connection good again, or puts it in step again.
LEMMA AnswerKeeps ==
    ASSUME NEW o, NEW ran \in BOOLEAN, NEW tr, Answer(o, ran, tr)
    PROVE  (good' => good) /\ (~behind' => ~behind)
<1>1. good' => good
  BY Zenon DEF Answer, connVars
<1>2. behind' = behind \/ behind' = TRUE
  BY Zenon DEF Answer, connVars
<1>3. behind => behind'
  BY <1>2
<1> QED  BY <1>1, <1>3, Zenon

LEMMA ReplyKeeps ==
    ASSUME NEW o, NEW ran \in BOOLEAN, Reply(o, ran)
    PROVE  (good' => good) /\ (~behind' => ~behind)
BY AnswerKeeps, Zenon DEF Reply, connVars

\* Whatever is refused, the session of a connection that goes on being used is
\* not left with FMTONLY on, unless an attention of rows.Close cut the batch
\* that turns it off (getMetadata).
THEOREM FmtOnlyGoesOff == Spec => []FmtOnlyIsReset
<1>1. Init => FmtInv
  BY Zenon DEF Init, FmtInv
<1>2. FmtInv /\ [Next]_vars => FmtInv'
  <2> SUFFICES ASSUME FmtInv, [Next]_vars  PROVE FmtInv'
    BY Zenon
  <2> USE DEF FmtInv
  <2>1. ASSUME NEW b \in Bulks, NEW r \in {"fits", "odd", "bad"}, AddRow(b, r)
        PROVE  FmtInv'
    BY <2>1, Zenon DEF AddRow, Usable, connVars, srvVars
  <2>2. ASSUME NEW o \in Outcomes, NEW ran \in BOOLEAN, FmtOnlyOn(o, ran)
        PROVE  FmtInv'
    <3>1. /\ Reply(o, ran) /\ UNCHANGED <<ctx, cut>> /\ fmtonly' = (fmtonly \/ ran)
          /\ pc = "on" /\ (o = "ok" => pc' = "select")
      BY <2>2, Zenon DEF FmtOnlyOn, Request, callVars
    <3>2. good' /\ ~behind' /\ ctx = "live" => ran = (o = "ok")
      BY <3>1, Zenon DEF Reply, Answer, connVars, Outcomes
    <3> QED  BY <3>1, <3>2, ReplyKeeps, Zenon
  <2>3. ASSUME NEW o \in Outcomes, NEW ran \in BOOLEAN, SelectColumns(o, ran)
        PROVE  FmtInv'
    BY <2>3, Zenon DEF SelectColumns
  <2>4. ASSUME NEW o \in Outcomes, NEW ran \in BOOLEAN, FmtOnlyOff(o, ran)
        PROVE  FmtInv'
    <3>1. /\ Reply(o, ran) /\ UNCHANGED <<ctx, cut>> /\ fmtonly' = (fmtonly /\ ~ran)
          /\ (o = "refused" => behind')
      BY <2>4, Zenon DEF FmtOnlyOff, Request, callVars
    <3>2. good' /\ ~behind' /\ ctx = "live" => ran
      BY <3>1, Zenon DEF Reply, Answer, connVars, Outcomes
    <3> QED  BY <3>1, <3>2, Zenon
  <2>5. CASE CloseColumns
    BY <2>5, Zenon DEF CloseColumns
  <2>6. ASSUME NEW o \in Outcomes, NEW ran \in BOOLEAN, InsertBulk(o, ran)
        PROVE  FmtInv'
    <3>1. pc = "insert" /\ UNCHANGED <<ctx, cut, fmtonly>> /\ Reply(o, ran)
      BY <2>6, Zenon DEF InsertBulk, callVars
    <3> QED  BY <3>1, ReplyKeeps, Zenon
  <2>7. ASSUME NEW found \in 0..Columns, MatchColumns(found)  PROVE FmtInv'
    BY <2>7, Zenon DEF MatchColumns, callVars, connVars, srvVars
  <2>8. CASE WriteMetadata \/ RejectRow \/ WriteRow
    BY <2>8, Zenon DEF WriteMetadata, RejectRow, WriteRow, Write, WriteFails,
       callVars, connVars, srvVars
  <2>9. ASSUME NEW b \in Bulks, DoneWithoutRows(b)  PROVE FmtInv'
    BY <2>9, Zenon DEF DoneWithoutRows, connVars, srvVars
  <2>10. ASSUME NEW b \in Bulks, NEW o \in Outcomes, NEW ran \in BOOLEAN, Done(b, o, ran)
         PROVE  FmtInv'
    <3>1. pc = "idle" /\ UNCHANGED <<pc, ctx, cut, fmtonly>> /\ Answer(o, ran, net)
      BY <2>10, Zenon DEF Done, EndMessage, Usable
    <3> QED  BY <3>1, AnswerKeeps, Zenon
  <2>11. ASSUME NEW o \in Outcomes, NEW ran \in BOOLEAN, OtherRequest(o, ran)
         PROVE  FmtInv'
    <3>1. pc = "idle" /\ UNCHANGED <<pc, ctx, cut, fmtonly>> /\ Reply(o, ran)
      BY <2>11, Zenon DEF OtherRequest, Request
    <3> QED  BY <3>1, ReplyKeeps, Zenon
  <2>12. CASE Cancel
    BY <2>12, Zenon DEF Cancel, connVars, srvVars
  <2>13. CASE UNCHANGED vars
    BY <2>13, Zenon DEF vars, callVars, connVars, srvVars
  <2> QED  BY <2>1, <2>2, <2>3, <2>4, <2>5, <2>6, <2>7, <2>8, <2>9, <2>10, <2>11,
            <2>12, <2>13 DEF Next
<1>3. FmtInv => FmtOnlyIsReset
  BY Zenon DEF FmtInv, FmtOnlyIsReset
<1> QED  BY <1>1, <1>2, <1>3, PTL DEF Spec

-----------------------------------------------------------------------------
(* The rows.                                                                *)

LoadInv == Typed /\ RowsInv

\* A sequence is a prefix of itself, and stays one of what is appended to.
LEMMA PrefixFacts ==
    ASSUME NEW S, NEW s \in Seq(S), NEW t \in Seq(S)
    PROVE  /\ IsPrefix(s, s) /\ IsPrefix(<<>>, s)
           /\ \A x \in S : IsPrefix(s, t) => IsPrefix(s, Append(t, x))
<1>1. IsPrefix(s, s) /\ IsPrefix(<<>>, s)
  BY DEF IsPrefix
<1>2. ASSUME NEW x \in S, IsPrefix(s, t)  PROVE IsPrefix(s, Append(t, x))
  <2>1. Len(s) <= Len(t) /\ Len(Append(t, x)) = Len(t) + 1
    BY <1>2 DEF IsPrefix
  <2>2. SubSeq(Append(t, x), 1, Len(s)) = SubSeq(t, 1, Len(s))
    BY <2>1
  <2> QED  BY <1>2, <2>1, <2>2 DEF IsPrefix
<1> QED  BY <1>1, <1>2, Zenon

\* Steps that leave the rows, the headers and the message alone.
LEMMA QuietRows ==
    ASSUME LoadInv, pc' # "idle" => pc # "idle",
           UNCHANGED <<hdr, accepted, dropped, loaded, cur>>,
           done' \in {done, None},
           pc' \in {"on", "select", "close", "off", "match", "insert"} => ~hdr[cur],
           pc' \in {"meta", "row"} => hdr[cur],
           srv' = None \/ UNCHANGED <<srv, msg>>, ~behind' => ~behind
    PROVE  RowsInv'
<1> USE DEF LoadInv, RowsInv
<1>1. CallInv' /\ HeaderInv' /\ TurnInv'
  BY Zenon DEF CallInv, HeaderInv, TurnInv
<1>2. OpenInv' /\ OtherInv'
  BY Zenon DEF OpenInv, OtherInv
<1>3. DoneIsComplete' /\ LoadedOnce'
  BY Zenon DEF DoneIsComplete, LoadedOnce
<1> QED  BY <1>1, <1>2, <1>3, Zenon

\* AddRow is called for a bulk copy that the application still uses: the
\* current one, or one without a header.
LEMMA AddRowRows ==
    ASSUME Exclusive, LoadInv, NEW b \in Bulks, NEW r, AddRow(b, r)
    PROVE  RowsInv'
<1> USE DEF LoadInv, RowsInv
<1>1. hdr[b] => b = cur
  BY Zenon DEF AddRow, Usable, TurnInv
<1>2. UNCHANGED <<hdr, accepted, loaded, srv, msg>> /\ cur' = b /\ done' = None
  BY Zenon DEF AddRow, bufVars, srvVars
<1>3. CallInv' /\ DoneIsComplete' /\ LoadedOnce'
  BY <1>2, Zenon DEF CallInv, DoneIsComplete, LoadedOnce
<1>4. HeaderInv'
  BY <1>2, Zenon DEF HeaderInv, AddRow
<1>5. TurnInv'
  BY <1>2, Zenon DEF TurnInv, AddRow
<1>6. OpenInv' /\ OtherInv'
  BY <1>1, <1>2, Zenon DEF OpenInv, OtherInv
<1> QED  BY <1>3, <1>4, <1>5, <1>6, Zenon

\* INSERT BULK begins the message of a bulk copy that has no rows yet.
LEMMA InsertBulkRows ==
    ASSUME LoadInv, NEW o \in Outcomes, NEW ran \in BOOLEAN, InsertBulk(o, ran)
    PROVE  RowsInv'
<1> USE DEF LoadInv, RowsInv
<1>1. /\ cur \in Bulks /\ ~hdr[cur] /\ done = None
      /\ accepted[cur] = <<>> /\ loaded[cur] = <<>>
  BY Zenon DEF InsertBulk, CallInv, HeaderInv
<1>2. UNCHANGED <<accepted, dropped, loaded, cur, done>>
  BY Zenon DEF InsertBulk, callVars
<1>3. /\ hdr'[cur] <=> o = "ok"
      /\ \A b \in Bulks \ {cur} : hdr'[b] = hdr[b]
  BY <1>1, Zenon DEF InsertBulk, Typed, BulkType
<1>4. CallInv' /\ DoneIsComplete' /\ LoadedOnce'
  BY <1>1, <1>2, Zenon DEF CallInv, DoneIsComplete, LoadedOnce
<1>5. HeaderInv'
  BY <1>1, <1>2, <1>3, Zenon DEF HeaderInv, InsertBulk
<1>6. TurnInv'
  BY <1>2, <1>3, Zenon DEF TurnInv
<1>7. OpenInv' /\ OtherInv'
  <2>1. CASE good
    BY <1>1, <1>2, <2>1, Zenon DEF InsertBulk, OpenInv, OtherInv
  <2>2. CASE ~good
    <3>1. ~hdr'[cur]
      BY <1>3, <2>2, Zenon DEF InsertBulk, Reply
    <3> QED  BY <1>2, <3>1, Zenon DEF OpenInv, OtherInv
  <2> QED  BY <2>1, <2>2, Zenon
<1> QED  BY <1>4, <1>5, <1>6, <1>7, Zenon

\* A row is added to the message and to the accepted rows, or breaks the
\* message.
LEMMA WriteRowRows ==
    ASSUME LoadInv, WriteRow  PROVE RowsInv'
<1> USE DEF LoadInv, RowsInv
<1>1. cur \in Bulks /\ hdr[cur] /\ done = None
  BY Zenon DEF WriteRow, CallInv, HeaderInv
<1>2. UNCHANGED <<hdr, dropped, loaded, cur, done, srv>> /\ pc' = "idle"
  BY Zenon DEF WriteRow, callVars, srvVars
<1>3. Row(TRUE) \in Rows /\ Row(FALSE) \in Rows /\ Row(TRUE).whole /\ ~Row(FALSE).whole
  BY <1>1, RowTyped, Zenon DEF Typed, Row
<1>4. /\ msg \in Seq(Rows) /\ accepted \in [Bulks -> Seq(Rows)]
      /\ loaded \in [Bulks -> Seq(Rows)]
  BY Zenon DEF Typed, ConnType, BulkType, ServerType
<1>5. CallInv' /\ TurnInv' /\ OtherInv' /\ DoneIsComplete'
  BY <1>1, <1>2, Zenon DEF CallInv, TurnInv, OtherInv, DoneIsComplete
<1>6. CASE /\ msg' = Append(msg, Row(TRUE))
           /\ accepted' = [accepted EXCEPT ![cur] = Append(@, Row(TRUE))]
  <2>1. HeaderInv'
    BY <1>1, <1>2, <1>4, <1>6, Zenon DEF HeaderInv
  <2>2. LoadedOnce'
    <3> SUFFICES ASSUME NEW b \in Bulks  PROVE IsPrefix(loaded[b], accepted'[b])
      BY <1>2, Zenon DEF LoadedOnce
    <3>1. CASE b = cur
      BY <1>3, <1>4, <1>6, <3>1, PrefixFacts, Zenon DEF LoadedOnce
    <3>2. CASE b # cur
      BY <1>4, <1>6, <3>2, Zenon DEF LoadedOnce
    <3> QED  BY <3>1, <3>2, Zenon
  <2>3. OpenInv'
    <3> SUFFICES ASSUME srv = cur, srv # None,
                        \A i \in 1..Len(msg') : msg'[i].whole
                 PROVE  loaded[cur] = <<>> /\ msg' = accepted'[cur]
      BY <1>1, <1>2, Zenon DEF OpenInv
    <3>1. /\ Len(msg) \in Nat /\ Len(msg') = Len(msg) + 1
          /\ \A i \in 1..Len(msg) : msg'[i] = msg[i]
      BY <1>3, <1>4, <1>6, AppendProperties, LenProperties
    <3>2. \A i \in 1..Len(msg) : msg[i].whole
      BY <3>1
    <3> QED  BY <1>1, <1>4, <1>6, <3>2, Zenon DEF OpenInv
  <2> QED  BY <1>5, <2>1, <2>2, <2>3, Zenon
<1>7. CASE msg' = Append(msg, Row(FALSE)) /\ UNCHANGED accepted
  <2>1. HeaderInv' /\ LoadedOnce'
    BY <1>1, <1>2, <1>7, Zenon DEF HeaderInv, LoadedOnce
  <2>2. ~\A i \in 1..Len(msg') : msg'[i].whole
    <3> DEFINE r == Row(FALSE)
    <3>0. r \in Rows /\ msg \in Seq(Rows) /\ msg' = Append(msg, r)
      BY <1>3, <1>4, <1>7, Zenon
    <3>1. Len(msg') = Len(msg) + 1 /\ msg'[Len(msg) + 1] = r
      <4> HIDE DEF r
      <4> QED  BY <3>0, AppendProperties
    <3>2. Len(msg) \in Nat
      BY <1>4, LenProperties, Zenon
    <3>3. Len(msg) + 1 \in 1..Len(msg')
      BY <3>1, <3>2
    <3> QED  BY <1>3, <3>1, <3>3, Zenon
  <2>3. OpenInv'
    BY <1>1, <1>2, <2>2, Zenon DEF OpenInv
  <2> QED  BY <1>5, <2>1, <2>3, Zenon
<1> QED  BY <1>6, <1>7, Zenon DEF WriteRow

\* Done ends the message of the current bulk copy; if the server loads it, it
\* loads the accepted rows.
LEMMA DoneRows ==
    ASSUME LoadInv, NEW b \in Bulks, NEW o \in Outcomes, NEW ran \in BOOLEAN,
           Done(b, o, ran)
    PROVE  RowsInv'
<1> USE DEF LoadInv, RowsInv
<1> USE DEF EndMessage
<1>1. b = cur /\ hdr[b] /\ cur # None /\ pc = "idle"
  BY Zenon DEF Done, Usable, TurnInv
<1>2. UNCHANGED <<hdr, accepted, dropped, cur, pc>> /\ srv' = None
  BY Zenon DEF Done
<1>3. /\ msg \in Seq(Rows) /\ accepted \in [Bulks -> Seq(Rows)]
      /\ loaded \in [Bulks -> Seq(Rows)]
  BY Zenon DEF Typed, ConnType, BulkType, ServerType
<1>4. CallInv' /\ TurnInv' /\ OpenInv' /\ OtherInv'
  BY <1>1, <1>2, Zenon DEF CallInv, TurnInv, OpenInv, OtherInv
<1>5. CASE ran
  <2>1. srv = cur /\ \A i \in 1..Len(msg) : msg[i].whole
    BY <1>1, <1>5, Zenon DEF Done, OtherInv
  <2>2. loaded[cur] = <<>> /\ msg = accepted[cur]
    BY <1>1, <2>1, Zenon DEF OpenInv
  <2>3. loaded' = [loaded EXCEPT ![cur] = accepted[cur]]
    BY <1>3, <1>5, <2>1, <2>2 DEF Done
  <2>4. loaded'[cur] = accepted[cur] /\ \A c \in Bulks \ {cur} : loaded'[c] = loaded[c]
    BY <1>1, <1>3, <2>3, Zenon
  <2>5. HeaderInv'
    BY <1>1, <1>2, <2>4, Zenon DEF HeaderInv
  <2>6. DoneIsComplete'
    BY <1>1, <1>2, <2>4, Zenon DEF DoneIsComplete, Done
  <2>7. LoadedOnce'
    <3> SUFFICES ASSUME NEW c \in Bulks  PROVE IsPrefix(loaded'[c], accepted[c])
      BY <1>2, Zenon DEF LoadedOnce
    <3>1. CASE c = cur
      <4>1. accepted[cur] \in Seq(Rows)
        BY <1>1, <1>3, Zenon
      <4> QED  BY <2>4, <3>1, <4>1, PrefixFacts
    <3>2. CASE c # cur
      BY <2>4, <3>2, Zenon DEF LoadedOnce
    <3> QED  BY <3>1, <3>2, Zenon
  <2> QED  BY <1>4, <2>5, <2>6, <2>7, Zenon
<1>6. CASE ~ran
  <2>1. UNCHANGED loaded /\ (done' = None \/ behind')
    BY <1>6, Zenon DEF Done, Answer
  <2> QED  BY <1>1, <1>2, <1>4, <2>1, Zenon DEF HeaderInv, DoneIsComplete, LoadedOnce
<1> QED  BY <1>5, <1>6, Zenon

\* The call has not sent the header yet.
Preparing(p) == p \in {"on", "select", "close", "off", "match", "insert"}

\* Every step keeps the invariant of the rows, for an application that ends
\* or gives up one bulk copy before it uses another.
LEMMA RowsStep ==
    ASSUME Exclusive, LoadInv, [Next]_vars  PROVE RowsInv'
<1>1. ASSUME NEW b \in Bulks, NEW r \in {"fits", "odd", "bad"}, AddRow(b, r)
      PROVE  RowsInv'
  BY <1>1, AddRowRows, Zenon
<1>2. ASSUME NEW o \in Outcomes, NEW ran \in BOOLEAN,
             FmtOnlyOn(o, ran) \/ SelectColumns(o, ran) \/ FmtOnlyOff(o, ran)
             \/ OtherRequest(o, ran)
      PROVE  RowsInv'
  <2>1. /\ UNCHANGED <<hdr, accepted, dropped, loaded, cur>>
        /\ done' \in {done, None}
    BY <1>2, Zenon DEF FmtOnlyOn, SelectColumns, FmtOnlyOff, OtherRequest, bulkVars, callVars
  <2>2. srv' = None \/ UNCHANGED <<srv, msg>>
    BY <1>2, Zenon DEF FmtOnlyOn, SelectColumns, FmtOnlyOff, OtherRequest, Request, bufVars
  <2>3. pc' = "idle" \/ (Preparing(pc) /\ Preparing(pc'))
    BY <1>2, Zenon DEF FmtOnlyOn, SelectColumns, FmtOnlyOff, OtherRequest, Preparing
  <2>4. /\ pc' # "idle" => pc # "idle"
        /\ pc' \in {"on", "select", "close", "off", "match", "insert"} => ~hdr[cur]
        /\ pc' \in {"meta", "row"} => hdr[cur]
    BY <2>3, Zenon DEF Preparing, LoadInv, RowsInv, HeaderInv
  <2>5. ~behind' => ~behind
    BY <1>2, ReplyKeeps, Zenon DEF FmtOnlyOn, SelectColumns, FmtOnlyOff, OtherRequest, Request
  <2> QED  BY <2>1, <2>2, <2>4, <2>5, QuietRows, Zenon
<1>3. ASSUME NEW o \in Outcomes, NEW ran \in BOOLEAN, InsertBulk(o, ran)
      PROVE  RowsInv'
  BY <1>3, InsertBulkRows, Zenon
<1>4. ASSUME NEW b \in Bulks, NEW o \in Outcomes, NEW ran \in BOOLEAN, Done(b, o, ran)
      PROVE  RowsInv'
  BY <1>4, DoneRows, Zenon
<1>5. CASE WriteRow
  BY <1>5, WriteRowRows, Zenon
<1>6. ASSUME \/ CloseColumns \/ WriteMetadata \/ RejectRow \/ Cancel
             \/ \E found \in 0..Columns : MatchColumns(found)
             \/ \E b \in Bulks : DoneWithoutRows(b)
             \/ UNCHANGED vars
      PROVE  RowsInv'
  <2> USE DEF CloseColumns, WriteMetadata, RejectRow, Cancel, MatchColumns,
              DoneWithoutRows, vars
  <2>1. /\ UNCHANGED <<hdr, accepted, dropped, loaded, cur>>
        /\ done' \in {done, None} /\ UNCHANGED <<srv, msg>>
    BY <1>6, Zenon DEF bulkVars, callVars, bufVars, srvVars
  <2>2. \/ pc' = "idle" \/ pc' = pc \/ (Preparing(pc) /\ Preparing(pc'))
        \/ (pc = "meta" /\ pc' = "row")
    BY <1>6, Zenon DEF Preparing
  <2>3. /\ pc' # "idle" => pc # "idle"
        /\ pc' \in {"on", "select", "close", "off", "match", "insert"} => ~hdr[cur]
        /\ pc' \in {"meta", "row"} => hdr[cur]
    BY <2>2, Zenon DEF Preparing, LoadInv, RowsInv, HeaderInv
  <2>4. ~behind' => ~behind
    <3>1. behind' = behind \/ behind' = TRUE
      BY <1>6, Zenon DEF Write, WriteFails, connVars
    <3> QED  BY <3>1, Zenon
  <2> QED  BY <2>1, <2>3, <2>4, QuietRows, Zenon
<1> QED  BY <1>1, <1>2, <1>3, <1>4, <1>5, <1>6 DEF Next

\* The invariant holds in every reachable state.
LEMMA LoadInvariant == ASSUME Exclusive  PROVE Spec => []LoadInv
<1>1. Init => LoadInv
  <2> SUFFICES ASSUME Init  PROVE LoadInv
    BY Zenon
  <2>1. Typed
    BY InitTyped, Zenon
  <2>2. CallInv /\ HeaderInv /\ TurnInv /\ OpenInv /\ OtherInv /\ DoneIsComplete
    BY Zenon DEF Init, CallInv, HeaderInv, TurnInv, OpenInv, OtherInv, DoneIsComplete
  <2>3. LoadedOnce
    BY <2>1, PrefixFacts, Zenon DEF Init, LoadedOnce, Typed, BulkType
  <2> QED  BY <2>1, <2>2, <2>3, Zenon DEF LoadInv, RowsInv
<1>2. LoadInv /\ [Next]_vars => LoadInv'
  BY TypeStep, RowsStep, Zenon DEF LoadInv, RowsInv, CallInv
<1> QED  BY <1>1, <1>2, PTL DEF Spec

\* When Done reports success the table has exactly the rows that AddRow
\* accepted, in order, unless an earlier reply of the connection was not read.
THEOREM DoneLoadsAll == ASSUME Exclusive  PROVE Spec => []DoneIsComplete
<1>1. LoadInv => DoneIsComplete
  BY Zenon DEF LoadInv, RowsInv
<1> QED  BY <1>1, LoadInvariant, PTL

\* The table never has a row that AddRow did not accept, a row twice, or a
\* row without the ones that were accepted before it, whatever Done reports.
THEOREM NothingLoadedTwice == ASSUME Exclusive  PROVE Spec => []LoadedOnce
<1>1. LoadInv => LoadedOnce
  BY Zenon DEF LoadInv, RowsInv
<1> QED  BY <1>1, LoadInvariant, PTL
=============================================================================
