------------------------------ MODULE Messages ------------------------------
(***************************************************************************)
(* A query with a message queue (Rowsq): the reader goroutine puts every   *)
(* token on tokChan and announces it with a message on the application's   *)
(* queue; the application loops over the messages, calls Next for MsgNext  *)
(* and NextResultSet for MsgNextResultSet (as messages_example_test.go),   *)
(* and these take the tokens.  Both queues are bounded and nothing but the *)
(* order in which the reader fills them keeps messages and tokens in step. *)
(*                                                                         *)
(* The attention that nextToken sends when the context is done is one step *)
(* here, and so is the second response; Session has their steps.           *)
(***************************************************************************)
EXTENDS Integers, Sequences

CONSTANTS
    Cap,       \* capacity of tokChan (5)
    QueueCap,  \* capacity of the message queue (15, external)
    MaxTokens  \* bound: tokens of the server before the final one

ASSUME CapAssumption == Cap \in Nat \ {0}
ASSUME QueueCapAssumption == QueueCap \in Nat \ {0}
ASSUME MaxTokensAssumption == MaxTokens \in Nat

VARIABLES
    rd,          \* the reader goroutine: "begin", "read", "close" or "none"
    todo,        \* what it has still to send for the token it has read
    budget,      \* tokens the server may still send before the final one
    inRows,      \* the server is between the columns and their DONE
    sent,        \* history: the kinds of the tokens the server sent
    reply,       \* the reply: "open", read "whole", "cut" or "broken"
    chan,        \* tokChan
    closed,      \* it is closed
    drainer,     \* a background goroutine ranges over it
    queue,       \* the application's message queue
    appCtx,      \* the application's context is done
    ctx,         \* the reader's context, derived from it, is done
    app,         \* where the application is
    cols,        \* Rowsq.cols: 0 for nil, or the number of their token
    lastcols,    \* database/sql: the columns of the result set are known
    inResultSet, \* Rowsq.inResultSet
    requestDone, \* Rowsq.requestDone
    over,        \* database/sql has closed the Rows
    good,        \* Conn.connectionGood
    cur,         \* history: the columns the last MsgNext announced
    got,         \* history: the numbers of the rows the application got
    skipped,     \* history: it left a result set before its end
    failed       \* history: Next or NextResultSet returned an error

readVars == <<rd, todo, budget, inRows, sent, reply>>
chanVars == <<chan, closed, drainer>>
ctxVars == <<appCtx, ctx>>
rowsVars == <<cols, inResultSet, requestDone, good, failed>>
sqlVars == <<lastcols, over, cur, got, skipped>>
vars == <<readVars, chanVars, queue, ctxVars, app, rowsVars, sqlVars>>

\* A step of the reader's program for a token: on tokChan or on the queue.
\* n is the token's number in the reply, 0 for what is not about a token.
Tok(k, n) == [to |-> "chan", kind |-> k, n |-> n]
Msg(k, n) == [to |-> "queue", kind |-> k, n |-> n]

\* Every variable has its type, and no queue exceeds its capacity.
TypeOK ==
    /\ rd \in {"begin", "read", "close", "none"} /\ budget \in 0..MaxTokens
    /\ cols \in 0..MaxTokens /\ cur \in 0..MaxTokens
    /\ reply \in {"open", "whole", "cut", "broken"}
    /\ Len(chan) <= Cap /\ Len(queue) <= QueueCap
    /\ app \in {"loop", "columns", "next", "rows", "nextset", "close",
                "finish", "ended"}
    /\ {inRows, closed, drainer, appCtx, ctx, lastcols, inResultSet,
        requestDone, over, good, skipped, failed} \subseteq BOOLEAN

Init ==
    /\ rd = "begin" /\ todo = <<>> /\ budget = MaxTokens
    /\ inRows = FALSE /\ sent = <<>> /\ reply = "open"
    /\ chan = <<>> /\ closed = FALSE /\ drainer = FALSE /\ queue = <<>>
    /\ appCtx = FALSE /\ ctx = FALSE /\ app = "loop"
    /\ cols = 0 /\ lastcols = FALSE /\ inResultSet = FALSE
    /\ requestDone = FALSE /\ over = FALSE /\ good = TRUE
    /\ cur = 0 /\ got = <<>> /\ skipped = FALSE /\ failed = FALSE

-----------------------------------------------------------------------------
(* The reader goroutine (processSingleResponse).                            *)

Reading == rd \in {"begin", "read"} /\ todo = <<>>
Number == Len(sent) + 1
ReaderOnly == <<chanVars, queue, ctxVars, app, rowsVars, sqlVars>>

\* Mutant of ReadColumns: the message goes before the token it announces.
ReadColumnsMsgFirst ==
    /\ Reading /\ budget > 0 /\ ~inRows
    /\ rd' = "read" /\ budget' = budget - 1
    /\ inRows' = TRUE /\ sent' = Append(sent, "cols")
    /\ todo' = <<Msg("next", Number), Tok("cols", Number)>>
    /\ UNCHANGED <<reply, ReaderOnly>>

\* COLMETADATA: the columns, then MsgNext.
ReadColumns ==
    /\ Reading /\ budget > 0 /\ ~inRows
    /\ rd' = "read" /\ budget' = budget - 1
    /\ inRows' = TRUE /\ sent' = Append(sent, "cols")
    /\ todo' = <<Tok("cols", Number), Msg("next", Number)>>
    /\ UNCHANGED <<reply, ReaderOnly>>

\* ROW, NBCROW.
ReadRow ==
    /\ Reading /\ budget > 0 /\ inRows
    /\ budget' = budget - 1
    /\ todo' = <<Tok("row", Number)>> /\ sent' = Append(sent, "row")
    /\ UNCHANGED <<rd, inRows, reply, ReaderOnly>>

\* ERROR and INFO, which are only announced.
ReadNotice ==
    /\ Reading /\ budget > 0
    /\ rd' = "read" /\ budget' = budget - 1
    /\ todo' = <<Msg("notice", 0)>>
    /\ UNCHANGED <<inRows, sent, reply, ReaderOnly>>

EndKind(last) == IF last THEN "last" ELSE "done"

\* Mutant of ReadDone: the end of the reply is announced by one message.
ReadDoneOneMessage(last, count) ==
    /\ Reading /\ (last \/ budget > 0)
    /\ rd' = IF last THEN "close" ELSE "read"
    /\ reply' = IF last THEN "whole" ELSE reply
    /\ budget' = IF last THEN budget ELSE budget - 1
    /\ inRows' = FALSE /\ sent' = Append(sent, EndKind(last))
    /\ todo' = (IF count THEN <<Msg("notice", 0)>> ELSE <<>>)
                 \o <<Tok(EndKind(last), Number)>>
                 \o (IF last THEN <<>> ELSE <<Msg("nextset", Number)>>)
    /\ UNCHANGED ReaderOnly

\* Mutant of ReadDone: every DONE is announced twice.
ReadDoneTwoMessages(last, count) ==
    /\ Reading /\ (last \/ budget > 0)
    /\ rd' = IF last THEN "close" ELSE "read"
    /\ reply' = IF last THEN "whole" ELSE reply
    /\ budget' = IF last THEN budget ELSE budget - 1
    /\ inRows' = FALSE /\ sent' = Append(sent, EndKind(last))
    /\ todo' = (IF count THEN <<Msg("notice", 0)>> ELSE <<>>)
                 \o <<Tok(EndKind(last), Number), Msg("nextset", Number)>>
                 \o <<Msg("nextset", 0)>>
    /\ UNCHANGED ReaderOnly

\* DONE, DONEPROC and DONEINPROC: MsgRowsAffected if it has a count, the
\* token, MsgNextResultSet, and a second one after the last token.
ReadDone(last, count) ==
    /\ Reading /\ (last \/ budget > 0)
    /\ rd' = IF last THEN "close" ELSE "read"
    /\ reply' = IF last THEN "whole" ELSE reply
    /\ budget' = IF last THEN budget ELSE budget - 1
    /\ inRows' = FALSE /\ sent' = Append(sent, EndKind(last))
    /\ todo' = (IF count THEN <<Msg("notice", 0)>> ELSE <<>>)
                 \o <<Tok(EndKind(last), Number), Msg("nextset", Number)>>
                 \o (IF last THEN <<Msg("nextset", 0)>> ELSE <<>>)
    /\ UNCHANGED ReaderOnly

\* RETURNVALUE of an output parameter that cannot be scanned: the error goes
\* on tokChan, it is not announced, and the reader goes on.
ReadReturnValue ==
    /\ Reading /\ budget > 0 /\ ~inRows
    /\ rd' = "read" /\ budget' = budget - 1
    /\ todo' = <<Tok("scan", Number)>> /\ sent' = Append(sent, "scan")
    /\ UNCHANGED <<inRows, reply, ReaderOnly>>

\* The reader gives up.  A failed BeginRead and a row that cannot be decoded
\* are not announced; a panic is, as MsgError, and its error may be a plain one
\* (badStreamPanicf); doneSrvError is announced by MsgNextResultSet.
ReadFails ==
    /\ Reading /\ rd' = "close"
    /\ \/ rd = "begin" /\ todo' = <<Tok("broken", 0)>> /\ reply' = "broken"
       \/ inRows /\ todo' = <<Tok("plain", 0)>> /\ reply' = "cut"
       \/ todo' = <<Msg("notice", 0), Tok("broken", 0)>> /\ reply' = "broken"
       \/ todo' = <<Msg("notice", 0), Tok("plain", 0)>> /\ reply' = "cut"
       \/ todo' = <<Tok("broken", 0), Msg("nextset", 0)>> /\ reply' = "broken"
    /\ UNCHANGED <<budget, inRows, sent, ReaderOnly>>

\* ch <- token waits for room.
SendToken ==
    /\ todo # <<>> /\ Head(todo).to = "chan" /\ Len(chan) < Cap
    /\ chan' = Append(chan, Head(todo)) /\ todo' = Tail(todo)
    /\ UNCHANGED <<rd, budget, inRows, sent, reply, closed, drainer, queue,
                   ctxVars, app, rowsVars, sqlVars>>

\* ReturnMessageEnqueue waits for room or for the end of the context; its
\* error is ignored.
Enqueue ==
    /\ todo # <<>> /\ Head(todo).to = "queue" /\ todo' = Tail(todo)
    /\ \/ Len(queue) < QueueCap /\ queue' = Append(queue, Head(todo))
       \/ ctx /\ UNCHANGED queue
    /\ UNCHANGED <<rd, budget, inRows, sent, reply, chanVars, ctxVars, app,
                   rowsVars, sqlVars>>

ReaderExit ==
    /\ rd = "close" /\ todo = <<>>
    /\ rd' = "none" /\ closed' = TRUE
    /\ UNCHANGED <<todo, budget, inRows, sent, reply, chan, drainer, queue,
                   ctxVars, app, rowsVars, sqlVars>>

BackgroundDrain ==
    /\ drainer /\ chan # <<>> /\ chan' = Tail(chan)
    /\ UNCHANGED <<readVars, closed, drainer, queue, ctxVars, app, rowsVars,
                   sqlVars>>

-----------------------------------------------------------------------------
(* What Rowsq does with the tokens and errors of nextToken, and             *)
(* database/sql with what Rowsq returns.  Errors: "broken", for which       *)
(* checkBadConn marks the connection bad, "plain" and "scan", for which it  *)
(* does not, and "ctx", for which it does when the deadline has passed.     *)

Errors == {"broken", "plain", "scan", "ctx"}

CheckBadConn(e) ==
    /\ e = "broken" => good' = FALSE
    /\ e \in {"plain", "scan"} => UNCHANGED good
    /\ e = "ctx" => good' \in {good} \cup {x \in {FALSE} : appCtx}

\* database/sql closes the Rows: Rowsq.Close cancels the reader's context.
\* Then the application is back in its loop ("close") or out of it ("finish").
EnterClose(how) == app' = how /\ over' = TRUE /\ ctx' = TRUE

\* The loop of Columns, which ignores errors.
Columns(k, n) ==
    /\ app = "columns"
    /\ \/ k = "nil" /\ app' = "next" /\ lastcols' = TRUE /\ UNCHANGED <<cols, inResultSet>>
       \/ /\ k = "cols" /\ app' = "next" /\ lastcols' = TRUE
          /\ cols' = n /\ inResultSet' = TRUE
       \/ k \notin {"nil", "cols"} /\ UNCHANGED <<app, lastcols, cols, inResultSet>>
    /\ UNCHANGED <<ctxVars, requestDone, good, failed, over, cur, got, skipped>>

\* Mutant of NextToken: the end of the result set does not end Next.
NextTokenPastDone(k, n) ==
    /\ app = "next"
    /\ \/ /\ k = "row" /\ app' = "rows" /\ got' = Append(got, n)
          /\ UNCHANGED <<rowsVars, ctx, over>>
       \/ /\ k = "last" /\ requestDone' = TRUE
          /\ app' = "loop" /\ inResultSet' = FALSE
          /\ UNCHANGED <<cols, good, failed, got, ctx, over>>
       \/ k = "nil" /\ app' = "loop" /\ UNCHANGED <<rowsVars, got, ctx, over>>
       \/ /\ k \in Errors /\ CheckBadConn(k) /\ EnterClose("close") /\ failed' = TRUE
          /\ UNCHANGED <<cols, inResultSet, requestDone, got>>
       \/ k \in {"cols", "done"} /\ UNCHANGED <<app, rowsVars, got, ctx, over>>
    /\ UNCHANGED <<appCtx, lastcols, cur, skipped>>

\* The loop of Next: a row, or io.EOF at the DONE of a result set; the
\* application then waits for the next message.
NextToken(k, n) ==
    /\ app = "next"
    /\ \/ /\ k = "row" /\ app' = "rows" /\ got' = Append(got, n)
          /\ UNCHANGED <<rowsVars, ctx, over>>
       \/ /\ k \in {"done", "last"} /\ requestDone' = (requestDone \/ k = "last")
          /\ app' = IF inResultSet THEN "loop" ELSE app
          /\ inResultSet' = FALSE
          /\ UNCHANGED <<cols, good, failed, got, ctx, over>>
       \/ k = "nil" /\ app' = "loop" /\ UNCHANGED <<rowsVars, got, ctx, over>>
       \/ /\ k \in Errors /\ CheckBadConn(k) /\ EnterClose("close") /\ failed' = TRUE
          /\ UNCHANGED <<cols, inResultSet, requestDone, got>>
       \/ k = "cols" /\ UNCHANGED <<app, rowsVars, got, ctx, over>>
    /\ UNCHANGED <<appCtx, lastcols, cur, skipped>>

\* Mutant of NextResultSetToken: the end of the channel is a result set.
NextResultSetTokenNilAtEnd(k, n) ==
    /\ app = "nextset"
    /\ \/ /\ k \in {"cols", "done", "last", "nil"} /\ app' = "loop"
          /\ cols' = (IF k = "cols" THEN n ELSE 0) /\ inResultSet' = (k = "cols")
          /\ requestDone' = (requestDone \/ k = "last")
          /\ UNCHANGED <<good, failed, ctx, over>>
       \/ /\ k \in Errors /\ EnterClose("finish") /\ failed' = TRUE
          /\ UNCHANGED <<cols, inResultSet, requestDone, good>>
       \/ k = "row" /\ UNCHANGED <<app, rowsVars, ctx, over>>
    /\ UNCHANGED <<appCtx, lastcols, cur, got, skipped>>

\* The loop of NextResultSet, up to the next columns or DONE.  Any error
\* makes database/sql close the Rows and ends the application's loop.
NextResultSetToken(k, n) ==
    /\ app = "nextset"
    /\ \/ /\ k = "cols" /\ app' = "loop" /\ cols' = n /\ inResultSet' = TRUE
          /\ UNCHANGED <<requestDone, good, failed, ctx, over>>
       \/ /\ k \in {"done", "last"} /\ app' = "loop"
          /\ cols' = 0 /\ inResultSet' = FALSE
          /\ requestDone' = (requestDone \/ k = "last")
          /\ UNCHANGED <<good, failed, ctx, over>>
       \/ /\ k \in Errors \cup {"nil"} /\ EnterClose("finish")
          /\ failed' = (failed \/ k # "nil")
          /\ UNCHANGED <<cols, inResultSet, requestDone, good>>
       \/ k = "row" /\ UNCHANGED <<app, rowsVars, ctx, over>>
    /\ UNCHANGED <<appCtx, lastcols, cur, got, skipped>>

\* The loop of Close.
CloseToken(k) ==
    /\ app \in {"close", "finish"}
    /\ IF k \in Errors \cup {"nil"}
       THEN app' = IF app = "close" THEN "loop" ELSE "ended"
       ELSE UNCHANGED app
    /\ UNCHANGED <<ctxVars, rowsVars, sqlVars>>

Take(k, n) == \/ Columns(k, n) \/ NextToken(k, n)
              \/ NextResultSetToken(k, n) \/ CloseToken(k)

\* nextToken: the next token, or the end of the reply.
TakeToken ==
    /\ \/ chan # <<>> /\ chan' = Tail(chan) /\ Take(Head(chan).kind, Head(chan).n)
       \/ chan = <<>> /\ closed /\ UNCHANGED chan /\ Take("nil", 0)
    /\ UNCHANGED <<readVars, closed, drainer, queue>>

Failing == \E i \in 1..Len(todo) : todo[i].kind \in {"broken", "plain", "scan"}

\* nextToken with its context done: the attention is confirmed and what is
\* left of the reply has been read, or the drain fails.
Attention ==
    /\ ctx /\ chan = <<>> /\ ~closed
    /\ \/ /\ ~Failing /\ Take("ctx", 0)
          /\ rd' = "none" /\ todo' = <<>> /\ closed' = TRUE
          /\ reply' = IF reply = "open" THEN "whole" ELSE reply
          /\ UNCHANGED <<budget, inRows, sent, chan, drainer>>
       \/ /\ Take("broken", 0) /\ drainer' = TRUE
          /\ UNCHANGED <<readVars, chan, closed>>
    /\ UNCHANGED queue

-----------------------------------------------------------------------------
(* The application's loop.                                                  *)

Calls == <<readVars, chanVars, appCtx>>

\* rows.Next: driver.ErrBadConn on a bad connection.
CallNext(first) ==
    \/ ~good /\ EnterClose("close") /\ UNCHANGED lastcols
    \/ /\ good /\ app' = first /\ lastcols' = (lastcols \/ first = "next")
       /\ UNCHANGED <<ctx, over>>

\* MsgNext; rows.Next asks for the columns of a new result set first.
HandleNext ==
    /\ app = "loop" /\ queue # <<>> /\ Head(queue).kind = "next"
    /\ queue' = Tail(queue) /\ cur' = Head(queue).n
    /\ IF over THEN UNCHANGED <<app, lastcols, ctx, over>>
               ELSE CallNext(IF lastcols \/ cols # 0 THEN "next" ELSE "columns")
    /\ UNCHANGED <<Calls, rowsVars, got, skipped>>

HandleNotice ==
    /\ app = "loop" /\ queue # <<>> /\ Head(queue).kind = "notice"
    /\ queue' = Tail(queue)
    /\ UNCHANGED <<Calls, ctx, app, rowsVars, sqlVars>>

\* MsgNextResultSet, which the queue also returns when the application's
\* context is done.  NextResultSet is false on closed Rows, io.EOF once the
\* request is done.
HandleNextResultSet ==
    /\ app = "loop"
    /\ \/ queue # <<>> /\ Head(queue).kind = "nextset" /\ queue' = Tail(queue)
       \/ appCtx /\ UNCHANGED queue
    /\ IF over THEN app' = "ended" /\ UNCHANGED <<lastcols, ctx, over>>
       ELSE /\ lastcols' = FALSE
            /\ IF requestDone THEN EnterClose("finish")
               ELSE app' = "nextset" /\ UNCHANGED <<ctx, over>>
    /\ UNCHANGED <<Calls, rowsVars, cur, got, skipped>>

\* After a row: the next one, or on to the next message.
AfterRow ==
    /\ app = "rows"
    /\ \/ CallNext("next") /\ UNCHANGED skipped
       \/ app' = "loop" /\ skipped' = TRUE /\ UNCHANGED <<lastcols, ctx, over>>
    /\ UNCHANGED <<Calls, queue, rowsVars, cur, got>>

Cancel ==
    /\ app # "ended" /\ ~appCtx
    /\ appCtx' = TRUE /\ ctx' = TRUE
    /\ UNCHANGED <<readVars, chanVars, queue, app, rowsVars, sqlVars>>

\* database/sql closes the Rows of a context that is done.
SqlCloses ==
    /\ app \in {"loop", "rows"} /\ appCtx /\ ~over
    /\ EnterClose("close")
    /\ UNCHANGED <<Calls, queue, rowsVars, lastcols, cur, got, skipped>>

-----------------------------------------------------------------------------
Server ==
    \/ ReadColumns \/ ReadRow \/ ReadNotice \/ ReadReturnValue \/ ReadFails
    \/ \E last, count \in BOOLEAN : ReadDone(last, count)

Reader == SendToken \/ Enqueue \/ ReaderExit \/ BackgroundDrain

Application ==
    \/ TakeToken \/ Attention \/ HandleNext \/ HandleNotice
    \/ HandleNextResultSet \/ AfterRow

Next == Server \/ Reader \/ Application \/ Cancel \/ SqlCloses

Spec == Init /\ [][Next]_vars

\* The reader and the application's goroutine are scheduled, and drains time
\* out.
FairSpec == Spec /\ WF_vars(Reader) /\ WF_vars(Application)

\* The server ends its reply, or the read of it fails.
ServerFairness == WF_vars(ReadFails \/ \E count \in BOOLEAN : ReadDone(TRUE, count))

-----------------------------------------------------------------------------
(* Properties.                                                              *)

\* The rows that Next returns for a MsgNext are the rows that follow the
\* columns the message announced: tokens and messages stay in step, also when
\* the application leaves a result set before its end.  (A context that is
\* done makes messages of its own.)
RowsOfMessage ==
    app = "rows" /\ ~appCtx =>
        LET row == got[Len(got)]
        IN  /\ cur < row /\ sent[cur] = "cols"
            /\ \A i \in cur+1..row : sent[i] = "row"

\* An application whose loop ended by itself and to which Next and
\* NextResultSet returned no error has had the whole reply: no failure of the
\* reader was dropped on the way, by Columns for one.  If it left no result set
\* early it has seen every row the server sent, once and in order.
AllRowsSeen ==
    app = "ended" /\ ~appCtx /\ ~failed =>
        /\ reply = "whole"
        /\ ~skipped =>
              /\ {got[i] : i \in 1..Len(got)} = {i \in 1..Len(sent) : sent[i] = "row"}
              /\ \A i, j \in 1..Len(got) : i < j => got[i] < got[j]

\* Columns, which ignores the errors of nextToken and would loop on them, is
\* only called when the columns are in the channel, while the context is live.
ColumnsAreThere ==
    app = "columns" /\ ~appCtx => \E i \in 1..Len(chan) : chan[i].kind = "cols"

\* The reader waits for room in the queue and the application for a token.
QueueFull ==
    /\ todo # <<>> /\ Head(todo).to = "queue" /\ Len(queue) = QueueCap /\ ~ctx
    /\ app \in {"next", "nextset"} /\ chan = <<>>

\* The reader waits for room among the rows of a result set that the
\* application has left, and the application for a message.
RowsLeft ==
    /\ todo # <<>> /\ Head(todo).to = "chan" /\ Len(chan) = Cap /\ skipped
    /\ app = "loop" /\ queue = <<>>

\* The reader waits for room among errors of output parameters, which are not
\* announced, and the application for a message.
ErrorsLeft ==
    /\ todo # <<>> /\ Head(todo).to = "chan" /\ Len(chan) = Cap
    /\ app = "loop" /\ queue = <<>> /\ \A i \in 1..Cap : chan[i].kind = "scan"

\* The reader failed and told nobody who is waiting for a message.
Silent == app = "loop" /\ queue = <<>> /\ rd = "none" /\ reply # "whole"

\* The application's loop ends when the reply does: the two queues do not
\* wait for each other, except when more messages than the queue holds come
\* between two tokens, when the application leaves a result set, or when more
\* output parameters cannot be scanned than the channel holds, and the loop is
\* not left waiting for a message, except when the reader failed without one.
LoopEnds ==
    ServerFairness =>
        <>(app = "ended" \/ QueueFull \/ RowsLeft \/ ErrorsLeft \/ Silent)

\* Columns was called for a stale message and repeats attentions that a silent
\* server does not confirm.
Repeating == app = "columns" /\ drainer

\* A loop whose context is done ends, whatever was in the two queues and also
\* when the server is silent, since the drain times out.  Only Columns may go
\* on.
CancelEnds == appCtx ~> app = "ended" \/ Repeating
=============================================================================
