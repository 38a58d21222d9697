------------------------------ MODULE Session ------------------------------
(***************************************************************************)
(* One connection of the driver: a caller (database/sql holds a connection *)
(* for one call at a time), the goroutine that parses the server's replies *)
(* (processSingleResponse), the bounded channel tokChan between them, and  *)
(* the cancellation protocol of nextToken: an ATTENTION packet, a bounded  *)
(* wait for the server's DONE_ATTN confirmation in the current reply, and  *)
(* a second reply read when the first one ended without it.                *)
(*                                                                         *)
(* Replies are produced when the client reads them: a token that sits in   *)
(* the network cannot be told from one that has not been sent.  owed is    *)
(* the queue of the messages the server still has to send: one "reply" per *)
(* request and one "ack" per attention.  A server that sees the attention  *)
(* before it ends the reply confirms it inside the reply; otherwise the    *)
(* confirmation is a message of its own.                                   *)
(***************************************************************************)
EXTENDS Integers, Sequences

CONSTANTS
    Cap,      \* capacity of tokChan (5 in startReading and nextToken)
    MaxReq,   \* bound: requests sent on the connection
    MaxToks   \* bound: tokens before the final one in a reply

ASSUME CapAssumption == Cap \in Nat \ {0}
ASSUME MaxReqAssumption == MaxReq \in Nat
ASSUME MaxToksAssumption == MaxToks \in Nat

VARIABLES
    req,       \* requests sent so far; the number of the current request
    mode,      \* the driver call that is running, or ran last
    pc,        \* where the calling goroutine is
    ctx,       \* the context of the call: "live", or why it is done
    good,      \* Conn.connectionGood
    old,       \* the call's tokChan is a closed and empty earlier channel
    nextCols,  \* Rows.nextCols # nil
    firstErr,  \* tokenProcessor.firstError, or closeErr of Rows.Close
    result,    \* what the last call returned
    owed,      \* messages the server has still to send
    net,       \* the transport: "up" or "down"
    rd,        \* the reader goroutine: "none", "read" or "close"
    budget,    \* tokens the reply may still hold before its final one
    chan,      \* tokens in the latest tokChan
    closed,    \* the latest tokChan is closed
    drainer,   \* a background goroutine ranges over the latest tokChan
    escaped    \* history: ways a good connection kept unread input

callVars == <<req, mode, pc, ctx, good, old, nextCols, firstErr, result>>
readVars == <<owed, net, rd, budget, chan, closed, drainer>>
vars == <<callVars, readVars, escaped>>

(***************************************************************************)
(* Tokens on tokChan carry the number of the request they answer.          *)
(* "info": a token that every caller skips (ORDER, RETURNSTATUS, a DONE or *)
(* DONEINPROC that announces more).  "errmore": a DONE with an error and   *)
(* more to come.  "scanerr": an output parameter that could not be         *)
(* scanned, after which the reader goes on.                                *)
(***************************************************************************)
NonFinal == {"cols", "row", "info", "errmore", "scanerr"}
Final == {"done", "errdone"}
ErrDone == {"errmore", "errdone"}
\* "attn": DONE with the doneAttn bit.  "srverr": ServerError, from a DONE
\* with doneSrvError.  "neterr": a failed read, as OpError or StreamError.
\* "rowerr": a row or a token that could not be decoded, as a plain error.
Fatal == {"srverr", "neterr", "rowerr"}
TokErr == Fatal \cup {"scanerr"}
Kind == NonFinal \cup Final \cup Fatal \cup {"attn"}
Token == [req : Nat, kind : Kind]

\* Errors nextToken makes itself: the context's, and a failed drain.
CtxErr == {"canceled", "deadline"}
\* The errors that checkBadConn takes for a broken connection.
\* context.DeadlineExceeded implements net.Error, context.Canceled does not.
BadErr == {"neterr", "srverr", "stream", "deadline"}

Holds(s, k) == \E i \in 1..Len(s) : s[i].kind = k

\* A failed read that its call has not seen.
NetErrQueued == Holds(chan, "neterr")

Message == [req : Nat, type : {"reply", "ack"}]
Reply(r) == [req |-> r, type |-> "reply"]
Ack(r) == [req |-> r, type |-> "ack"]

Flags == /\ good \in BOOLEAN /\ old \in BOOLEAN /\ nextCols \in BOOLEAN
         /\ firstErr \in BOOLEAN /\ closed \in BOOLEAN /\ drainer \in BOOLEAN

Shapes ==
    /\ req \in 0..MaxReq
    /\ mode \in {"none", "exec", "rollback", "query", "next", "close"}
    /\ pc \in {"free", "start", "poll", "wait", "drain", "start2", "drain2",
               "rows", "closed"}
    /\ ctx \in {"live"} \cup CtxErr
    /\ result \in {"none", "ok", "err"}
    /\ owed \in Seq(Message)
    /\ net \in {"up", "down"}
    /\ rd \in {"none", "read", "close"}
    /\ budget \in 0..MaxToks
    /\ chan \in Seq(Token) /\ Len(chan) <= Cap
    /\ escaped \subseteq {"close", "cut", "late"}

\* Every variable has its type; the channel never holds more than Cap tokens.
TypeOK == Flags /\ Shapes

Init ==
    /\ req = 0 /\ mode = "none" /\ pc = "free" /\ ctx = "live"
    /\ good = TRUE /\ old = FALSE /\ nextCols = FALSE
    /\ firstErr = FALSE /\ result = "none"
    /\ owed = <<>> /\ net = "up"
    /\ rd = "none" /\ budget = 0
    /\ chan = <<>> /\ closed = FALSE /\ drainer = FALSE
    /\ escaped = {}

-----------------------------------------------------------------------------
(* The reader goroutine.                                                    *)

\* processSingleResponse's send on tokChan waits for room.
Send(r, k) ==
    /\ Len(chan) < Cap
    /\ chan' = Append(chan, [req |-> r, kind |-> k])

\* A token of the reply that is not the last one.
ReadToken(k) ==
    /\ rd = "read" /\ net = "up" /\ budget > 0
    /\ owed # <<>> /\ Head(owed).type = "reply"
    /\ Send(Head(owed).req, k)
    /\ budget' = budget - 1
    /\ UNCHANGED <<callVars, owed, net, rd, closed, drainer, escaped>>

\* A DONE or DONEPROC without doneMore: the reader returns.
ReadDone(k) ==
    /\ rd = "read" /\ net = "up"
    /\ owed # <<>> /\ Head(owed).type = "reply"
    /\ Send(Head(owed).req, k)
    /\ owed' = Tail(owed) /\ rd' = "close"
    /\ UNCHANGED <<callVars, net, budget, closed, drainer, escaped>>

\* A DONE with doneSrvError, after which the server severs the connection.
ReadSrvError ==
    /\ rd = "read" /\ net = "up"
    /\ owed # <<>> /\ Head(owed).type = "reply"
    /\ Send(Head(owed).req, "srverr")
    /\ owed' = Tail(owed) /\ net' = "down" /\ rd' = "close"
    /\ UNCHANGED <<callVars, budget, closed, drainer, escaped>>

\* The confirmation of an attention, inside the reply it cut short or as a
\* message of its own.
ReadAttn ==
    /\ rd = "read" /\ net = "up" /\ owed # <<>>
    /\ Send(Head(owed).req, "attn")
    /\ \/ /\ Head(owed).type = "ack"
          /\ owed' = Tail(owed)
       \/ /\ Head(owed).type = "reply" /\ Len(owed) > 1
          /\ owed[2].type = "ack" /\ owed[2].req = owed[1].req
          /\ owed' = Tail(Tail(owed))
    /\ rd' = "close"
    /\ UNCHANGED <<callVars, net, budget, closed, drainer, escaped>>

\* BeginRead, or a read in the middle of the reply, fails.
ReadFails ==
    /\ rd = "read" /\ net = "down"
    /\ Send(req, "neterr")
    /\ rd' = "close"
    /\ UNCHANGED <<callVars, owed, net, budget, closed, drainer, escaped>>

\* A read exceeds the connection timeout: the transport is still usable and
\* the rest of the reply may come later.
ReadTimesOut ==
    /\ rd = "read" /\ net = "up"
    /\ Send(req, "neterr")
    /\ rd' = "close"
    /\ UNCHANGED <<callVars, owed, net, budget, closed, drainer, escaped>>

\* parseRow fails, or a parser panics with a plain error: the reader returns
\* in the middle of the reply.  The next BeginRead skips what is left of the
\* packet in the buffer, which may or may not be the whole rest.
RowFails ==
    /\ rd = "read" /\ net = "up"
    /\ owed # <<>> /\ Head(owed).type = "reply"
    /\ Send(Head(owed).req, "rowerr")
    /\ rd' = "close"
    /\ \/ owed' = Tail(owed) /\ UNCHANGED escaped
       \/ UNCHANGED owed /\ escaped' = escaped \cup {"cut"}
    /\ UNCHANGED <<callVars, net, budget, closed, drainer>>

\* Mutant of ReaderExit: the reader does not report its end after a failed read.
ReaderExitUnlessFailed ==
    /\ rd = "close" /\ ~NetErrQueued
    /\ rd' = "none" /\ closed' = TRUE
    /\ UNCHANGED <<callVars, owed, net, budget, chan, drainer, escaped>>

\* The deferred close(ch), then close(readDone).
ReaderExit ==
    /\ rd = "close"
    /\ rd' = "none" /\ closed' = TRUE
    /\ UNCHANGED <<callVars, owed, net, budget, chan, drainer, escaped>>

\* for range t.tokChan {} after a failed drain.
BackgroundDrain ==
    /\ drainer /\ chan # <<>>
    /\ chan' = Tail(chan)
    /\ UNCHANGED <<callVars, owed, net, rd, budget, closed, drainer, escaped>>

\* Mutant of StartResponseReader: it does not wait for the previous reader.
StartResponseReaderAtOnce ==
    /\ rd' = "read" /\ budget' = IF mode = "rollback" THEN 0 ELSE MaxToks
    /\ chan' = <<>> /\ closed' = FALSE /\ drainer' = FALSE
    /\ UNCHANGED <<owed, net>>

\* startResponseReader: wait for readDone, then launch a reader that writes
\* to a new channel.  The reply to a rollback is a DONE alone.
StartResponseReader ==
    /\ rd = "none"
    /\ rd' = "read" /\ budget' = IF mode = "rollback" THEN 0 ELSE MaxToks
    /\ chan' = <<>> /\ closed' = FALSE /\ drainer' = FALSE
    /\ UNCHANGED <<owed, net>>

-----------------------------------------------------------------------------
(* What the driver's calls do with the tokens and errors nextToken returns. *)

CheckBadConn(e) == good' = (good /\ e \notin BadErr)

Cancelled == IF ctx = "live" THEN "canceled" ELSE ctx

Outcome(failed) == IF failed THEN "err" ELSE "ok"

\* Rows.Close up to its first nextToken.
EnterClose ==
    /\ mode' = "close" /\ pc' = "poll" /\ ctx' = Cancelled
    /\ firstErr' = FALSE
    /\ UNCHANGED <<req, old, nextCols, result>>

\* Mutant of IterateResponse: it stops at the first token that ends a statement.
IterateResponseOneStatement(k) ==
    /\ mode \in {"exec", "rollback"}
    /\ IF k \in {"nil", "info"}
       THEN pc' = "free" /\ result' = Outcome(firstErr)
       ELSE pc' = "poll" /\ UNCHANGED result
    /\ firstErr' = (firstErr \/ k \in ErrDone)
    /\ UNCHANGED <<req, mode, ctx, good, old, nextCols>>

\* iterateResponse, for processExec and simpleProcessResp.
IterateResponse(k) ==
    /\ mode \in {"exec", "rollback"}
    /\ IF k = "nil" THEN pc' = "free" /\ result' = Outcome(firstErr)
                    ELSE pc' = "poll" /\ UNCHANGED result
    /\ firstErr' = (firstErr \/ k \in ErrDone)
    /\ UNCHANGED <<req, mode, ctx, good, old, nextCols>>

\* The loop of processQueryResponse: up to the first columns, or the end.
ProcessQueryResponse(k) ==
    /\ mode = "query"
    /\ \/ k \in {"nil", "cols"} /\ pc' = "rows" /\ UNCHANGED <<ctx, result>>
       \/ k \in ErrDone /\ pc' = "free" /\ ctx' = Cancelled /\ result' = "err"
       \/ /\ k \notin {"nil", "cols"} \cup ErrDone
          /\ pc' = "poll" /\ UNCHANGED <<ctx, result>>
    /\ UNCHANGED <<req, mode, good, old, nextCols, firstErr>>

\* Rows.Next; database/sql closes the rows at the end and on an error.
RowsNextToken(k) ==
    /\ mode = "next"
    /\ UNCHANGED good
    /\ \/ k \in {"nil"} \cup ErrDone /\ EnterClose
       \/ /\ k \notin {"nil"} \cup ErrDone
          /\ pc' = IF k \in {"row", "cols"} THEN "rows" ELSE "poll"
          /\ nextCols' = (nextCols \/ k = "cols")
          /\ UNCHANGED <<req, mode, ctx, old, firstErr, result>>

\* The loop of Rows.Close.
RowsCloseToken(k) ==
    /\ mode = "close"
    /\ IF k = "nil" THEN pc' = "free" /\ result' = Outcome(firstErr)
                    ELSE pc' = "poll" /\ UNCHANGED result
    /\ firstErr' = (firstErr \/ k \in ErrDone)
    /\ UNCHANGED <<req, mode, ctx, good, old, nextCols>>

\* nextToken returns an error.  Rows.Close returns it as it is, without
\* checkBadConn, unless it is the context's.
ReturnError(e) ==
    \/ /\ mode \in {"exec", "rollback", "query"}
       /\ CheckBadConn(e)
       /\ pc' = "free" /\ result' = "err"
       /\ ctx' = IF mode = "query" THEN Cancelled ELSE ctx
       /\ UNCHANGED <<req, mode, old, nextCols, firstErr, escaped>>
    \/ /\ mode = "next"
       /\ CheckBadConn(e)
       /\ EnterClose
       /\ UNCHANGED escaped
    \/ /\ mode = "close"
       /\ pc' = "free" /\ result' = Outcome(e \notin CtxErr \/ firstErr)
       /\ escaped' = escaped \cup
            {x \in {"close"} : good /\ e \in BadErr \ CtxErr}
       /\ UNCHANGED <<req, mode, ctx, good, old, nextCols, firstErr>>

ReturnToken(k) ==
    /\ \/ IterateResponse(k) \/ ProcessQueryResponse(k)
       \/ RowsNextToken(k) \/ RowsCloseToken(k)
    /\ UNCHANGED escaped

\* nextToken returns the channel's next token, an error among the tokens, or
\* nil when the channel is closed.
TakeToken ==
    \/ /\ ~old /\ chan # <<>>
       /\ chan' = Tail(chan)
       /\ LET k == Head(chan).kind
          IN  IF k \in TokErr THEN ReturnError(k) ELSE ReturnToken(k)
    \/ /\ old \/ (closed /\ chan = <<>>)
       /\ ReturnToken("nil")
       /\ UNCHANGED chan

-----------------------------------------------------------------------------
(* nextToken.                                                               *)

ReaderIdle == <<owed, net, rd, budget, closed, drainer>>

\* The first, non-blocking select: tokens go before cancellation.
NextTokenPoll ==
    /\ pc = "poll"
    /\ UNCHANGED ReaderIdle
    /\ \/ TakeToken
       \/ /\ ~old /\ chan = <<>> /\ ~closed
          /\ pc' = "wait"
          /\ UNCHANGED <<req, mode, ctx, good, old, nextCols, firstErr,
                         result, chan, escaped>>

\* The second select, with a token or the end of the reply ready.
NextTokenWait ==
    /\ pc = "wait"
    /\ UNCHANGED ReaderIdle
    /\ TakeToken

\* The second select, with the context done: a rollback (noAttn) just
\* returns; every other call sends an attention.
NextTokenCtxDone ==
    /\ pc = "wait" /\ ctx # "live"
    /\ \/ /\ mode = "rollback"
          /\ ReturnError(ctx)
          /\ UNCHANGED readVars
       \/ /\ mode # "rollback" /\ net = "down"
          /\ ReturnError("neterr")
          /\ UNCHANGED readVars
       \/ /\ mode # "rollback"
          /\ owed' = Append(owed, Ack(req))
          /\ pc' = "drain"
          /\ UNCHANGED <<req, mode, ctx, good, old, nextCols, firstErr,
                         result, escaped, net, rd, budget, chan,
                         closed, drainer>>

\* readCancelConfirmation takes a token, in the current or second response.
\* Errors end the drain; any other token but the confirmation is discarded.
DrainToken ==
    /\ pc \in {"drain", "drain2"} /\ chan # <<>>
    /\ chan' = Tail(chan)
    /\ UNCHANGED <<owed, net, rd, budget, closed>>
    /\ LET k == Head(chan).kind
       IN  \/ /\ k = "attn"
              /\ ReturnError(ctx)
              /\ UNCHANGED drainer
           \/ /\ k \in TokErr
              /\ ReturnError("stream")
              /\ drainer' = TRUE
           \/ /\ k \notin TokErr \cup {"attn"}
              /\ UNCHANGED <<req, mode, pc, ctx, good, old, nextCols,
                             firstErr, result, escaped, drainer>>

\* Mutant of DrainClosed: the end of the response is taken for the confirmation.
DrainClosedIsConfirmation ==
    /\ pc = "drain" /\ chan = <<>> /\ closed
    /\ ReturnError(ctx)
    /\ UNCHANGED readVars

\* The current response ended without the confirmation.
DrainClosed ==
    /\ pc = "drain" /\ chan = <<>> /\ closed
    /\ pc' = "start2" /\ old' = TRUE
    /\ UNCHANGED <<req, mode, ctx, good, nextCols, firstErr, result,
                   readVars, escaped>>

\* nextToken reads one more response, which must hold the confirmation.
SecondResponse ==
    /\ pc = "start2"
    /\ StartResponseReader
    /\ pc' = "drain2"
    /\ UNCHANGED <<req, mode, ctx, good, old, nextCols, firstErr, result,
                   escaped>>

\* Mutant of DrainFails: the drains have no timeout.
DrainFailsAtEndOnly ==
    /\ pc = "drain2" /\ chan = <<>> /\ closed
    /\ ReturnError("stream")
    /\ drainer' = TRUE
    /\ UNCHANGED <<owed, net, rd, budget, chan, closed>>

\* The drain's own timeout, or the end of the second response.
DrainFails ==
    /\ chan = <<>>
    /\ \/ pc \in {"drain", "drain2"} /\ ~closed
       \/ pc = "drain2" /\ closed
    /\ ReturnError("stream")
    /\ drainer' = TRUE
    /\ UNCHANGED <<owed, net, rd, budget, chan, closed>>

-----------------------------------------------------------------------------
(* The calls of database/sql and the environment.                           *)

\* Commit, begin, exec, Rollback and query: a request is written.  A failed
\* write marks the connection bad.
SendRequest(m, c) ==
    /\ pc = "free" /\ good /\ req < MaxReq
    /\ m = "rollback" \/ c = "live"
    /\ req' = req + 1 /\ mode' = m /\ ctx' = c
    /\ nextCols' = FALSE /\ firstErr' = FALSE
    /\ \/ /\ net = "down"
          /\ good' = FALSE /\ result' = "err"
          /\ UNCHANGED <<pc, owed>>
       \/ /\ pc' = "start" /\ result' = "none"
          /\ owed' = Append(owed, Reply(req + 1))
          /\ UNCHANGED good
    /\ UNCHANGED <<old, net, rd, budget, chan, closed, drainer, escaped>>

StartReading ==
    /\ pc = "start"
    /\ StartResponseReader
    /\ pc' = "poll" /\ old' = FALSE
    /\ escaped' = escaped \cup {x \in {"late"} : NetErrQueued}
    /\ UNCHANGED <<req, mode, ctx, good, nextCols, firstErr, result>>

\* Rows.Next; columns that were already read end the result set first.  (The
\* call on a bad connection does not happen: whatever marks the connection
\* bad during Rows.Next also makes database/sql close the rows.)
RowsNext ==
    /\ pc = "rows" /\ good /\ ~nextCols
    /\ mode' = "next" /\ pc' = "poll"
    /\ UNCHANGED <<req, ctx, good, old, nextCols, firstErr, result,
                   readVars, escaped>>

RowsNextResultSet ==
    /\ pc = "rows" /\ nextCols
    /\ nextCols' = FALSE
    /\ UNCHANGED <<req, mode, pc, ctx, good, old, firstErr, result,
                   readVars, escaped>>

RowsClose ==
    /\ pc = "rows"
    /\ EnterClose
    /\ UNCHANGED <<good, readVars, escaped>>

\* The application's context is cancelled or its deadline passes.
Cancel(e) ==
    /\ pc \notin {"free", "closed"} /\ ctx = "live"
    /\ ctx' = e
    /\ UNCHANGED <<req, mode, pc, good, old, nextCols, firstErr, result,
                   readVars, escaped>>

NetFails ==
    /\ net = "up"
    /\ net' = "down"
    /\ UNCHANGED <<callVars, owed, rd, budget, chan, closed, drainer, escaped>>

\* The pool drops the connection: always a bad one, a good one when it likes.
ConnClose ==
    /\ pc = "free"
    /\ pc' = "closed" /\ net' = "down"
    /\ UNCHANGED <<req, mode, ctx, good, old, nextCols, firstErr, result,
                   owed, rd, budget, chan, closed, drainer, escaped>>

-----------------------------------------------------------------------------
Reader ==
    \/ \E k \in NonFinal : ReadToken(k)
    \/ \E k \in Final : ReadDone(k)
    \/ ReadSrvError \/ ReadAttn \/ ReadFails \/ ReadTimesOut \/ RowFails
    \/ ReaderExit \/ BackgroundDrain

Caller ==
    \/ StartReading \/ NextTokenPoll \/ NextTokenWait \/ NextTokenCtxDone
    \/ DrainToken \/ DrainClosed \/ SecondResponse \/ DrainFails

Application ==
    \/ \E m \in {"exec", "rollback", "query"}, c \in {"live"} \cup CtxErr :
          SendRequest(m, c)
    \/ RowsNext \/ RowsNextResultSet \/ RowsClose
    \/ \E e \in CtxErr : Cancel(e)
    \/ ConnClose

Next == Reader \/ Caller \/ Application \/ NetFails

Spec == Init /\ [][Next]_vars

\* The goroutines of the driver are scheduled, and its timers fire.
ClientFairness ==
    /\ WF_vars(Caller) /\ WF_vars(ReaderExit)
    /\ WF_vars(BackgroundDrain) /\ WF_vars(ReadFails)

\* The server ends every reply it owes.
ServerFairness == WF_vars(ReadAttn \/ \E k \in Final : ReadDone(k))

ClientSpec == Spec /\ ClientFairness

-----------------------------------------------------------------------------
(* Properties.                                                              *)

\* The caller is between startReading and the end of the call.
Reading == pc \in {"poll", "wait", "drain", "start2", "drain2", "rows"}

AllOf(s, r) == \A i \in 1..Len(s) : s[i].req = r

\* Every token in a call's channel answers the call's own request, whatever
\* was cancelled, abandoned or timed out on the connection before (nextToken,
\* startResponseReader) - unless an earlier call left a good connection with
\* unread input, by one of the ways in escaped.
OwnTokensOnly == Reading /\ escaped = {} => AllOf(chan, req)

\* Nothing has gone wrong on the connection that the driver has not noticed.
Sound == good /\ escaped = {} /\ ~NetErrQueued

\* A connection that goes back to the pool as good owes its next user
\* nothing: no confirmation of an attention is outstanding, and at most one
\* reply, the last call's, which a still running reader is reading to its end.
PooledIsClean ==
    pc = "free" /\ Sound =>
        owed = IF rd = "read" THEN <<Reply(req)>> ELSE <<>>

\* A call that reports success has read its reply, and the confirmation of
\* its attention if it sent one, to the end: no reader is reading and nothing
\* can still arrive.  If the connection is then closed, no reader uses the
\* packet buffer that Conn.Close gives back to the pool of buffers.
SuccessIsComplete ==
    pc \in {"free", "closed"} /\ good /\ result = "ok" /\ escaped = {} =>
        rd # "read" /\ owed = <<>>

AttnQueued == Holds(chan, "attn")

\* What the server owes at every point of a call on a connection that is
\* sound so far: the argument by which cancellation keeps requests and
\* replies in step.  After an attention the current reply may hold the
\* confirmation, in which case nothing else is owed, or may end without it,
\* in which case exactly the confirmation is.
OwedInStep ==
    Sound =>
        /\ pc = "start" =>
             owed = IF rd = "read" THEN <<Reply(req - 1), Reply(req)>>
                                   ELSE <<Reply(req)>>
        /\ pc \in {"poll", "wait", "rows"} =>
             /\ owed = IF rd = "read" THEN <<Reply(req)>> ELSE <<>>
             /\ ~AttnQueued
        /\ pc = "drain" =>
             owed = IF rd = "read" THEN <<Reply(req), Ack(req)>>
                    ELSE IF AttnQueued THEN <<>> ELSE <<Ack(req)>>
        /\ pc = "start2" => owed = <<Ack(req)>>
        /\ pc = "drain2" => owed = IF rd = "read" THEN <<Ack(req)>> ELSE <<>>

\* The reader is stuck: it waits for room in a channel that nobody reads.
Stuck ==
    /\ rd = "read" /\ Len(chan) = Cap /\ ~drainer
    /\ pc \in {"start", "closed"}

\* A call whose context is done returns, even when the server has fallen
\* silent: nextToken's drains are bounded by their own timeouts.
CancelReturns ==
    ctx # "live" /\ pc \in {"poll", "wait", "drain", "start2", "drain2"}
        ~> pc \in {"free", "rows", "closed"}

\* If the server answers, startResponseReader's wait for the previous reader
\* ends, unless that reader is stuck on the channel of a call that returned
\* early.
WaitEndsOrStuck == ServerFairness => (pc = "start" ~> pc # "start" \/ Stuck)

\* Once the connection is closed the reader goroutine exits, the aim of the
\* background drains of nextToken, unless it is stuck.
ReaderExitsOrStuck == pc = "closed" ~> rd = "none" \/ Stuck

\* What the comment on cancelDrainTimeout says: when the drain fails for any
\* reason the connection is marked bad.
FailedDrainMarksBad ==
    [][(pc \in {"drain", "drain2"} /\ ~drainer /\ drainer') => ~good']_vars

-----------------------------------------------------------------------------
(* What the connection promises, module Exchange, and how its state is seen *)
(* here.                                                                    *)

Health == IF ~good THEN "bad" ELSE IF Sound THEN "sound" ELSE "adrift"

CallState ==
    IF pc = "free" THEN "idle" ELSE IF pc = "closed" THEN "gone" ELSE "busy"

Unread == IF Sound THEN {owed[i].req : i \in 1..Len(owed)} ELSE {}

Exchange == INSTANCE Exchange WITH
    n <- req, state <- CallState, health <- Health, unread <- Unread

\* The protocol of requests, replies, attentions and confirmations, with its
\* two goroutines, is a sequence of calls each of which reads its own input
\* to the end, or fails; input that a failed call leaves on a sound connection
\* is that of its own reply, and is read before the next call's.
IsExchange == Exchange!Spec
=============================================================================
