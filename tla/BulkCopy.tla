------------------------------ MODULE BulkCopy ------------------------------
(***************************************************************************)
(* Bulk copies on one connection: CreateBulk, AddRow, Done and the copyin  *)
(* statement around them.  The first AddRow asks the server for the        *)
(* table's columns (SET FMTONLY ON, an empty select, SET FMTONLY OFF),     *)
(* sends INSERT BULK and begins a bulk-load message; every row is appended *)
(* to that message in the connection's write buffer, and Done ends it.     *)
(* The message stays open between the calls, in a buffer that every other  *)
(* request on the connection begins anew.                                  *)
(*                                                                         *)
(* A request of the driver is one step here (Session has the steps of its  *)
(* reply).  The server is external: it executes a request, refuses it, or, *)
(* when the request is cancelled or the connection breaks, did or did not  *)
(* execute it.  It drops a client that starts another request inside a     *)
(* message, and refuses a message that is not what it waits for.  Once a   *)
(* reply has been left unread, by a cancellation that was not confirmed or *)
(* by one of Session's other ways, a later request may take it for its own.*)
(***************************************************************************)
EXTENDS Integers, Sequences, SequencesExt

CONSTANTS
    Bulks,    \* the bulk copies on the connection
    Exclusive,\* the application ends or gives up one before it uses another
    None,     \* no bulk copy
    Columns,  \* columns of each bulk copy
    MaxCalls  \* bound: calls

ASSUME BulksAssumption == None \notin Bulks
ASSUME ExclusiveAssumption == Exclusive \in BOOLEAN
ASSUME ColumnsAssumption == Columns \in Nat \ {0}
ASSUME MaxCallsAssumption == MaxCalls \in Nat

VARIABLES
    hdr,      \* Bulk.headerSent
    cols,     \* len(Bulk.bulkColumns)
    closed,   \* copyin.closed
    accepted, \* history: the rows whose AddRow returned nil
    dropped,  \* history: the bulk copies the application no longer uses
    calls,    \* calls so far; the number of the current call's row
    pc,       \* where the call is; "idle" between calls
    cur,      \* the bulk copy that is called
    row,      \* its row: "fits", has an "odd" number of values, is "bad"
    ctx,      \* "live" or "done"
    good,     \* Conn.connectionGood
    behind,   \* history: a reply was not read to its end; the driver does
              \* not know, and the replies it reads may be of earlier requests
    done,     \* the bulk copy whose Done has just succeeded
    typ,      \* header in the buffer: of the open "bulk" message, or of an
              \* "other" message that was ended, with the EOM bit still set
    msg,      \* the rows in the message begun last
    out,      \* a packet of that message has been flushed
    net,      \* the transport: "up" or "down"
    srv,      \* the bulk copy whose message the server waits for
    fmtonly,  \* FMTONLY is on in the server's session
    cut,      \* history: an attention of Rows.Close cut the columns batch
    loaded    \* the rows in the table of each bulk copy

bulkVars == <<hdr, cols, closed, accepted, dropped>>
callVars == <<calls, cur, row, ctx, done>>
connVars == <<good, net, behind>>
bufVars == <<typ, msg, out>>
srvVars == <<srv, fmtonly, cut, loaded>>
vars == <<bulkVars, callVars, pc, connVars, bufVars, srvVars>>

Rows == [of : Bulks, n : 0..MaxCalls, whole : BOOLEAN]

\* Every variable has its type.
TypeOK ==
    /\ hdr \in [Bulks -> BOOLEAN] /\ closed \in [Bulks -> BOOLEAN]
    /\ cols \in [Bulks -> Nat]
    /\ accepted \in [Bulks -> Seq(Rows)] /\ loaded \in [Bulks -> Seq(Rows)]
    /\ calls \in 0..MaxCalls /\ dropped \subseteq Bulks
    /\ pc \in {"idle", "on", "select", "close", "off", "match", "insert",
             "meta", "row"}
    /\ cur \in Bulks \cup {None} /\ done \in Bulks \cup {None}
    /\ srv \in Bulks \cup {None}
    /\ row \in {"fits", "odd", "bad"} /\ ctx \in {"live", "done"}
    /\ typ \in {"bulk", "other"} /\ msg \in Seq(Rows)
    /\ net \in {"up", "down"}
    /\ good \in BOOLEAN /\ behind \in BOOLEAN /\ out \in BOOLEAN
    /\ fmtonly \in BOOLEAN /\ cut \in BOOLEAN

Init ==
    /\ hdr = [b \in Bulks |-> FALSE] /\ closed = [b \in Bulks |-> FALSE]
    /\ cols = [b \in Bulks |-> 0]
    /\ accepted = [b \in Bulks |-> <<>>] /\ loaded = [b \in Bulks |-> <<>>]
    /\ calls = 0 /\ dropped = {} /\ pc = "idle" /\ cur = None /\ row = "fits" /\ ctx = "live"
    /\ good = TRUE /\ behind = FALSE /\ done = None /\ typ = "other" /\ msg = <<>> /\ out = FALSE
    /\ net = "up" /\ srv = None /\ fmtonly = FALSE /\ cut = FALSE

-----------------------------------------------------------------------------
(* A request and its reply (Stmt.exec, Stmt.queryContext).                  *)

Outcomes == {"ok", "refused", "cancelled", "broken", "badconn"}

\* The server hangs up on a request inside a message that was begun.
Transport == IF typ = "bulk" /\ out THEN "down" ELSE net

\* What the reader makes of the reply.  o: what became of the request, where
\* "refused" is an error of the server's or a reply that cannot be decoded;
\* ran: the server executed it.  On a connection that is behind the two are
\* not related.
Answer(o, ran, transport) ==
    \/ /\ o \in {"ok", "refused"} /\ transport = "up"
       /\ behind' \in {behind} \cup {x \in {TRUE} : o = "refused"}
       /\ behind' \/ ran = (o = "ok")
       /\ UNCHANGED <<good, net>>
    \/ /\ o = "cancelled" /\ ctx = "done" /\ transport = "up"
       /\ UNCHANGED connVars
    \/ /\ o = "broken" /\ (transport = "down" => ~ran)
       /\ good' = FALSE /\ net' \in {transport, "down"}
       /\ behind' \in {behind, TRUE}

Reply(o, ran) ==
    IF good THEN Answer(o, ran, Transport)
            ELSE o = "badconn" /\ ~ran /\ UNCHANGED connVars

\* BeginPacket takes the buffer from an open bulk message, and the server
\* gives the bulk load up.
Request(o, ran) ==
    /\ Reply(o, ran)
    /\ IF good THEN typ' = "other" /\ msg' = <<>> /\ out' = FALSE /\ srv' = None
               ELSE UNCHANGED <<bufVars, srv>>

-----------------------------------------------------------------------------
(* AddRow.                                                                  *)

\* copyin.Exec refuses a closed statement.
Usable(b) == pc = "idle" /\ calls < MaxCalls /\ ~closed[b] /\ b \notin dropped

\* copyin.Exec with values, or AddRow itself.
AddRow(b, r) ==
    /\ Usable(b)
    /\ calls' = calls + 1 /\ cur' = b /\ row' = r /\ done' = None
    /\ dropped' = dropped \cup {c \in {cur} \ {b, None} : Exclusive}
    /\ pc' = IF hdr[b] THEN "row" ELSE "on"
    /\ UNCHANGED <<hdr, cols, closed, accepted, ctx, connVars, bufVars, srvVars>>

\* getMetadata: SET FMTONLY ON.  Its failure is returned at once.
FmtOnlyOn(o, ran) ==
    /\ pc = "on" /\ Request(o, ran)
    /\ fmtonly' = (fmtonly \/ ran)
    /\ pc' = IF o = "ok" THEN "select" ELSE "idle"
    /\ UNCHANGED <<bulkVars, callVars, cut, loaded>>

\* Mutant of SelectColumns: a failed select is returned at once, too.
SelectColumnsNoReset(o, ran) ==
    /\ pc = "select" /\ Request(o, ran)
    /\ fmtonly' \in {fmtonly} \cup {x \in {FALSE} : ran /\ o # "ok"}
    /\ pc' = IF o = "ok" THEN "close" ELSE "idle"
    /\ UNCHANGED <<bulkVars, callVars, cut, loaded>>

\* "select * from t SET FMTONLY OFF", up to its columns.  The rest of the
\* batch runs until the rows are closed, or not when the request was cut.
SelectColumns(o, ran) ==
    /\ pc = "select" /\ Request(o, ran)
    /\ fmtonly' \in {fmtonly} \cup {x \in {FALSE} : ran /\ o # "ok"}
    /\ pc' = IF o = "ok" THEN "close" ELSE "off"
    /\ UNCHANGED <<bulkVars, callVars, cut, loaded>>

\* rows.Close reads the batch to its end, or cancels it with an attention
\* that may come before SET FMTONLY OFF has run, or fails.
CloseColumns ==
    /\ pc = "close"
    /\ \/ /\ net = "up" /\ pc' = "match"
          /\ fmtonly' = FALSE /\ UNCHANGED <<cut, behind>>
       \/ /\ net = "up" /\ pc' = "match"
          /\ cut' = TRUE /\ UNCHANGED <<fmtonly, behind>>
       \/ /\ pc' = "idle" /\ fmtonly' \in {fmtonly, FALSE}
          /\ cut' = TRUE /\ behind' = TRUE
    /\ UNCHANGED <<bulkVars, callVars, good, net, bufVars, srv, loaded>>

\* The deferred SET FMTONLY OFF of getMetadata, with the same context.
FmtOnlyOff(o, ran) ==
    /\ pc = "off" /\ pc' = "idle" /\ Request(o, ran)
    /\ o = "refused" => behind'
    /\ fmtonly' = (fmtonly /\ ~ran)
    /\ UNCHANGED <<bulkVars, callVars, cut, loaded>>

\* sendBulkCommand matches the columns by name and appends what it finds,
\* also when a column is missing.
MatchColumns(found) ==
    /\ pc = "match" /\ found \in 0..Columns
    /\ cols' = [cols EXCEPT ![cur] = @ + found]
    /\ pc' = IF found = Columns THEN "insert" ELSE "idle"
    /\ UNCHANGED <<hdr, closed, accepted, dropped, callVars, connVars, bufVars, srvVars>>

\* INSERT BULK; then the bulk-load message is begun.  The server refuses a
\* column that is named twice.
InsertBulk(o, ran) ==
    /\ pc = "insert"
    /\ Reply(o, ran) /\ (ran => cols[cur] = Columns)
    /\ IF good THEN /\ typ' = IF o = "ok" THEN "bulk" ELSE "other"
                    /\ msg' = <<>> /\ out' = FALSE
                    /\ srv' = IF ran THEN cur ELSE None
               ELSE UNCHANGED <<bufVars, srv>>
    /\ hdr' = [hdr EXCEPT ![cur] = o = "ok"]
    /\ pc' = IF o = "ok" THEN "meta" ELSE "idle"
    /\ UNCHANGED <<cols, closed, accepted, dropped, callVars, fmtonly, cut, loaded>>

\* tdsBuffer.Write fills the buffer and may have to flush packets: of the
\* open message, or, with the EOM bit of the message that was ended, as a
\* request of its own whose reply nobody reads.
Write ==
    /\ UNCHANGED <<good, net>>
    /\ \/ UNCHANGED <<out, behind>>
       \/ net = "up" /\ typ = "bulk" /\ out' = TRUE /\ UNCHANGED behind
       \/ net = "up" /\ typ = "other" /\ behind' = TRUE /\ UNCHANGED out

WriteFails == net' = "down" /\ UNCHANGED <<good, out, behind>>

\* The columns' metadata.  headerSent is set whether it could be sent or not.
WriteMetadata ==
    /\ pc = "meta"
    /\ \/ Write /\ pc' = "row"
       \/ WriteFails /\ pc' = "idle"
    /\ UNCHANGED <<bulkVars, callVars, typ, msg, srvVars>>

Row(whole) == [of |-> cur, n |-> calls, whole |-> whole]

Sendable == row = "fits" /\ cols[cur] = Columns

\* Mutant of RejectRow: the number of values is compared after the row was written.
RejectRowTooLate ==
    /\ pc = "row" /\ pc' = "idle" /\ ~Sendable
    /\ msg' = IF row = "odd" THEN Append(msg, Row(TRUE)) ELSE msg
    /\ UNCHANGED <<bulkVars, callVars, connVars, typ, out, srvVars>>

\* A row with the wrong number of values, or that makeRowData cannot encode.
RejectRow ==
    /\ pc = "row" /\ pc' = "idle" /\ ~Sendable
    /\ UNCHANGED <<bulkVars, callVars, connVars, bufVars, srvVars>>

\* makeRowData encodes the whole row before it is written.
WriteRow ==
    /\ pc = "row" /\ pc' = "idle" /\ Sendable
    /\ \/ /\ Write
          /\ msg' = Append(msg, Row(TRUE))
          /\ accepted' = [accepted EXCEPT ![cur] = Append(@, Row(TRUE))]
       \/ /\ WriteFails
          /\ msg' = Append(msg, Row(FALSE))
          /\ UNCHANGED accepted
    /\ UNCHANGED <<hdr, cols, closed, dropped, callVars, typ, srvVars>>

-----------------------------------------------------------------------------
(* Done and the other calls on the connection.                              *)

\* copyin is closed by its Done, a Bulk that is used directly is not.
Closing(b) == closed' \in {closed, [closed EXCEPT ![b] = TRUE]}

DoneWithoutRows(b) ==
    /\ Usable(b) /\ ~hdr[b]
    /\ calls' = calls + 1 /\ Closing(b) /\ done' = None
    /\ UNCHANGED <<hdr, cols, accepted, dropped, cur, row, ctx, pc, connVars, bufVars, srvVars>>

\* The message is ended and sent; the error of FinishPacket is not looked at,
\* the reply is.  Neither does Done look at connectionGood.
EndMessage(b, o, ran) ==
    /\ Usable(b) /\ hdr[b]
    /\ calls' = calls + 1 /\ Closing(b)
    /\ ran => /\ net = "up" /\ typ = "bulk" /\ srv # None
              /\ \A i \in 1..Len(msg) : msg[i].whole
    /\ Answer(o, ran, net)
    /\ loaded' = IF ran THEN [loaded EXCEPT ![srv] = @ \o msg] ELSE loaded
    /\ typ' = "other" /\ out' = FALSE /\ srv' = None
    /\ UNCHANGED <<hdr, cols, accepted, dropped, cur, row, ctx, pc, fmtonly, cut>>

\* Mutant of Done: the error of the reply is dropped.
DoneUnheard(b, o, ran) ==
    /\ EndMessage(b, o, ran)
    /\ done' = b /\ msg' = <<>>

\* Mutant of Done: the write buffer is given back to the pool.
DoneUnbuffered(b, o, ran) ==
    /\ EndMessage(b, o, ran)
    /\ done' = (IF o = "ok" THEN b ELSE None) /\ msg' = None

Done(b, o, ran) ==
    /\ EndMessage(b, o, ran)
    /\ done' = (IF o = "ok" THEN b ELSE None) /\ msg' = <<>>

\* Any other request on the connection between two calls: of the same
\* transaction, or the pool's SessionInitSQL.
OtherRequest(o, ran) ==
    /\ pc = "idle" /\ calls < MaxCalls /\ Request(o, ran)
    /\ calls' = calls + 1 /\ done' = None
    /\ UNCHANGED <<bulkVars, cur, row, ctx, pc, fmtonly, cut, loaded>>

Cancel ==
    /\ ctx = "live" /\ ctx' = "done"
    /\ UNCHANGED <<bulkVars, calls, cur, row, done, pc, connVars, bufVars, srvVars>>

Next ==
    \/ \E b \in Bulks, r \in {"fits", "odd", "bad"} : AddRow(b, r)
    \/ \E o \in Outcomes, ran \in BOOLEAN :
          \/ FmtOnlyOn(o, ran) \/ SelectColumns(o, ran) \/ FmtOnlyOff(o, ran)
          \/ InsertBulk(o, ran) \/ OtherRequest(o, ran)
          \/ \E b \in Bulks : Done(b, o, ran)
    \/ CloseColumns
    \/ \E found \in 0..Columns : MatchColumns(found)
    \/ WriteMetadata \/ RejectRow \/ WriteRow
    \/ \E b \in Bulks : DoneWithoutRows(b)
    \/ Cancel

Spec == Init /\ [][Next]_vars

-----------------------------------------------------------------------------
(* Properties.                                                              *)

\* When Done reports success the table has got exactly the rows that AddRow
\* accepted, in order: also after rows that could not be encoded, cancelled
\* calls, and other requests that took the buffer in between.  The one
\* exception is a connection with an unread reply, which Done, without a look
\* at connectionGood, may take for its own.
DoneIsComplete == done # None /\ ~behind => loaded[done] = accepted[done]

\* Whatever Done reports and however often it is called, a table never has a
\* row that AddRow did not accept for it, a row twice, or a row without those
\* that were accepted before it.
LoadedOnce == \A b \in Bulks : IsPrefix(loaded[b], accepted[b])

\* When AddRow has returned, the session is not left with FMTONLY on, which
\* would make every later query return nothing: the deferred SET FMTONLY OFF
\* of getMetadata covers every failure but that of the context, of the
\* connection or its replies, and of rows.Close, which may cut the batch that
\* turns it off.
FmtOnlyIsReset ==
    pc = "idle" /\ good /\ ~behind /\ ctx = "live" /\ ~cut => ~fmtonly
=============================================================================
