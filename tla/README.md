# TLA+ models of go-mssqldb

Models of the SQL Server driver in `src/`, model-checked with TLC and, where it
matters most, proved with TLAPS. `PROJECT.json` holds the same information in a
form for tools: every definition with the lines it translates (`map`), every TLC
run, every mutant, every hazard with the property that covers it.

## 1. The system

A connection (`Conn`, mssql.go) is used by one caller at a time: database/sql
sees to that. A request is written into the connection's packet buffer (buf.go).
The reply is a stream of tokens that a goroutine of its own,
`processSingleResponse` (token.go), reads from the same connection and sends on
`tokChan`, a channel of five tokens. The caller takes tokens with `nextToken`,
which also watches the context of the call: when it is done it sends an
ATTENTION packet and waits for the server's confirmation.

| component | state | operations | what makes it hard |
|---|---|---|---|
| response reader and cancellation (token.go, mssql.go) | replies owed by the server, the channel, the reader goroutine (`readDone`), `connectionGood` | exec, begin, Commit, Rollback, query, Rows.Next, NextResultSet, Close, Conn.Close; nextToken, readCancelConfirmation, startResponseReader | the reader, the caller, the context and the server interleave freely; readers outlive their calls; the confirmation of a cancellation may come in two places |
| transactions and session reset (mssql.go, mssql_go110.go, token.go) | `inTransaction`, `sess.tranid`, `resetSession`; the session and the transaction at the server | begin, Commit, Rollback, exec, query, ResetSession, IsValid, processEnvChg | the server ends transactions on its own; the id is followed by another goroutine; calls are abandoned before their reply; the next user inherits the session |
| packet buffer (buf.go) | write and read positions, sequence number, packet size, the pooled array | BeginPacket, Write, FinishPacket, BeginRead, Read | size changes during login, wrap of the sequence number, sharing of the array |
| login and routing (tds.go, session.go, mssql.go) | parameters, sockets, transport of the buffer, encryption agreed, channel binding | Connect, Driver.connect, connect, prelogin, sendLogin, the login loop, failover | many early returns, a loop through routing that keeps its variables, SSPI and federated exchanges |
| TLS handshake over TDS (net.go) | pending packet, wrapped transport, the hook `afterFirst` | Read, Write, FinishPacket | the transport is replaced between two packets |
| dialling (protocol.go) | goroutines, two channels | DialSqlConnection | first success wins, the others must be closed |
| message-queue rows (mssql.go) | `requestDone`, `inResultSet`, the sqlexp queue | Rowsq.Columns, Next, NextResultSet, Close | two queues in step, one of them bounded |
| bulk copy (bulkcopy.go, bulkcopy_sql.go) | an open bulk message in the shared buffer, `headerSent`, FMTONLY at the server | CreateBulk, AddRow, Done, copyin | a message stays open between calls, and six requests of one AddRow can each fail |
| key cache (aecmk/keyprovider.go) | map of decrypted keys with expiry | GetDecryptedKey | the mutex is released during decryption |
| batch splitting (batch/batch.go) | the lexer's positions and escapes | Split | every construct may end the script |
| pure code (types.go, querytext, quoter, msdsn, decimal) | none | parsers and encoders | boundaries |

Session and Transaction are models of the same connection at two levels: Session
follows the tokens of replies and abstracts what the requests are for;
Transaction follows what requests and replies say about the transaction. It
takes from Session that messages are read in order, each by one reader, and the
ways in which a call can leave part of its reply unread: a Rollback whose
context is done, a return at an error, a reply that cannot be decoded, a drain
that fails in Rows.Close, and a read that times out late. Messages is the same
connection again, for a query whose reply is announced on a second queue: it has
the attention of Session as one step and adds the application's loop. BulkCopy
has whole requests as steps, with the outcomes that Session allows a call, and
adds the write buffer that stays open between them. Login comes before all of
these and hands over the connection; the socket it dials comes from Dial.
CekCache is shared by all connections, and TdsBuffer is the layer under the
messages of Session. Batch stands alone.

Exchange is the abstract specification of a connection: what Session promises to
the layers above it, without goroutines, channels and attentions.

## 2. Modules

| module | models |
|---|---|
| `Exchange` | what a connection promises: one call at a time, each reads its own input or fails |
| `Session` | the caller, the reader goroutine, the channel, cancellation, failures; implements Exchange |
| `MCSession` | Session for TLC |
| `SessionProofs` | theorems about Session, for all values of its constants, and the refinement |
| `Transaction` | transactions, session reset and the pool on one connection |
| `MCTransaction` | Transaction bounded for TLC |
| `TransactionProofs` | theorems about Transaction, for all values of its constants |
| `Dial` | DialSqlConnection with its goroutines |
| `CekCache`, `MCCekCache` | the cache of decrypted column encryption keys; bounded for TLC |
| `DialCacheProofs` | theorems about Dial, and about CekCache |
| `TdsBuffer`, `TdsBufferProofs` | the packet buffer, a writer and a reader; theorems |
| `Login`, `MCLogin`, `LoginProofs` | opening a connection, with the TLS handshake, fail-over and routing; the connection strings for TLC; theorems |
| `Messages`, `MessagesProofs` | Rowsq, the reader's two queues and the application's loop; theorems |
| `BulkCopy`, `BulkCopyProofs` | bulk copies on one connection; theorems |
| `Batch`, `BatchProofs` | batch.Split; theorems |

### Session

`owed` is the queue of messages the server has still to send: one `reply` per
request, one `ack` per attention. Tokens appear when the client reads them, as a
token in the network cannot be told from one not yet sent. A token keeps the
number of the request it answers and a kind, which is what the callers branch
on. `rd` is the reader goroutine: `read` inside `processSingleResponse`, `close`
between its return and `close(readDone)`, `none` after. `pc` is the caller:
`start` in `startResponseReader` (waiting for `readDone`), `poll` and `wait` the
two selects of `nextToken`, `drain` and `drain2` in `readCancelConfirmation` for
the current and the second response, `start2` between them, `rows` when the
application holds open `Rows`, `free` between calls, `closed` after Conn.Close.
`old` records that `nextToken` has a value receiver: the channel of the second
response is not the one a later `nextToken` of the same call reads.

Begin, Commit and Exec are one mode (`exec`): they read to the end of the reply
with `iterateResponse`. Rollback differs by `noAttn`. The close that
database/sql does after an error or the end of the rows is part of the action
(`EnterClose`).

One variable is history: `escaped`, the three ways in which the code lets a good
connection keep unread input: `close` (a drain fails inside Rows.Close), `cut`
(a row that cannot be decoded ends the reader in mid-reply), `late` (a read
timed out after its call had returned). The safety properties promise nothing on
a connection on which one of these has happened; each is a hazard of its own in
`PROJECT.json`.

Timeouts are steps that may happen whenever the code waits (`DrainFails`,
`ReadTimesOut`), whatever their length.

### Exchange

`n` counts requests, `state` says whether a call is running, `unread` holds the
requests for which the server's input is not read to its end, and `health` is
`sound`, `adrift` (good for the driver, but its input is lost track of) or
`bad`. Under the refinement mapping in Session, `unread` is what the server owes
by request number, and `adrift` are the ways in `escaped` and a read error that
is still in the channel. A call on a sound connection can return success only
with nothing unread, and an error with at most its own reply unread; input is
read in the order of the requests. What Session adds is how this comes about.

### Transaction

`inTx`, `tranid` and `reset` are the fields of the code. `tx` is the Tx that the
user holds through database/sql. A request carries the header's transaction and
the reset bit; a reply (`Answer`) what it announces about the transaction and
whether it reports an error. Messages carry no numbers: a reader reads the next
one of the stream, whichever request it answers. It applies the announcement
(`ProcessEnvChg`) and then ends the message (`EndReply`, or `EndAbandoned` when
its call has returned; `busy` says that such a reader still runs, and the next
call waits for it). Calls that find the transaction gone are `Refuse`. The server
is external and modelled from how the driver uses it: a reset rolls the session's
transaction back; a header that names another transaction than the session's is
refused, and one that names the transaction just rolled back by the reset may be
refused or not; an attention is confirmed in a message of its own or within the
reply (`ServeAttention`).

Not every failure marks the connection bad. `Fail` is one that checkBadConn sees.
`RollbackAbandoned` and `ReturnsEarly` leave a reader that goes on.
`Undecodable`, `StopAbandoned` and `CloseFails` leave a good connection on which
part of a reply was never read or a confirmation is still to come; the history
`behind` is true from then on, and `CancelBehind` is a call on such a connection
that takes an earlier confirmation for its own.

### Dial

`at[ip]` says where the dial of an address, and then its connection, is:
running, in `connChan` or `errChan`, with the caller, received or closed. `i` is
the loop variable of `wait_loop`, and `n` the count of the goroutine that closes
the other connections. The addresses in turn (`Try`) and all at once
(`StartAll`) are a free choice, as MultiSubnetFailover is.

### CekCache

GetDecryptedKey is three steps of a caller: `LookUp` (up to the first Unlock),
`Decrypt` (outside the mutex, to the computation of the expiry) and `Store`. The
clock ticks in between. `PathOf` is a constant, the master key of each column
key. Two variables are history: `since`, when the provider gave a caller its key,
which goes into the entry with it, and `answer`, what the last call returned. The
two small models Dial and CekCache share the module of their proofs, and so
CekCache's own definitions carry its name (`CacheInit`, `CacheNext`,
`CacheSpec`).

### TdsBuffer

One tdsBuffer writes and another reads what it wrote. Bytes are numbered, and a
packet holds an interval of them; `written` and `got` are the numbers of the
last byte written and delivered. `Copy` is one round of the loop in Write and
`ReadMore` one Read of io.ReadFull, so that the other side runs in between. The
size changes (`Resize`) when a message that announces it has arrived and nothing
was sent after it. Of the status byte only the end-of-message bit is modelled:
readNextPacket takes any non-zero status for it, which is right for replies, and
the reset bit of requests is read by the server alone.

### Login

`pc` is where connect is, and every operation that can fail has a failing
alternative (`StepFails`). Encryption depends on three things that connect
replaces on its way, and these are the state: `transport` (what the packet
buffer writes to), `pass` (what the TLS connection writes to: tlsHandshakeConn,
which wraps its records in PRELOGIN packets, or the socket) and `hook`
(`afterFirst`, which takes the buffer back to the socket after one packet).
`sent` is the history of the packets of the current socket and of how each went
out. `p` is the copy of the parameters that routing changes; `attempt` and
`hops` count what Driver.connect and the `goto initiate_connection` repeat.

crypto/tls is external: a handshake is a list of its Write and Read calls
(`Scripts`), and tlsHandshakeConn is modelled call by call, with `pending` for
packetPending and `cont` for continueRead. The server is external and may answer
anything at each point. Names, SPNs and instances are reduced to the server they
belong to, so that a stale one can be told from a current one. With
encrypt=disable there is no TLSConfig: a server that asks for TLS all the same is
checked against the host that is dialled (`CheckedName`).

### Messages

The reader's program for one token is the list `todo` of what it sends, in
order, to `tokChan` and to the application's queue; each send is a step that may
have to wait. Rowsq's loops (`Columns`, `NextToken`, `NextResultSetToken`,
`CloseToken`) take one token per step. The queue of sqlexp, database/sql and the
application are external: the queue is bounded and gives up when its context is
done, database/sql closes the rows after an error, and the application's loop is
that of messages_example_test.go, except that it may leave a result set before
its end. The cancellation of nextToken is one step (`Attention`); Session has
its parts. `sent` is the list of the kinds of the tokens the server has sent.
Tokens and messages carry the number of the token they are about, its place in
`sent` (0 when there is none), so that a row taken under the wrong message can be
told from a right one. `got` has the numbers of the rows the application got,
`cols` that of the columns Rowsq holds and `cur` that of the columns it announced
last. `cur`, `got`, `sent`, `skipped` and `failed` are history.

The reader can fail (`ReadFails`) with an error that marks the connection or with
one that does not (a row that cannot be decoded, a panic with a plain error), and
with or without a message for the queue. An output parameter that
cannot be scanned (`ReadReturnValue`) puts an error on the channel that no
message announces, and the reader goes on. ORDER and RETURNSTATUS tokens are left
out: every loop skips them; like the parameters they take room in the channel.

### BulkCopy

A row is a number with the bulk copy it was given to, and `whole` if all of it
reached the buffer. `typ`, `msg` and `out` are what the write buffer holds: the
kind of the message begun last, its rows, and whether a packet of it has been
flushed. The requests of the first AddRow are steps of their own, each with
every outcome that Session allows a call, and every other request on the
connection may come between two calls. The server is external: `srv` is the bulk
load it waits for, and it drops a client that begins another request inside a
message. `Exclusive` is what the application promises: it ends or gives up one
bulk copy before it uses another.

Done neither looks at connectionGood nor can it tell its reply from another one.
The history `behind` says that a call left a reply or a confirmation unread; what
a call reads from then on (`Answer`) may be that one, whatever became of its own
request. A row that overflows the packet
while the buffer is in another request's message is flushed as a request of its
own, with the end-of-message bit of that one, and its reply is never read
(`Write`).

### Batch

One action per state function of the lexer, with its indices from zero. A script
is a sequence of symbols of which `GO`, `--`, `/*` and `*/` are one each, so that
all scripts of a given length can be enumerated; a separator of two characters
and one of one symbol differ in nothing but the distance they advance. A count is
made of the digits 0 and 2, and `MaxInt` stands for the largest int64, beyond
which ParseInt fails and the line is text; an escaped newline is `nl` or `cr nl`.
A batch is the set of the indices of its symbols, which is its text, as the lexer
takes symbols in order and never one twice. `cuts` is the history of what
AddCurrent took and how many times. The reference definition is `Mode`, which
reads the script once, from left to right, without splitting it.

## 3. Runs

| run | shows |
|---|---|
| `session` | three requests, up to two tokens before the end of each reply, a channel of one: `OwnTokensOnly`, `SuccessIsComplete`, the refinement `IsExchange`; under fairness of the driver's goroutines and timers alone `CancelReturns` and `ReaderExitsOrStuck`; if the server answers, `WaitEndsOrStuck` |
| `session_failed_drain` | violation: a drain that fails in Rows.Close does not mark the connection bad |
| `transaction` | two users, two transactions, four requests, batches with COMMIT, SessionInitSQL set or not, abandoned, undecodable and cancelled replies: `TxWritesInTx`, `NoInheritedTx`, `CommitIsTrue`, `RollbackIsTrue`, `RunsAfterReset` |
| `transaction_lost_reset` | violation: a query that fails before it is sent uses up the session reset |
| `dial` | four addresses: `OutcomeIsTrue` and, with fair goroutines, `NoneLeftOpen` |
| `cek_cache` | two callers, three keys, two of them under one master key: `KeyOfItsPath`, `KeyIsFresh` |
| `cek_shared_path` | violation: of two column keys under one master key the second caller gets the first one's |
| `tds_buffer` | three messages: `WithinPacket`, `MessagesKept`, `WellFramed`, `InOrder` |
| `login` | every kind of encryption and authentication, with a partner and routing: `RequiredIsEncrypted`, `ModeAgreed`, `HandshakeInClear`, `OneSocketPerAttempt`, `TlsNameFollowsRouting`, `BindingOverTls`; if the server answers, `Returns` |
| `bulk` | two bulk copies and other requests: `TypeOK`, `DoneIsComplete`, `LoadedOnce`, `FmtOnlyIsReset` |
| `messages` | one query, up to four tokens before the last: `RowsOfMessage`, `AllRowsSeen`, `ColumnsAreThere`; with fair goroutines `CancelEnds` and, if the server answers, `LoopEnds` |
| `batch` | every script of up to five symbols: `TypeOK`, `SplitsAtSeparators`, `OnlySeparatorsLost`, `EscapesAreDropped`, and `SplitEnds` |

The runs ask what only TLC can answer or what is worth seeing on an instance.
Type invariants and the supporting invariants `OwedInStep`, `PooledIsClean`,
`TranidInStep`, `CloserCounts` and `FreshStays` are proved for every value of the
constants (section 5), were checked with TLC before that, and are not repeated in
the runs. The runs of BulkCopy and Batch have their type invariant as well.

**Bounds.** Session: three requests are a call that is abandoned or cancelled,
the call that follows it, and one that follows the recovery of both; two tokens
before the end of a reply overfill the channel, are lost in a drain or end a
result set. A channel of one is empty or full and fills with the fewest tokens;
the code's five needs five tokens and no other step. The safety properties and
the refinement are proved for every capacity. Transaction: the interesting cases
are a transaction one user leaves and the next one finds, so two users and two
transactions; four requests are begin, a statement that leaves its reply behind,
the end, and one of the next user. Dial: with four addresses two connections can
be too late while another address has failed. CekCache: a lifetime of one and
three ticks let an entry be fresh, expire, and be replaced by one that was
decrypted earlier and is stored after that one has expired. TdsBuffer: packets
of two and three bytes after the header, so that messages end before, at and
after the end of a packet, a packet number that wraps at 3 instead of 256, and
up to nine bytes in writes of up to five. Login: the configured server, the
partner and a third one, so that a client can be routed away from either; two
routings, so that what the first leaves behind meets the second; one exchange of
tokens; and a handshake that ends with a flight of the client (TLS 1.3) and one
that ends with a flight of the server (TLS 1.2). The connection strings are
those that differ in what connect does, not all combinations; the theorems hold
for all. BulkCopy: five calls are a row of one copy, a request in between, a row
or Done of it, and the same of another copy; two columns let a table have all,
one or none of them. Messages: queues of two can be full with one token and its
message outstanding, and four tokens are two result sets with a row, or one with
rows that are left. Batch: five symbols are a separator with its count between
two lines, or a string with an escape and what follows it; the counts 0, 2, 20
and 22 are none, below and above the limit of 3, and beyond the largest int, 21.

**Deadlock** is not checked: a connection at its bound of requests, or closed, a
dial, login, loop or lexer that has ended, and a clock or a buffer at its bound
have nothing left to do. Progress is stated by the liveness properties.

**Fairness.** `ClientFairness`: the caller's and the reader's own steps (Go
schedules every runnable goroutine; drain timers fire) and failed reads (a read
on a closed connection returns). `ServerFairness`, only as the hypothesis of
`WaitEndsOrStuck` and, in Messages, of `LoopEnds`: the server ends every reply it
owes. `Dial!FairSpec`: the caller and the closing goroutine run, and every
DialContext returns, at the latest with its timeout. `Login!FairSpec`: connect
goes on and the server answers what it was sent; a step may fail but is not
assumed to, so that a handshake that waits for itself is not rescued by its
timeout. `Messages!FairSpec`: the reader and the application are scheduled, and
drains time out. Batch: the loop of Split runs. Nothing is assumed of the
application, of cancellation or of failures.

**Mutants.** Every property of a passing run has a mutant, defined just before
the definition it replaces: no wait for the previous reader, the end of a reply
taken for the confirmation, no check for an aborted transaction, no reset when a
connection is taken, a transport replaced before the last packet is flushed, one
message too few at the end of a reply, and so on.

## 4. Findings

Three statements of the repository are contradicted by a run of their own:

- `FailedDrainMarksBad`: token.go:116-117 says a failed drain always marks the
  connection bad; Rows.Close (mssql.go:916) does not.
- `NextQueryResets`: mssql.go:187-188 says that the next query will still reset
  the session; one that fails before it is sent uses the reset up.
- `RightKey`: README.md:566 says that encrypted cells are decrypted automatically;
  keys are looked up by the master key's path alone (aecmk/keyprovider.go:42), so
  of two column keys under one master key the second is not found, and the first
  is used in its place.

The other differences between comments or docs and code that were met have no
run. They are visible in the models, as an exception in a property or an
assumption of a theorem:

- Session. After processQueryResponse returned at an error (mssql.go:819), the
  wait for the previous reader that token.go:1202-1203 describes may never end:
  the reader waits for room in a channel that nobody reads (`Stuck`, the
  exception in `WaitEndsOrStuck`). Conn.Close gives the packet buffer back
  without waiting for readDone (mssql.go:491; tds.go:178-179);
  `SuccessIsComplete` says after which calls this is harmless. Rows.Close loses an
  error that its own cancellation races (mssql.go:898-900).
- Transaction. Rollback returns nil for a transaction that a batch committed
  (mssql.go:368); `RollbackIsTrue` does not count COMMITs in batches. On a
  connection on which part of a reply was left unread and that still counts as
  good (`behind`), Commit and Rollback can take the left-over message for their
  own reply and return nil without an effect, and a batch can run in another
  transaction of the same user than its Tx's; `CommitIsTrue` and `RollbackIsTrue`
  except such connections, `NoInheritedTx` and `RunsAfterReset` do not.
- CekCache. A key with a lifetime of zero is cached, for the rest of the instant
  (aecmk/keyprovider.go:94 says it is not, line 66 stores it).
- Login. After routing, the instance of the first server stays when the routing
  names none (tds.go:1396-1398), and so does an SPN that was filled in for the
  first server (protocol.go:144-146; README.md:72). The partner's certificate is
  checked against the configured host until it routes the client on, the
  exception in `TlsNameFollowsRouting`. A routed server without TLS is logged in
  to with the channel binding to the server before it (tds.go:1288-1292);
  `BindingOverTls` is about logins over TLS. Most error returns of connect leave the
  socket open: `OneSocketPerAttempt` allows one per attempt. The number of
  routings is not limited.
- BulkCopy. An AddRow that fails before INSERT BULK and is called again appends
  the columns a second time, so that it can no longer succeed
  (doc/how-to-perform-bulk-imports.md:33). Two bulk copies used in alternation on
  one connection write into the same message: the properties assume `Exclusive`.
  Done can take a reply that another call left unread for its own and return nil
  although its rows were thrown away; `DoneIsComplete` excepts this (`behind`).
- Messages. An application that leaves a result set early can wait for ever
  (`RowsLeft`), against the comment at mssql.go:1481-1482; so can one with more
  messages between two tokens than the queue holds (`QueueFull`), with more output
  parameters that cannot be scanned than the channel holds (`ErrorsLeft`), and one
  whose reader fails without a message (`Silent`). Columns ignores errors and may
  repeat attentions (`Repeating`). NextResultSet does not call checkBadConn
  (mssql.go:1493), and Close returns at a scan error with the rest of the reply
  unread: both leave a connection that counts as good.
- Batch. lexer.Skip counts from the start of the script and AddCurrent from the
  start of the batch (batch/batch.go:277), so that escapes after the first batch
  drop the wrong characters: `EscapesAreDropped` is about the first batch, and
  `OnlySeparatorsLost` names what later ones may lose (`LeftOut`). A count of 0
  drops the batch. Text between a separator and its count is lost, as is text
  after a separator on the last line; `OnlySeparatorsLost` allows for the rest of
  the separator's line.

## 5. Proofs

All theorems hold for every value of the constants; the assumptions are that the
channel and the message queue have a positive capacity, that the bounds are
naturals, that a host has finitely many addresses and at least one, that a packet
is longer than its header, that a table for a bulk copy has a column, that
the limit of a batch's count is positive, and that the configured server and its partner are servers. Some theorems name a further
assumption, which their section gives.

Leaves that need no arithmetic cite Zenon. The SMT solver would find many of them
too, but tlapm keeps what it encoded for it, and a large module then takes several
times as long.

### Session

`TypeCorrect`, `NoForeignTokens`, `PoolStaysClean`, `RepliesInStep`,
`SuccessReadsAll`: `[]` of `TypeOK`, `OwnTokensOnly`, `PooledIsClean`,
`OwedInStep` and `SuccessIsComplete`. `SessionIsExchange`: the refinement
`IsExchange`.

The heart is `OwedInStep`, what the server owes at each point of a call: one
reply while the call reads it, a reply and a confirmation after an attention,
the confirmation alone once the reply has ended first. It is not inductive:

- `AttnLast`: nothing follows the confirmation in a channel. Without it a drain
  could stop at a confirmation and leave tokens for the next call.
- `ReaderInv`: the reader goroutine stops at the confirmation and at a failed
  read and closes the channel last. Without it a closed channel would not mean
  that the reply was read.
- `CallerInv`: a second response is read only after the first channel is drained
  and closed, and the background drain of an abandoned channel exists only on
  a connection that is given up.
- `OwedOwn`: what is owed answers the current call.

The refinement rests on `OwedInStep`. By it, the mapped `unread` is empty or holds
the current request alone whenever the connection is sound (`UnreadInStep`), so
every step of Session is one of five kinds: it leaves the mapped variables alone
(`QuietStep`), reads the end of a message (`ReceiveStep`), returns from a call
(`ReturnStep`), worsens the connection, or begins a call. The proof goes through
the steps of the reader, of the caller and of the application. That a call that
returns an error leaves no more than its own reply is what `OwedInStep` says at
the points where `pc` becomes `free`.

### Transaction

`TypeCorrect`, `WritesStayInTx`, `CommitSound`, `RollbackSound`, `Isolation`,
`TranidFollows`: `[]` of `TypeOK`, `TxWritesInTx`, `CommitIsTrue`,
`RollbackIsTrue`, `NoInheritedTx` and `TranidInStep`; `ResetBeforeRun`: the action
property `RunsAfterReset`. They need no assumption about batches or
SessionInitSQL. What they except is in the properties themselves: `behind`, and
for the pool `spoiled`, the users whose reset was used up.

Argument. On a good connection that is not behind there is exactly one message
on its way for every reader (`StepInv`), although messages carry no numbers: so a
call that reads the end of a message reads that of its own reply, and nothing else
is on its way. The last announcement on its way, or else `tranid`, is the server's
transaction (`EnvInv`), so at that moment the two are equal, and Begin records
the right transaction. While a Tx is open only its end can be announced (`TxInv`,
`OpenTx`), so `tranid` is either the Tx's or 0; `checkServerAbortedTransaction`
excludes 0, so every request made in a Tx names its transaction and carries no
reset (`WireInv`), and the server executes it there or refuses it. `AnswerInv`
says that an answer without an error to the current call means that the call was
done (`Granted`): this is `CommitIsTrue` one step earlier. `CallInv` ties the call
to the pool and says that attentions are sent on connections that are behind only.

On a connection that is behind, `tranid` may be anything, but a request in a Tx
still names a transaction, which the server compares with its own, and so it never
runs outside one. The pool does not depend on replies at all: users follow one
another on the wire (`UserInv`), each request is the first of its user and carries
the reset or follows one of the same user (`ResetInv`), and the session's
transaction is younger than the last reset (`OwnerInv`).

`RollbackSound` adds that no Commit has committed the Tx of any other call
(`OpenInv`), and that what is undone stays undone (`UndoneInv`). The invariants
were checked with TLC before they were proved.

`TransactionProofs` first reduces the actions to a few kinds of step (`NextCases`)
and states what each does to the two queues, then has one lemma per conjunct, and
combines them in the theorems.

### Dial

`TypeCorrect`, `CloserCollectsAll`, `DialTellsTheTruth`: `[]` of `TypeOK`,
`CloserCounts`, `OutcomeIsTrue`. The inductive invariant counts: while the
caller waits, `N - i` outcomes are not yet received, and afterwards the closer's
`n` (`CollectInv`). `CallerInv` says where the dials can be at each point of the
caller, `OneWins` that at most one connection is the caller's.

`DialAdvances`: every step decreases `Rank`, a natural number that counts what is
still to happen to each address. A dial therefore takes a bounded number of
steps; that each of them is taken is the fairness of `NoneLeftOpen`.

### CekCache

`CacheTypeCorrect`, `NoStaleKey`, `MasterKeysDoNotMix`: `[]` of `CacheTypeOK`,
`KeyIsFresh` and `KeyOfItsPath`, for every assignment of column keys to master
keys; `NoFreshDelete`: the action property `FreshStays`. The lookup compares the
expiry with the clock; that this bounds the time since the decryption is
`EntryInv`, that what is stored, or about to be, expires a lifetime after its key
was decrypted, and that an entry is under the path of its key.

### TdsBuffer

`TypeCorrect`, `NoStaleBytes`, `MessagesSurvive`, `Framing`: `[]` of `TypeOK`,
`WithinPacket`, `MessagesKept`, `WellFramed`; `BytesInOrder`: the action
property `InOrder`. The invariant that carries them is `WriterInv`: between two
packets of a message the writer always has a byte for the next one (`wpos >
headerSize` or bytes of a running Write), because Write and WriteByte flush only
when a byte does not fit. So no packet after the first of a message is empty,
which ReadByte relies on. `MsgInv` and `ReaderInv` tie packets and reader to the
messages they belong to.

### Login

`TypeCorrect`, `AlwaysEncrypted`, `ModesAgree`, `HandshakeFlushed`, `OneSocket`,
`NameIsCurrent`, `BindingIsCurrent`: `[]` of `TypeOK`, `RequiredIsEncrypted`,
`ModeAgreed`, `HandshakeInClear`, `OneSocketPerAttempt`, `TlsNameFollowsRouting`
and `BindingOverTls`, for every set of servers and connection strings, every
handshake and every number of routings.

That a packet goes out encrypted depends on the transport at the moment it is
flushed, so the invariant `EncInv` says at each `pc` what `transport`, `pass` and
`hook` are (`Stage`), that with encrypt=true an accepted answer is one with
encryption and nothing of the login was sent before (`Required`), and that what
was sent went out as agreed (`SentInv`). Without `Stage` a handshake packet could be
flushed into the TLS connection, or a second packet of LOGIN7 with the hook still
set. `SocketInv` says which sockets are open: besides the current one at most that
of a failed first attempt, and not the current one when connect dials again.
`NameInv` says what name the TLSConfig holds, if there is one. `BindingInv` says
that a binding is that of the current socket once the TLS connection in use has
been set up; it rests on `Stage`, which says when that is.

`ReadsAreAnswered`: `[]ReadIsAnswered`, that a Read of the handshake has records
to read, or a pending packet to send before it waits for them. It is the safety
part of `Returns`: a handshake does not wait for itself. It assumes that the
client begins each handshake, and that a flight of the server has the records
that crypto/tls reads before it writes again, which is how the server is
modelled. `FlightInv` makes it inductive: a Read that has nothing to send is in
the middle of a message with as many records as are still to be read.

### BulkCopy

`TypeCorrect`, `FmtOnlyGoesOff`: `[]` of `TypeOK` and `FmtOnlyIsReset`.
`DoneLoadsAll`, `NothingLoadedTwice`: `[]` of `DoneIsComplete` and `LoadedOnce`
under the assumption `Exclusive`, that the application ends or gives up one bulk
copy before it uses another. Without it two copies write into one message
(section 4).

The table is filled when the server reads the end of a message, so what Done
reports depends on what the message held then. `OpenInv` says that while the
server waits for the current copy nothing of it is in the table, and that the
message, if no row in it was cut off, is what AddRow accepted. It needs
`HeaderInv` (a copy has rows only once its INSERT BULK was accepted, which
happens once), `TurnInv` (a copy other than the current one is given up, where
`Exclusive` comes in) and `OtherInv` (a message for another copy cannot be taken
for one of the current copy). `DoneIsComplete` follows where Done's answer is
that to its own message, that is, where nothing was left unread. `FmtInv` ties
FMTONLY to the place in getMetadata.

### Messages

`TypeCorrect`, `RowsFollowTheirMessage`, `ColumnsFindColumns`, `EveryRowIsSeen`:
`[]` of `TypeOK`, `RowsOfMessage`, `ColumnsAreThere` and `AllRowsSeen`, for every
capacity of the channel and of the queue and every length of the reply.

The two queues must be in step. The argument counts tokens: there are a p and a q
(`Sync(p, q)`) such that p tokens have been taken from the channel, which holds
the tokens p+1, p+2, ... and behind them perhaps the reader's failure (`ChanInv`),
and q is the token whose message was taken last from the queue, which holds the
messages of the later tokens that have one, in order and without a gap
(`QueueInv`). Rows and errors of output parameters have none (`Unannounced`).
`StepInv` says how far p and q may be apart at each point of the application's
loop: when Columns runs, q is a columns token and only such errors lie between p
and q; while rows are read, only rows lie between q and p; when NextResultSet
runs, p is behind q by rows or by such errors alone. This is inductive only with
`TodoInv`, that the reader sends the token before its message and nothing of the
next token before both, and `ReplyInv`, that the reply is a sequence of result
sets. All of it holds while neither the context is done nor the rows are closed
(`LiveInv`), and so does that a failure of the reader is still to come; after that
`OverInv` keeps what was got, and that the reply was whole unless an error was
returned. TLC checked these invariants on the constants of the run first.

`OnlyNamedDeadlocks`: `[]OnlyNamedWaits`, the safety part of `LoopEnds`. When
the application waits (`AppWaits`) and the reader waits for room or has exited
(`ReaderWaits`), it is in one of the four situations `QueueFull`, `RowsLeft`,
`ErrorsLeft` and `Silent`: the two bounded queues have no other deadlock,
whatever their capacities. Besides the above it needs three invariants: what is
to be sent with a failure is about no token (`FailInv`), so that the message of
a token is never behind one; the last token is on its way until it is taken, and
the message after it until the rows are closed (`EndInv`), so that a whole reply
always ends the loop; and rows that were closed while the loop goes on had the
reader's failure, after which no token comes (`CloseInv`). That `EndInv`
survives NextResultSet is the lemma `StopLast`: when the message after that of
the last token is next, the last token has been taken. TLC checked the three
invariants and `OnlyNamedWaits` on the constants of the run first.

### Batch

`TypeCorrect`, `CutsAtSeparators`, `NothingElseLost`, `FirstBatchIsRight`: `[]` of
`TypeOK`, `SplitsAtSeparators`, `OnlySeparatorsLost` and `EscapesAreDropped`, for
scripts of every length. `LexerAdvances`: every step decreases a natural number,
`Rank`, so that Split ends after a bounded number of steps.

The properties speak of the finished split; the invariant says what is true of the
part that has been read. `InStep` is the heart: the state function that is called
next takes the symbol at `at` for what `Mode` takes it for. It holds up to the
first cut in every script and to the end in a clean one; in others a separator's
line may hide a quote. `BatchInv` orders the batches and accounts for every symbol
before the next one: it is in a batch, on the line of a separator, or was left out
by AddCurrent. The last needs `SkipFrom`, that the indices to skip are of escapes
of the current batch. `SepInv` says where stateSep is called and where the script
may end early, `SkipInv` that up to the first cut the indices to skip are exactly
the escapes read so far, `FirstInv` that the first batch was right when it was cut,
and `AloneInv` that no separator that was passed has been missed, unless its count
is too large. `AloneInv` needs that a line can begin in stateWhitespace only.

`Mode` is a recursive function over the script, and what it computes is needed at
each symbol only relative to the one before (`ModeStep`). That the definition
determines it at all (`ModeDef`), and the few facts about stretches of the script
(`ModeStays`, `FirstIs`), are proved with the lemma `Least`, that a set of naturals
that is not empty has a least element, in place of an induction rule. TLC checked
the invariant on the constants of the run before it was proved.

## 6. Only model-checked

Liveness (`CancelReturns`, `ReaderExitsOrStuck`, `WaitEndsOrStuck`,
`NoneLeftOpen`, `Returns`, `LoopEnds`, `CancelEnds`, `SplitEnds`) is beyond the
prover. For four of these the part that is a matter of safety is proved:
`LexerAdvances` and `DialAdvances` that the steps cannot go on for ever,
`ReadsAreAnswered` and `OnlyNamedDeadlocks` that nobody waits for what cannot come.
Every invariant, action property and refinement of a passing run has a theorem.
The violation runs are counterexamples and need no proof.

## 7. Not modelled

All parts of the driver with state that several steps or several goroutines
change are modelled. What is left out, by component (`PROJECT.json` has the
files):

- the choice among protocols in dialConnection and the SQL Browser query: a loop
  over alternatives without state, and a parser;
- value encoding (types.go, decimal, dates, UDTs, table-valued parameters), the
  layout of parameters and of LOGIN7, the parsers of connection strings, of query
  parameters and of quoted names: pure functions over bytes and characters, which
  a model would have to repeat digit by digit, and which the repository tests
  against tables;
- cryptography, key stores and cloud authentication: computations and remote
  calls without state of the driver;
- named pipes and shared memory: thin dialers over operating system calls;
- logging and generated tables.

About three quarters of the lines under `src/` are the code page tables of
internal/cp, which are data. The mapped definitions cover the control of the
rest, which is a small share of all lines.
