---------------------------- MODULE Transaction ----------------------------
(***************************************************************************)
(* Transactions on one pooled connection.  The driver keeps two things: a  *)
(* flag, inTransaction, for the Tx that database/sql holds, and the id of  *)
(* the server's transaction, sess.tranid, which the reader goroutine       *)
(* follows from the ENVCHANGE tokens and every request names in its        *)
(* header.  The flag alone may lag behind: the server ends transactions    *)
(* of its own accord (XACT_ABORT), batches end them with COMMIT, and some  *)
(* calls return before their reply is read.                                *)
(*                                                                         *)
(* The token stream of a reply is module Session's; here a reply is what   *)
(* it says about the transaction, and whether it reports an error.  A      *)
(* reader reads the next message of the stream, whichever request that     *)
(* answers.  The history behind says that the driver may have missed part  *)
(* of a reply, or have left a message for a later call to read.            *)
(***************************************************************************)
EXTENDS Integers, Sequences, FiniteSets

CONSTANTS
    MaxUsers,   \* bound: times the connection is taken from the pool
    MaxTx,      \* bound: transactions the server begins
    MaxCalls    \* bound: requests the driver writes

ASSUME MaxUsersAssumption == MaxUsers \in Nat
ASSUME MaxTxAssumption == MaxTx \in Nat
ASSUME MaxCallsAssumption == MaxCalls \in Nat

VARIABLES
    good,      \* Conn.connectionGood
    inTx,      \* Conn.inTransaction
    tranid,    \* sess.tranid, 0 for none
    reset,     \* Conn.resetSession
    place,     \* where database/sql has the connection
    user,      \* the number of its current, or last, user
    tx,        \* the transaction of the user's open Tx, as Begin found it
    call,      \* the call that waits for its reply, or none
    calls,     \* requests written so far
    last,      \* the call that returned last and its transaction, when it was
               \* a Commit or a Rollback that succeeded
    busy,      \* whether the reader of a call that has returned still runs
    wire,      \* requests the server has not read
    replies,   \* messages the reader goroutines have not read to the end
    srvTx,     \* the session's transaction at the server, 0 for none
    begun,     \* owners of the transactions the server began
    committed, \* transactions it committed at a Commit's request
    resetFor,  \* the user for whom the session was last reset
    ran,       \* history: what the server executed, for whom and in what
    spoiled,   \* history: users whose reset was used up without a request
    behind     \* history: a reply was not read to its end

connVars == <<good, inTx, tranid, reset>>
poolVars == <<place, user, tx>>
callVars == <<call, calls, last>>
readVars == <<busy, replies, behind>>
serverVars == <<srvTx, begun, committed, resetFor, ran>>
vars == <<connVars, poolVars, callVars, readVars, wire, serverVars, spoiled>>

NoCall == "none"
NoEnv == -1
TxId == 1..MaxTx
\* "init": the exec of SessionInitSQL.  "sqlcommit": an exec with a COMMIT.
Kinds == {"begin", "init", "exec", "query", "sqlcommit", "commit", "rollback"}
Outcomes == {"ok", "err", "ctx"}
\* "attn": an attention.
Request == [kind : Kinds \cup {"attn"}, hdr : 0..MaxTx, reset : BOOLEAN,
            user : 1..MaxUsers, want : 0..MaxTx]
\* env: the id of a transaction that began, 0 when one ended.
Answer == [env : {NoEnv} \cup 0..MaxTx, err : BOOLEAN]

Flags == /\ good \in BOOLEAN /\ inTx \in BOOLEAN /\ reset \in BOOLEAN
         /\ busy \in BOOLEAN /\ behind \in BOOLEAN

Shapes ==
    /\ tranid \in 0..MaxTx /\ tx \in 0..MaxTx /\ srvTx \in 0..MaxTx
    /\ place \in {"pool", "init", "held", "closed"} /\ user \in 0..MaxUsers
    /\ call \in {NoCall} \cup Kinds /\ calls \in 0..MaxCalls
    /\ last \in [kind : {NoCall, "commit", "rollback"}, tx : 0..MaxTx]
    /\ wire \in Seq(Request) /\ replies \in Seq(Answer)
    /\ begun \in Seq(1..MaxUsers) /\ Len(begun) <= MaxTx
    /\ committed \subseteq TxId
    /\ resetFor \in 0..MaxUsers /\ spoiled \subseteq 1..MaxUsers
    /\ ran \subseteq [user : 1..MaxUsers, want : 0..MaxTx, got : 0..MaxTx]

\* Every variable has its type; no more requests are written than the bound.
TypeOK == Flags /\ Shapes

Init ==
    /\ good = TRUE /\ inTx = FALSE /\ tranid = 0 /\ reset = FALSE
    /\ place = "pool" /\ user = 0 /\ tx = 0
    /\ call = NoCall /\ calls = 0
    /\ last = [kind |-> NoCall, tx |-> 0]
    /\ busy = FALSE /\ wire = <<>> /\ replies = <<>> /\ behind = FALSE
    /\ srvTx = 0 /\ begun = <<>> /\ committed = {} /\ resetFor = 0
    /\ ran = {} /\ spoiled = {}

-----------------------------------------------------------------------------
(* The driver's calls.                                                      *)

Idle == place = "held" /\ call = NoCall /\ good

\* Mutant: the check is not made.
AbortedUnseen == FALSE

\* checkServerAbortedTransaction
Aborted == inTx /\ tranid = 0

\* A call returns: Commit and Rollback leave the transaction whatever they
\* return, Begin enters one when it succeeds.  When SessionInitSQL fails,
\* ResetSession returns ErrBadConn and database/sql closes the connection.
Return(k, r) ==
    /\ call' = NoCall
    /\ last' = IF r = "ok" /\ k \in {"commit", "rollback"}
               THEN [kind |-> k, tx |-> tx] ELSE [kind |-> NoCall, tx |-> 0]
    /\ inTx' = CASE k \in {"commit", "rollback"} -> FALSE
                 [] k = "begin" /\ r = "ok" -> TRUE
                 [] OTHER -> inTx
    /\ tx' = CASE k \in {"commit", "rollback"} -> 0
               [] k = "begin" /\ r = "ok" -> tranid
               [] OTHER -> tx
    /\ place' = IF k # "init" THEN place ELSE IF r = "ok" THEN "held" ELSE "closed"

\* Mutant: the packet does not carry the reset.
WriteWithoutReset(k, u, r) ==
    /\ calls < MaxCalls
    /\ calls' = calls + 1 /\ call' = k
    /\ wire' = Append(wire,
         [kind |-> k, hdr |-> IF k = "begin" THEN 0 ELSE tranid,
          reset |-> FALSE, user |-> u, want |-> tx])
    /\ reset' = FALSE
    /\ UNCHANGED <<good, inTx, tranid, tx, last, readVars, serverVars, spoiled>>

\* A request is written, and uses up the reset; Begin's header names no
\* transaction.
Write(k, u, r) ==
    /\ calls < MaxCalls
    /\ calls' = calls + 1 /\ call' = k
    /\ wire' = Append(wire,
         [kind |-> k, hdr |-> IF k = "begin" THEN 0 ELSE tranid,
          reset |-> r, user |-> u, want |-> tx])
    /\ reset' = FALSE
    /\ UNCHANGED <<good, inTx, tranid, tx, last, readVars, serverVars, spoiled>>

Send(k) == Write(k, user, reset) /\ UNCHANGED <<place, user>>

Begin == Idle /\ ~inTx /\ Send("begin")

\* exec and queryContext: sendQuery checks for an aborted transaction first.
Exec(k) == Idle /\ ~Aborted /\ Send(k)

\* Commit
Commit == Idle /\ inTx /\ ~Aborted /\ Send("commit")

\* Rollback
Rollback == Idle /\ inTx /\ ~Aborted /\ Send("rollback")

\* Mutant: Commit is treated as Rollback is.
RefuseQuietly(k) ==
    /\ Idle /\ Aborted
    /\ Return(k, IF k \in {"commit", "rollback"} THEN "ok" ELSE "err")
    /\ UNCHANGED <<good, tranid, reset, user, calls, readVars, wire,
                   serverVars, spoiled>>

\* The calls that find the transaction aborted write nothing: Rollback
\* succeeds, the others fail.
Refuse(k) ==
    /\ Idle /\ Aborted
    /\ Return(k, IF k = "rollback" THEN "ok" ELSE "err")
    /\ UNCHANGED <<good, tranid, reset, user, calls, readVars, wire,
                   serverVars, spoiled>>

\* sendQuery clears resetSession before makeRPCParams, which may fail.
BadParams ==
    /\ Idle /\ ~Aborted
    /\ reset' = FALSE
    /\ spoiled' = spoiled \cup {u \in {user} : reset}
    /\ Return("exec", "err")
    /\ UNCHANGED <<good, tranid, user, calls, readVars, wire, serverVars>>

\* The transport fails, or a cancelled call gets no confirmation, and
\* checkBadConn sees the error: what was under way may be lost, and what is
\* answered comes too late for the connection.
Fail ==
    /\ call # NoCall
    /\ good' = FALSE
    /\ Return(call, "err")
    /\ wire' \in {wire, <<>>} /\ replies' = <<>>
    /\ UNCHANGED <<tranid, reset, user, calls, busy, behind, serverVars, spoiled>>

\* startResponseReader waits for the reader before: a call whose reader runs.
Reads == call # NoCall /\ ~busy

\* A Rollback whose context is done (noAttn); a deadline marks the connection
\* bad, a cancellation does not.  The reader goes on.
RollbackAbandoned ==
    /\ Reads /\ call = "rollback"
    /\ Return(call, "ctx")
    /\ good' \in {good, FALSE} /\ busy' = TRUE
    /\ UNCHANGED <<tranid, reset, user, calls, wire, replies, behind,
                   serverVars, spoiled>>

\* The reader goes on: processQueryResponse returns at the first DONE with an
\* error, and any batch at an output parameter that cannot be scanned.
ReturnsEarly ==
    /\ Reads /\ call \in {"exec", "query", "sqlcommit"} /\ replies # <<>>
    /\ Return(call, "err")
    /\ busy' = TRUE
    /\ UNCHANGED <<good, tranid, reset, user, calls, wire, replies, behind,
                   serverVars, spoiled>>

\* A reader stops within a message.  The next BeginRead skips what is left of
\* it in the buffer, which may or may not be the whole rest.
Stop ==
    \/ UNCHANGED replies /\ behind' = TRUE
    \/ /\ replies # <<>> /\ replies' = Tail(replies)
       /\ behind' = (behind \/ Head(replies).env # NoEnv)

\* parseRow fails, or a parser panics with a plain error: checkBadConn does not
\* take it for a broken connection.
Undecodable ==
    /\ Reads /\ replies # <<>>
    /\ Stop
    /\ Return(call, "err")
    /\ UNCHANGED <<good, tranid, reset, user, calls, busy, wire, serverVars,
                   spoiled>>

Attention == [kind |-> "attn", hdr |-> 0, reset |-> FALSE, user |-> user,
              want |-> 0]

\* Rows.Close cancels the query and returns the error of its drain without
\* checkBadConn.  The reader goes on, or has stopped.
CloseFails ==
    /\ Reads /\ call = "query"
    /\ wire' = Append(wire, Attention)
    /\ \/ busy' = TRUE /\ UNCHANGED replies
       \/ busy' = TRUE /\ replies # <<>> /\ replies' = Tail(replies)
       \/ busy' = FALSE /\ replies' \in {replies} \cup
                             {Tail(q) : q \in {replies} \ {<<>>}}
    /\ behind' = TRUE
    /\ Return(call, "err")
    /\ UNCHANGED <<good, tranid, reset, user, calls, serverVars, spoiled>>

\* The transaction after a message was read.
After(id, a) == IF a.env = NoEnv THEN id ELSE a.env

\* A cancelled call takes an earlier confirmation, in the first or the second
\* message that it reads, for its own.
CancelBehind ==
    /\ Reads /\ behind /\ call # "rollback" /\ replies # <<>>
    /\ wire' = Append(wire, Attention)
    /\ \/ /\ tranid' = After(tranid, replies[1])
          /\ replies' = Tail(replies)
       \/ /\ Len(replies) > 1
          /\ tranid' = After(After(tranid, replies[1]), replies[2])
          /\ replies' = Tail(Tail(replies))
    /\ Return(call, "ctx") /\ good' \in {good, FALSE}
    /\ UNCHANGED <<reset, user, calls, busy, behind, serverVars, spoiled>>

-----------------------------------------------------------------------------
(* The reader goroutines: messages are read one after the other.            *)

\* processEnvChg: begin, commit and rollback of a transaction.
ProcessEnvChg ==
    /\ busy \/ call # NoCall
    /\ replies # <<>> /\ Head(replies).env # NoEnv
    /\ tranid' = Head(replies).env
    /\ replies' = [replies EXCEPT ![1].env = NoEnv]
    /\ UNCHANGED <<good, inTx, reset, poolVars, callVars, busy, wire, behind,
                   serverVars, spoiled>>

\* The reader of a call that has returned comes to the end of a message.
EndAbandoned ==
    /\ busy /\ replies # <<>> /\ Head(replies).env = NoEnv
    /\ busy' = FALSE /\ replies' = Tail(replies)
    /\ UNCHANGED <<connVars, poolVars, callVars, wire, behind, serverVars, spoiled>>

\* It stops, after a read that timed out or could not be decoded: nobody sees
\* its error.
StopAbandoned ==
    /\ busy /\ Stop /\ busy' = FALSE
    /\ UNCHANGED <<connVars, poolVars, callVars, wire, serverVars, spoiled>>

\* Mutant: the error of the DONE token is not looked at.
EndReplyErrorUnseen ==
    /\ Reads /\ replies # <<>> /\ Head(replies).env = NoEnv
    /\ replies' = Tail(replies)
    /\ Return(call, "ok")
    /\ UNCHANGED <<good, tranid, reset, user, calls, busy, wire, behind,
                   serverVars, spoiled>>

\* The end of a message for the current call, which may have been cancelled
\* and confirmed meanwhile.
EndReply ==
    /\ Reads /\ replies # <<>> /\ Head(replies).env = NoEnv
    /\ replies' = Tail(replies)
    /\ \/ /\ Return(call, IF Head(replies).err THEN "err" ELSE "ok")
          /\ UNCHANGED good
       \/ /\ call # "rollback"
          /\ Return(call, "ctx") /\ good' \in {good, FALSE}
    /\ UNCHANGED <<tranid, reset, user, calls, busy, wire, behind, serverVars,
                   spoiled>>

-----------------------------------------------------------------------------
(* The server.  A reset rolls the session's transaction back.  A request    *)
(* whose header names another transaction than the session's is refused.    *)

Reply(q, env, err) ==
    replies' = Append(replies, [env |-> env, err |-> err])

Served(q) ==
    /\ q.kind # "attn"
    /\ wire' = Tail(wire)
    /\ resetFor' = IF q.reset THEN q.user ELSE resetFor
    /\ UNCHANGED <<connVars, poolVars, callVars, busy, behind, spoiled>>

AfterReset(q) == IF q.reset THEN 0 ELSE srvTx

ResetEnv(q) == IF AfterReset(q) # srvTx THEN 0 ELSE NoEnv

Accepts(q) == q.hdr \in {0, AfterReset(q)} \/ (q.reset /\ q.hdr = srvTx)

\* An error that leaves the transaction as it is.
ServeError ==
    /\ wire # <<>>
    /\ LET q == Head(wire)
       IN  /\ Served(q) /\ Reply(q, ResetEnv(q), TRUE)
           /\ srvTx' = AfterReset(q)
           /\ UNCHANGED <<begun, committed, ran>>

\* An error under XACT_ABORT.
ServeAbort ==
    /\ wire # <<>>
    /\ LET q == Head(wire)
       IN  /\ Accepts(q) /\ AfterReset(q) # 0
           /\ Served(q) /\ Reply(q, 0, TRUE)
           /\ srvTx' = 0
           /\ UNCHANGED <<begun, committed, ran>>

ServeBegin ==
    /\ wire # <<>>
    /\ LET q == Head(wire)
       IN  /\ q.kind = "begin" /\ AfterReset(q) = 0 /\ Len(begun) < MaxTx
           /\ Served(q) /\ Reply(q, Len(begun) + 1, FALSE)
           /\ begun' = Append(begun, q.user) /\ srvTx' = Len(begun) + 1
           /\ UNCHANGED <<committed, ran>>

ServeBatch ==
    /\ wire # <<>>
    /\ LET q == Head(wire)
       IN  /\ q.kind \in {"init", "exec", "query"} /\ Accepts(q)
           /\ Served(q) /\ \E err \in BOOLEAN : Reply(q, ResetEnv(q), err)
           /\ srvTx' = AfterReset(q)
           /\ ran' = ran \cup
                {[user |-> q.user, want |-> q.want, got |-> AfterReset(q)]}
           /\ UNCHANGED <<begun, committed>>

\* A commit request, or a batch with a COMMIT, which is not counted.
ServeCommit ==
    /\ wire # <<>>
    /\ LET q == Head(wire)
       IN  /\ q.kind \in {"commit", "sqlcommit"} /\ Accepts(q)
           /\ AfterReset(q) # 0
           /\ Served(q) /\ Reply(q, 0, FALSE)
           /\ committed' = committed \cup
                {t \in {AfterReset(q)} : q.kind = "commit"}
           /\ srvTx' = 0
           /\ UNCHANGED <<begun, ran>>

ServeRollback ==
    /\ wire # <<>>
    /\ LET q == Head(wire)
       IN  /\ q.kind = "rollback" /\ Accepts(q) /\ AfterReset(q) # 0
           /\ Served(q) /\ Reply(q, 0, FALSE)
           /\ srvTx' = 0
           /\ UNCHANGED <<begun, committed, ran>>

\* An attention is confirmed in a message of its own, or in the reply that it
\* cut short.
ServeAttention ==
    /\ wire # <<>> /\ Head(wire).kind = "attn"
    /\ wire' = Tail(wire)
    /\ \/ UNCHANGED replies
       \/ Reply(Head(wire), NoEnv, FALSE)
    /\ UNCHANGED <<connVars, poolVars, callVars, busy, behind, serverVars, spoiled>>

-----------------------------------------------------------------------------
(* The pool.                                                                *)

\* Mutant: the connection is taken as it is.
GrabUnreset ==
    /\ place = "pool" /\ good /\ user < MaxUsers
    /\ place' = "held" /\ user' = user + 1
    /\ UNCHANGED <<connVars, tx, callVars, readVars, wire, serverVars, spoiled>>

\* ResetSession, when the connection is taken: it marks the session and, with
\* Connector.SessionInitSQL set at the time, executes that.
Grab ==
    /\ place = "pool" /\ good /\ user < MaxUsers
    /\ user' = user + 1
    /\ \/ /\ place' = "held" /\ reset' = TRUE
          /\ UNCHANGED <<good, inTx, tranid, tx, callVars, readVars, wire,
                         serverVars, spoiled>>
       \/ /\ ~Aborted
          /\ place' = "init" /\ Write("init", user + 1, TRUE)

\* IsValid decides whether the connection is kept.
Release ==
    /\ place = "held" /\ call = NoCall /\ (good => ~inTx)
    /\ place' = IF good THEN "pool" ELSE "closed"
    /\ tx' = 0
    /\ UNCHANGED <<connVars, user, callVars, readVars, wire, serverVars,
                   spoiled>>

Driver ==
    \/ Begin \/ Commit \/ Rollback \/ BadParams \/ Fail \/ RollbackAbandoned
    \/ ReturnsEarly \/ Undecodable \/ CloseFails \/ CancelBehind
    \/ \E k \in {"exec", "query", "sqlcommit"} : Exec(k)
    \/ \E k \in {"exec", "commit", "rollback"} : Refuse(k)

Reader == ProcessEnvChg \/ EndAbandoned \/ StopAbandoned \/ EndReply

Server ==
    \/ ServeError \/ ServeAbort \/ ServeBegin \/ ServeBatch \/ ServeCommit
    \/ ServeRollback \/ ServeAttention

Next == Driver \/ Reader \/ Server \/ Grab \/ Release

Spec == Init /\ [][Next]_vars

-----------------------------------------------------------------------------
(* Properties.                                                              *)

\* What a user does through a Tx, the server does in the Tx's transaction:
\* after the server has ended the transaction nothing is executed, and
\* committed, on its own (checkServerAbortedTransaction, the headers).  On a
\* connection that is behind it may be another transaction, but never none.
TxWritesInTx ==
    \A r \in ran : r.want # 0 => r.got = r.want \/ (behind /\ r.got # 0)

\* No request is executed in a transaction that another user of the
\* connection began (ResetSession), unless the user's reset was used up.
NoInheritedTx ==
    \A r \in ran : r.got # 0 =>
        begun[r.got] = r.user \/ r.user \in spoiled

\* A Commit that succeeds has committed the transaction of its Tx, on a
\* connection that is not behind (Commit, simpleProcessResp).
CommitIsTrue ==
    last.kind = "commit" /\ ~behind => last.tx \in committed

\* After a Rollback that succeeds, also one that sent nothing, the Tx is not
\* open at the server and no Commit has committed it, on a connection that is
\* not behind.  (A COMMIT in one of the Tx's own batches may have.)
RollbackIsTrue ==
    last.kind = "rollback" /\ ~behind =>
        last.tx \notin committed /\ last.tx # srvTx

\* On a good connection with nothing in flight the driver knows the session's
\* transaction, however the earlier calls ended (processEnvChg), unless the
\* connection is behind.
TranidInStep ==
    good /\ wire = <<>> /\ replies = <<>> /\ ~behind => tranid = srvTx

\* What the server executes for a user it executes in a session that was
\* reset for that user, unless the user's reset was used up (sendQuery), with
\* SessionInitSQL and without, also on a connection that is behind.
RunsAfterReset ==
    [][ran' # ran => resetFor' = Head(wire).user \/ Head(wire).user \in spoiled]_vars

\* What the comment on SessionInitSQL says: the next query will still reset
\* the session.
NextQueryResets == [][ran' # ran => resetFor' = Head(wire).user]_vars
=============================================================================
