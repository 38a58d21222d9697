------------------------- MODULE TransactionProofs -------------------------
(***************************************************************************)
(* Proofs about Transaction, for all values of its constants: the          *)
(* inductive invariant and what its proof needs to know about the steps    *)
(* (the cases of Next, their effect on the two queues, the types), one     *)
(* lemma per conjunct with one case per kind of step, and the theorems.    *)
(***************************************************************************)
EXTENDS Transaction, SequenceTheorems, TLAPS

-----------------------------------------------------------------------------
(* The inductive invariant.                                                 *)

\* Where the connection is while a call runs.  Only a connection that is
\* behind has sent an attention.
CallInv ==
    /\ call = "init" <=> place = "init"
    /\ call \notin {NoCall, "init"} => place = "held"
    /\ call # NoCall => good /\ ~reset
    /\ call \in {"commit", "rollback"} => inTx
    /\ place # "pool" => user # 0
    /\ behind \/ \A i \in 1..Len(wire) : wire[i].kind # "attn"

\* In step, there is one message on its way for every reader.
Readers ==
    IF busy THEN (IF call = NoCall THEN 1 ELSE 2)
            ELSE (IF call = NoCall THEN 0 ELSE 1)

StepInv == good /\ ~behind => Len(wire) + Len(replies) = Readers

\* The last announcement on its way, or else tranid, is the server's state.
NoneFrom(i) == \A j \in i..Len(replies) : replies[j].env = NoEnv

EnvInv ==
    good /\ ~behind =>
        \/ NoneFrom(1) /\ tranid = srvTx
        \/ \E i \in 1..Len(replies) : replies[i].env = srvTx /\ NoneFrom(i + 1)

\* While a Tx is open nothing but its end is announced.
OpenTx ==
    /\ tx # 0 /\ tranid \in {0, tx}
    /\ \A i \in 1..Len(replies) : replies[i].env \in {0, NoEnv}
    /\ \A i \in 1..Len(wire) : wire[i].kind # "begin"

TxInv ==
    /\ tx # 0 => inTx
    /\ good /\ inTx => ~reset /\ place = "held" /\ call # "begin"
    /\ good /\ inTx /\ ~behind => OpenTx

\* A request made in a Tx names a transaction, in step its own, and carries no
\* reset; nor does an attention.
WireInv ==
    \A i \in 1..Len(wire) :
        /\ wire[i].want # 0 => /\ ~wire[i].reset /\ wire[i].hdr # 0
                               /\ behind \/ wire[i].hdr = wire[i].want
        /\ wire[i].kind = "attn" => ~wire[i].reset

\* In step, the last message on its way is the current call's: its request,
\* or the answer, which is no error only when the call was done.
Granted ==
    /\ call = "begin" => srvTx # 0
    /\ call = "commit" => tx \in committed
    /\ call = "rollback" => srvTx = 0

AnswerInv ==
    good /\ ~behind /\ call # NoCall =>
        IF wire # <<>>
        THEN wire[Len(wire)].kind = call /\ wire[Len(wire)].want = tx
        ELSE ~replies[Len(replies)].err => Granted

\* Users follow one another; the session was last reset for the user of the
\* next request, unless that carries a reset itself or the user's is used up.
UserInv ==
    /\ \A i \in 1..Len(wire) :
          resetFor <= wire[i].user /\ wire[i].user <= user
    /\ \A i, j \in 1..Len(wire) : i <= j => wire[i].user <= wire[j].user
    /\ resetFor <= user

ResetInv ==
    /\ \A i \in 1..Len(wire) :
          \/ wire[i].reset \/ wire[i].user \in spoiled
          \/ IF i = 1 THEN resetFor = wire[1].user
                      ELSE wire[i - 1].user = wire[i].user
    /\ place = "init" \/ (good /\ place = "held" /\ ~reset) =>
          \/ user \in spoiled
          \/ IF wire = <<>> THEN resetFor = user ELSE wire[Len(wire)].user = user

\* The session's transaction was begun since the last reset.
OwnerInv ==
    /\ srvTx <= Len(begun)
    /\ srvTx # 0 => /\ resetFor <= begun[srvTx] /\ begun[srvTx] <= user
                    /\ \A i \in 1..Len(wire) : begun[srvTx] <= wire[i].user
    /\ \A r \in ran : r.got <= Len(begun)

IInv ==
    /\ TypeOK /\ CallInv /\ StepInv /\ EnvInv /\ TxInv /\ WireInv
    /\ AnswerInv /\ UserInv /\ ResetInv /\ OwnerInv
    /\ TxWritesInTx /\ CommitIsTrue /\ NoInheritedTx

USE MaxUsersAssumption, MaxTxAssumption, MaxCallsAssumption

-----------------------------------------------------------------------------
(* Sequences.                                                               *)

\* What Append and Tail do to the entries of a sequence.
LEMMA AppendEntries ==
    ASSUME NEW S, NEW s \in Seq(S), NEW e \in S
    PROVE  /\ Append(s, e) \in Seq(S) /\ Len(Append(s, e)) = Len(s) + 1
           /\ \A i \in 1..Len(s) : Append(s, e)[i] = s[i]
           /\ Append(s, e)[Len(s) + 1] = e
  BY AppendProperties

\* The same for Tail.
LEMMA TailEntries ==
    ASSUME NEW S, NEW s \in Seq(S), s # <<>>
    PROVE  /\ Tail(s) \in Seq(S) /\ Len(Tail(s)) = Len(s) - 1
           /\ Len(s) \in Nat /\ Len(s) >= 1
           /\ Head(s) = s[1] /\ Head(s) \in S
           /\ \A i \in 1..(Len(s) - 1) : Tail(s)[i] = s[i + 1]
  BY HeadTailProperties, LenProperties, EmptySeq

-----------------------------------------------------------------------------
(* Types.                                                                   *)

\* A request the driver writes has its type.
LEMMA RequestType ==
    ASSUME TypeOK, calls < MaxCalls, NEW k \in Kinds, NEW u \in 1..MaxUsers,
           NEW r \in BOOLEAN
    PROVE  [kind |-> k, hdr |-> IF k = "begin" THEN 0 ELSE tranid,
            reset |-> r, user |-> u, want |-> tx] \in Request
  <1>1. (IF k = "begin" THEN 0 ELSE tranid) \in 0..MaxTx /\ tx \in 0..MaxTx
    BY DEF TypeOK, Shapes
  <1>. QED
    BY <1>1, Zenon DEF Request

\* Write keeps the types.
LEMMA WriteType ==
    ASSUME TypeOK, NEW k \in Kinds, NEW u \in 1..MaxUsers,
           NEW r \in BOOLEAN, Write(k, u, r)
    PROVE  /\ call' \in Kinds /\ calls' \in 0..MaxCalls
           /\ wire' \in Seq(Request) /\ reset' = FALSE
  <1>1. wire \in Seq(Request) /\ calls < MaxCalls
    BY Zenon DEF TypeOK, Shapes, Write
  <1>2. wire' \in Seq(Request)
    BY <1>1, RequestType, AppendEntries DEF Write
  <1>. QED
    BY <1>2 DEF Write, TypeOK, Shapes

\* Return keeps the types.
LEMMA ReturnType ==
    ASSUME TypeOK, NEW k \in Kinds, NEW r \in Outcomes, Return(k, r)
    PROVE  /\ call' = NoCall
           /\ last' \in [kind : {NoCall, "commit", "rollback"}, tx : 0..MaxTx]
           /\ inTx' \in BOOLEAN /\ tx' \in 0..MaxTx
           /\ place' \in {"pool", "init", "held", "closed"}
  <1>1. inTx' \in BOOLEAN
    BY Zenon DEF Return, TypeOK, Flags
  <1>2. tx' \in 0..MaxTx
    BY DEF Return, TypeOK, Shapes
  <1>3. last' \in [kind : {NoCall, "commit", "rollback"}, tx : 0..MaxTx]
    BY DEF Return, TypeOK, Shapes
  <1>4. place' \in {"pool", "init", "held", "closed"}
    BY Zenon DEF Return, TypeOK, Shapes
  <1>. QED
    BY <1>1, <1>2, <1>3, <1>4, Zenon DEF Return

-----------------------------------------------------------------------------
(* What the six ways of serving a request have in common, and what each     *)
(* does beyond it.                                                          *)

Serving(q, env, err) ==
    /\ wire # <<>> /\ q = wire[1] /\ wire' = Tail(wire) /\ q.kind # "attn"
    /\ replies' = Append(replies, [env |-> env, err |-> err])
    /\ resetFor' = IF q.reset THEN q.user ELSE resetFor
    /\ srvTx' = IF env = NoEnv THEN srvTx ELSE env
    /\ UNCHANGED <<connVars, poolVars, callVars, busy, behind, spoiled>>

Quiet(q, env, err) ==
    /\ env \in {0, NoEnv} /\ (err \/ q.kind = "rollback")
    /\ q.reset => srvTx' = 0
    /\ q.kind = "rollback" /\ ~err => env = 0
    /\ UNCHANGED <<begun, committed, ran>>

Beginning(q, env, err) ==
    /\ q.kind = "begin" /\ Len(begun) < MaxTx /\ env = Len(begun) + 1
    /\ begun' = Append(begun, q.user)
    /\ UNCHANGED <<committed, ran>>

Batch(q, env) ==
    /\ q.kind \in {"init", "exec", "query"} /\ Accepts(q)
    /\ env = ResetEnv(q) /\ srvTx' = AfterReset(q)
    /\ ran' = ran \cup {[user |-> q.user, want |-> q.want, got |-> AfterReset(q)]}
    /\ UNCHANGED <<begun, committed>>

Committing(q, env) ==
    /\ q.kind \in {"commit", "sqlcommit"} /\ Accepts(q) /\ AfterReset(q) # 0
    /\ env = 0
    /\ committed' = committed \cup {t \in {AfterReset(q)} : q.kind = "commit"}
    /\ UNCHANGED <<begun, ran>>

Served1(q, env, err) ==
    /\ Serving(q, env, err)
    /\ \/ Quiet(q, env, err) \/ Beginning(q, env, err)
       \/ Batch(q, env) \/ Committing(q, env)

Envs == {NoEnv} \cup 0..MaxTx

\* Every step of the server is such a step.
LEMMA ServerStep ==
    ASSUME TypeOK, Server, ~ServeAttention
    PROVE  \E q \in Request, env \in Envs, err \in BOOLEAN : Served1(q, env, err)
  <1>. DEFINE q == Head(wire)
  <1>1. wire # <<>>
    BY Zenon DEF Server, ServeError, ServeAbort, ServeBegin, ServeBatch, ServeCommit,
           ServeRollback
  <1>2. q \in Request /\ q = wire[1]
    BY <1>1, TailEntries, Zenon DEF TypeOK, Shapes
  <1>3. srvTx \in 0..MaxTx /\ Len(begun) \in Nat /\ MaxTx \in Nat
    BY DEF TypeOK, Shapes
  <1>4. AfterReset(q) \in 0..MaxTx /\ ResetEnv(q) \in {0, NoEnv} /\ 0 # NoEnv
        /\ (ResetEnv(q) = NoEnv => AfterReset(q) = srvTx)
        /\ (ResetEnv(q) # NoEnv => AfterReset(q) = 0)
        /\ (q.reset => AfterReset(q) = 0)
    BY <1>3 DEF AfterReset, ResetEnv, NoEnv
  <1>e. 0 \in Envs /\ ResetEnv(q) \in Envs
    BY <1>3, <1>4 DEF Envs
  <1>5. CASE ServeError
    <2>1. Serving(q, ResetEnv(q), TRUE)
      BY <1>5, <1>2, <1>4, Zenon DEF ServeError, Serving, Served, Reply
    <2>2. Quiet(q, ResetEnv(q), TRUE)
      BY <1>5, <1>2, <1>4, Zenon DEF ServeError, Quiet
    <2>. QED  BY <1>2, <1>e, <2>1, <2>2, Zenon DEF Served1
  <1>6. CASE ServeAbort
    <2>1. Serving(q, 0, TRUE)
      BY <1>6, <1>2, <1>4, Zenon DEF ServeAbort, Serving, Served, Reply
    <2>2. Quiet(q, 0, TRUE)
      BY <1>6, <1>2, <1>4, Zenon DEF ServeAbort, Quiet
    <2>. QED  BY <1>2, <1>e, <2>1, <2>2, Zenon DEF Served1
  <1>7. CASE ServeBegin
    <2>1. Serving(q, Len(begun) + 1, FALSE)
      BY <1>7, <1>2, <1>3 DEF ServeBegin, Serving, Served, Reply, NoEnv
    <2>2. Beginning(q, Len(begun) + 1, FALSE)
      BY <1>7, <1>2, Zenon DEF ServeBegin, Beginning
    <2>3. Len(begun) + 1 \in Envs
      BY <1>7, <1>3 DEF ServeBegin, Envs
    <2>. QED  BY <1>2, <2>1, <2>2, <2>3, Zenon DEF Served1
  <1>8. CASE ServeBatch
    <2>1. PICK err \in BOOLEAN : Reply(q, ResetEnv(q), err)
      BY <1>8, Zenon DEF ServeBatch
    <2>2. Serving(q, ResetEnv(q), err)
      BY <1>8, <2>1, <1>2, <1>4, Zenon DEF ServeBatch, Serving, Served, Reply
    <2>3. Batch(q, ResetEnv(q))
      BY <1>8, <1>2, Zenon DEF ServeBatch, Batch
    <2>. QED  BY <1>2, <1>e, <2>2, <2>3, Zenon DEF Served1
  <1>9. CASE ServeCommit
    <2>1. Serving(q, 0, FALSE)
      BY <1>9, <1>2, <1>4, Zenon DEF ServeCommit, Serving, Served, Reply
    <2>2. Committing(q, 0)
      BY <1>9, <1>2, <1>4, Zenon DEF ServeCommit, Committing
    <2>. QED  BY <1>2, <1>e, <2>1, <2>2, Zenon DEF Served1
  <1>10. CASE ServeRollback
    <2>1. Serving(q, 0, FALSE)
      BY <1>10, <1>2, <1>4, Zenon DEF ServeRollback, Serving, Served, Reply
    <2>2. Quiet(q, 0, FALSE)
      BY <1>10, <1>2, <1>4, Zenon DEF ServeRollback, Quiet
    <2>. QED  BY <1>2, <1>e, <2>1, <2>2, Zenon DEF Served1
  <1>. QED
    BY <1>5, <1>6, <1>7, <1>8, <1>9, <1>10, Zenon DEF Server

-----------------------------------------------------------------------------
(* The same for the driver's calls: those that write a request, and those   *)
(* that return without touching what is on its way.                         *)

Sending(k) ==
    /\ k \in Kinds \ {"init"} /\ Idle /\ Write(k, user, reset)
    /\ IF k = "begin" THEN ~inTx ELSE ~Aborted
    /\ k \in {"commit", "rollback"} => inTx
    /\ UNCHANGED <<place, user>>

Returning(k, r) ==
    /\ k \in {"exec", "query", "sqlcommit", "commit", "rollback"} /\ r \in Outcomes
    /\ Return(k, r) /\ good /\ good' \in {good, FALSE}
    /\ place = "held" /\ call \in {NoCall, k}
    /\ k = "commit" => call = NoCall
    /\ r = "ok" => k = "rollback" /\ Aborted /\ call = NoCall
    /\ IF call = NoCall THEN busy' = busy ELSE ~busy /\ busy'
    /\ busy' \in BOOLEAN
    /\ \/ UNCHANGED <<reset, spoiled>>
       \/ reset' = FALSE /\ spoiled' = spoiled \cup {u \in {user} : reset}
    /\ UNCHANGED <<tranid, user, calls, wire, replies, behind, serverVars>>

\* A reader has come to the end of a message, or has missed nothing in it: of
\* a call that has returned, or of the current one.
TakenOff ==
    /\ replies # <<>> /\ Head(replies).env = NoEnv
    /\ replies' = Tail(replies)
    /\ UNCHANGED <<tranid, reset, user, calls, wire, behind, serverVars, spoiled>>

Drained ==
    /\ TakenOff /\ busy /\ busy' = FALSE
    /\ UNCHANGED <<good, inTx, place, tx, call, last>>

Ended(r) ==
    /\ TakenOff /\ Reads /\ busy' = busy
    /\ r \in Outcomes /\ Return(call, r) /\ good' \in {good, FALSE}
    /\ r = "ok" => ~Head(replies).err

\* The connection falls behind, or is behind already.
Losing ==
    /\ behind' = TRUE /\ good' \in {good, FALSE}
    /\ busy' \in BOOLEAN /\ replies' \in Seq(Answer) /\ tranid' \in 0..MaxTx
    /\ \/ UNCHANGED <<good, inTx, place, tx, call, last, wire>>
       \/ /\ call # NoCall /\ \E r \in {"err", "ctx"} : Return(call, r)
          /\ wire' \in {wire, Append(wire, Attention)}
    /\ UNCHANGED <<reset, user, calls, serverVars, spoiled>>

\* The server confirms an attention.
Confirming ==
    /\ behind /\ wire # <<>> /\ wire[1].kind = "attn"
    /\ wire' = Tail(wire) /\ replies' \in Seq(Answer)
    /\ UNCHANGED <<connVars, poolVars, callVars, busy, behind, serverVars, spoiled>>

\* A reader that stops has lost nothing, or the connection falls behind.
LEMMA StopCases ==
    ASSUME TypeOK, Stop
    PROVE  \/ behind' = TRUE /\ replies' \in Seq(Answer)
           \/ /\ replies # <<>> /\ Head(replies).env = NoEnv
              /\ replies' = Tail(replies) /\ behind' = behind
  <1>1. replies \in Seq(Answer) /\ behind \in BOOLEAN
    BY Zenon DEF TypeOK, Shapes, Flags
  <1>2. CASE UNCHANGED replies /\ behind' = TRUE
    BY <1>1, <1>2, Zenon
  <1>3. CASE /\ replies # <<>> /\ replies' = Tail(replies)
             /\ behind' = (behind \/ Head(replies).env # NoEnv)
    <2>1. replies' \in Seq(Answer)
      BY <1>1, <1>3, TailEntries, Zenon
    <2>. QED  BY <1>1, <1>3, <2>1, Zenon
  <1>. QED  BY <1>2, <1>3, Zenon DEF Stop

\* Every step is one of these.
LEMMA NextCases ==
    ASSUME TypeOK, CallInv, Next
    PROVE  \/ \E k \in Kinds : Sending(k)
           \/ \E k \in Kinds, r \in Outcomes : Returning(k, r)
           \/ Fail \/ ProcessEnvChg \/ Drained \/ (\E r \in Outcomes : Ended(r))
           \/ Losing \/ Confirming
           \/ \E q \in Request, env \in Envs, err \in BOOLEAN : Served1(q, env, err)
           \/ Grab \/ Release
  <1>0. /\ replies \in Seq(Answer) /\ tranid \in 0..MaxTx
        /\ busy \in BOOLEAN /\ behind \in BOOLEAN
    BY Zenon DEF TypeOK, Shapes, Flags
  <1>1. ASSUME NEW k \in Kinds \ {"init"}, Idle, Send(k),
               IF k = "begin" THEN ~inTx ELSE ~Aborted,
               k \in {"commit", "rollback"} => inTx
        PROVE  \E j \in Kinds : Sending(j)
    BY <1>1, Zenon DEF Sending, Send
  <1>2. CASE Begin
    BY <1>1, <1>2, Zenon DEF Begin, Kinds
  <1>3. CASE Commit
    BY <1>1, <1>3, Zenon DEF Commit, Kinds
  <1>4. CASE Rollback
    BY <1>1, <1>4, Zenon DEF Rollback, Kinds
  <1>5. CASE \E k \in {"exec", "query", "sqlcommit"} : Exec(k)
    BY <1>1, <1>5, Zenon DEF Exec, Kinds
  <1>7. ASSUME NEW k \in {"exec", "commit", "rollback"}, Refuse(k)
        PROVE  \E j \in Kinds, r \in Outcomes : Returning(j, r)
    <2>. DEFINE r == IF k = "rollback" THEN "ok" ELSE "err"
    <2>1. Returning(k, r)
      BY <1>0, <1>7, Zenon DEF Refuse, Returning, Idle, Outcomes, readVars
    <2>. QED  BY <2>1, Zenon DEF Kinds, Outcomes
  <1>8. CASE BadParams
    <2>1. Returning("exec", "err")
      BY <1>0, <1>8, Zenon DEF BadParams, Returning, Idle, Outcomes, readVars
    <2>. QED  BY <2>1, Zenon DEF Kinds, Outcomes
  <1>9. CASE RollbackAbandoned
    <2>1. Returning("rollback", "ctx")
      BY <1>9, Zenon DEF RollbackAbandoned, Reads, Returning, Outcomes, CallInv, NoCall
    <2>. QED  BY <2>1, Zenon DEF Kinds, Outcomes
  <1>10. CASE ReturnsEarly
    <2>1. Returning(call, "err")
      BY <1>10, Zenon DEF ReturnsEarly, Reads, Returning, Outcomes, CallInv, NoCall
    <2>. QED  BY <1>10, <2>1, Zenon DEF ReturnsEarly, Kinds, Outcomes
  <1>11. CASE Undecodable
    <2>1. CASE behind' = TRUE /\ replies' \in Seq(Answer)
      BY <1>0, <1>11, <2>1, Zenon DEF Undecodable, Losing, Reads
    <2>2. CASE /\ replies # <<>> /\ Head(replies).env = NoEnv
               /\ replies' = Tail(replies) /\ behind' = behind
      <3>1. Ended("err")
        BY <1>11, <2>2, Zenon DEF Undecodable, Ended, TakenOff, Outcomes
      <3>. QED  BY <3>1, Zenon DEF Outcomes
    <2>. QED  BY <1>11, <2>1, <2>2, StopCases, Zenon DEF Undecodable
  <1>12. CASE StopAbandoned
    <2>1. CASE behind' = TRUE /\ replies' \in Seq(Answer)
      BY <1>0, <1>12, <2>1, Zenon
      DEF StopAbandoned, Losing, connVars, poolVars, callVars
    <2>2. CASE /\ replies # <<>> /\ Head(replies).env = NoEnv
               /\ replies' = Tail(replies) /\ behind' = behind
      BY <1>12, <2>2, Zenon
      DEF StopAbandoned, Drained, TakenOff, connVars, poolVars, callVars
    <2>. QED  BY <1>12, <2>1, <2>2, StopCases, Zenon DEF StopAbandoned
  <1>13. CASE CloseFails
    <2>1. replies' \in Seq(Answer)
      BY <1>0, <1>13, TailEntries, Zenon DEF CloseFails
    <2>2. busy' \in BOOLEAN
      BY <1>13, Zenon DEF CloseFails
    <2>. QED  BY <1>0, <1>13, <2>1, <2>2, Zenon DEF CloseFails, Losing, Reads
  <1>14. CASE CancelBehind
    <2>1. replies # <<>> /\ Tail(replies) \in Seq(Answer) /\ replies[1] \in Answer
      BY <1>0, <1>14, TailEntries, Zenon DEF CancelBehind
    <2>2. Len(replies) > 1 => Tail(Tail(replies)) \in Seq(Answer) /\ replies[2] \in Answer
      <3>1. ASSUME Len(replies) > 1
            PROVE  Tail(replies) # <<>> /\ replies[2] \in Answer
        <4>1. /\ Len(replies) \in Nat /\ Len(Tail(replies)) \in Nat
              /\ Len(Tail(replies)) = Len(replies) - 1
          BY <1>0, <2>1, TailEntries
        <4>a. \A n \in Nat, m \in Nat : n > 1 /\ m = n - 1 => m # 0 /\ 2 \in 1..n
          OBVIOUS
        <4>2. Len(Tail(replies)) # 0 /\ 2 \in 1..Len(replies)
          BY <3>1, <4>1, <4>a, Zenon
        <4>. QED  BY <1>0, <2>1, <4>2, EmptySeq, ElementOfSeq, Zenon
      <3>. QED  BY <2>1, <3>1, TailEntries, Zenon
    <2>3. \A id \in 0..MaxTx, a \in Answer : After(id, a) \in 0..MaxTx
      BY DEF After, Answer
    <2>4. replies' \in Seq(Answer) /\ tranid' \in 0..MaxTx
      BY <1>0, <1>14, <2>1, <2>2, <2>3, Zenon DEF CancelBehind
    <2>5. behind' = TRUE /\ busy' \in BOOLEAN
      BY <1>0, <1>14, Zenon DEF CancelBehind
    <2>. QED  BY <1>14, <2>4, <2>5, Zenon DEF CancelBehind, Losing, Reads
  <1>15. CASE EndAbandoned
    BY <1>15, Zenon DEF EndAbandoned, Drained, TakenOff, connVars, poolVars, callVars
  <1>16. CASE EndReply
    <2>1. CASE Return(call, IF Head(replies).err THEN "err" ELSE "ok") /\ UNCHANGED good
      <3>. DEFINE r == IF Head(replies).err THEN "err" ELSE "ok"
      <3>1. Ended(r)
        BY <1>16, <2>1, Zenon DEF EndReply, Ended, TakenOff, Outcomes
      <3>. QED  BY <3>1, Zenon DEF Outcomes
    <2>2. CASE Return(call, "ctx") /\ good' \in {good, FALSE}
      <3>1. Ended("ctx")
        BY <1>16, <2>2, Zenon DEF EndReply, Ended, TakenOff, Outcomes
      <3>. QED  BY <3>1, Zenon DEF Outcomes
    <2>. QED  BY <1>16, <2>1, <2>2, Zenon DEF EndReply
  <1>17. CASE ServeAttention
    <2>1. wire # <<>> /\ Head(wire).kind = "attn" /\ wire \in Seq(Request)
      BY <1>17, Zenon DEF ServeAttention, TypeOK, Shapes
    <2>2. wire[1].kind = "attn" /\ 1 \in 1..Len(wire)
      BY <2>1, TailEntries
    <2>3. behind
      BY <2>2, Zenon DEF CallInv
    <2>4. [env |-> NoEnv, err |-> FALSE] \in Answer
      BY Zenon DEF Answer
    <2>5. replies' \in Seq(Answer)
      BY <1>0, <1>17, <2>4, AppendEntries, Zenon DEF ServeAttention, Reply
    <2>. QED  BY <1>17, <2>2, <2>3, <2>5, Zenon DEF ServeAttention, Confirming
  <1>. QED
    BY <1>2, <1>3, <1>4, <1>5, <1>7, <1>8, <1>9, <1>10, <1>11, <1>12, <1>13, <1>14,
       <1>15, <1>16, <1>17, ServerStep, Zenon
    DEF Next, Driver, Reader

-----------------------------------------------------------------------------
(* What the steps do to the entries of the two queues.                      *)

Sizes == Len(wire) \in Nat /\ Len(replies) \in Nat /\ calls \in Nat

Entries ==
    /\ \A i \in 1..Len(wire) : wire[i] \in Request
    /\ \A i \in 1..Len(replies) : replies[i] \in Answer

\* The queues hold requests and answers.
LEMMA QueueTypes ==
    ASSUME TypeOK
    PROVE  /\ Sizes /\ Entries
           /\ wire \in Seq(Request) /\ replies \in Seq(Answer)
           /\ (wire = <<>> <=> Len(wire) = 0)
           /\ (replies = <<>> <=> Len(replies) = 0)
  <1>1. wire \in Seq(Request) /\ replies \in Seq(Answer) /\ calls \in Nat
    BY DEF TypeOK, Shapes
  <1>. QED
    BY <1>1, ElementOfSeq, LenProperties, EmptySeq, Zenon DEF Sizes, Entries

\* Write adds a request.
Added(q, k, u, r) ==
    /\ q.kind = k /\ q.reset = r /\ q.user = u
    /\ q.want = tx /\ q.hdr = IF k = "begin" THEN 0 ELSE tranid
    /\ Len(wire') = Len(wire) + 1 /\ wire'[Len(wire) + 1] = q
    /\ \A i \in 1..Len(wire) : wire'[i] = wire[i]
    /\ \A i \in 1..Len(wire') : i \in 1..Len(wire) \/ i = Len(wire) + 1

\* The added request is the one Write describes.
LEMMA WriteQueue ==
    ASSUME TypeOK, NEW k \in Kinds, NEW u \in 1..MaxUsers,
           NEW r \in BOOLEAN, Write(k, u, r)
    PROVE  \E q \in Request : Added(q, k, u, r)
  <1>. DEFINE q == [kind |-> k,
                    hdr |-> IF k = "begin" THEN 0 ELSE tranid,
                    reset |-> r, user |-> u, want |-> tx]
  <1>1. wire' = Append(wire, q) /\ q \in Request
    BY RequestType, Zenon DEF Write
  <1>2. /\ q.kind = k /\ q.reset = r /\ q.user = u
        /\ q.want = tx /\ q.hdr = IF k = "begin" THEN 0 ELSE tranid
    BY Zenon
  <1>. HIDE DEF q
  <1>3. /\ Len(wire') = Len(wire) + 1 /\ wire'[Len(wire) + 1] = q
        /\ \A i \in 1..Len(wire) : wire'[i] = wire[i]
    BY <1>1, QueueTypes, AppendEntries
  <1>4. \A i \in 1..Len(wire') : i \in 1..Len(wire) \/ i = Len(wire) + 1
    BY <1>3, QueueTypes DEF Sizes
  <1>5. Added(q, k, u, r)
    BY <1>2, <1>3, <1>4, Zenon DEF Added
  <1>. QED
    BY <1>1, <1>5, Zenon

\* Serving moves the first request to the end of the replies.
Taken(q) ==
    /\ q = wire[1] /\ 1 \in 1..Len(wire) /\ wire # <<>>
    /\ Len(wire') = Len(wire) - 1
    /\ \A i \in 1..Len(wire') : i + 1 \in 1..Len(wire) /\ wire'[i] = wire[i + 1]
    /\ wire' = <<>> <=> Len(wire) = 1

Answered(q, env, err) ==
    /\ Len(replies') = Len(replies) + 1
    /\ \A i \in 1..Len(replies') : i \in 1..Len(replies) \/ i = Len(replies) + 1
    /\ \A i \in 1..Len(replies) : replies'[i] = replies[i]
    /\ replies'[Len(replies) + 1].env = env
    /\ replies'[Len(replies) + 1].err = err

\* Every step of the server does this.
LEMMA ServeQueue ==
    ASSUME TypeOK, NEW q \in Request, NEW env \in Envs, NEW err \in BOOLEAN,
           Served1(q, env, err)
    PROVE  Taken(q) /\ Answered(q, env, err)
  <1>. DEFINE a == [env |-> env, err |-> err]
  <1>1. a \in Answer
    BY Zenon DEF Answer, Envs
  <1>2. a.env = env /\ a.err = err
    BY Zenon
  <1>3. /\ wire # <<>> /\ wire' = Tail(wire) /\ q = wire[1]
        /\ replies' = Append(replies, a)
    BY Zenon DEF Served1, Serving
  <1>. HIDE DEF a
  <1>4. Sizes /\ wire \in Seq(Request) /\ replies \in Seq(Answer)
    BY QueueTypes, Zenon
  <1>5. /\ wire' \in Seq(Request) /\ Len(wire) >= 1 /\ Len(wire') = Len(wire) - 1
        /\ \A i \in 1..(Len(wire) - 1) : wire'[i] = wire[i + 1]
    BY <1>3, <1>4, TailEntries, Zenon
  <1>6. /\ Len(replies') = Len(replies) + 1
        /\ \A i \in 1..Len(replies) : replies'[i] = replies[i]
        /\ replies'[Len(replies) + 1] = a
    BY <1>1, <1>3, <1>4, AppendEntries
  <1>7. wire' = <<>> <=> Len(wire') = 0
    BY <1>5, EmptySeq, Zenon
  <1>8. \A i \in 1..Len(wire') :
           i + 1 \in 1..Len(wire) /\ wire'[i] = wire[i + 1]
    BY <1>4, <1>5 DEF Sizes
  <1>9. 1 \in 1..Len(wire) /\ (Len(wire') = 0 <=> Len(wire) = 1)
    BY <1>4, <1>5 DEF Sizes
  <1>10. \A i \in 1..Len(replies') : i \in 1..Len(replies) \/ i = Len(replies) + 1
    BY <1>4, <1>6 DEF Sizes
  <1>11. Taken(q)
    BY <1>3, <1>5, <1>7, <1>8, <1>9, Zenon DEF Taken
  <1>12. Answered(q, env, err)
    BY <1>2, <1>6, <1>10, Zenon DEF Answered
  <1>. QED
    BY <1>11, <1>12, Zenon

\* The end of a reply takes it from the queue.
LEMMA EndQueue ==
    ASSUME TypeOK, replies # <<>>, replies' = Tail(replies)
    PROVE  /\ Head(replies) = replies[1] /\ 1 \in 1..Len(replies)
           /\ Len(replies') = Len(replies) - 1
           /\ \A i \in 1..Len(replies') :
                 i + 1 \in 1..Len(replies) /\ replies'[i] = replies[i + 1]
  <1>1. Sizes /\ replies \in Seq(Answer)
    BY QueueTypes, Zenon
  <1>2. /\ Head(replies) = replies[1] /\ Len(replies) >= 1
        /\ Len(replies') = Len(replies) - 1
        /\ \A i \in 1..(Len(replies) - 1) : replies'[i] = replies[i + 1]
    BY <1>1, TailEntries, Zenon
  <1>. QED
    BY <1>1, <1>2 DEF Sizes

\* An announcement is taken from the first reply.
LEMMA EnvQueue ==
    ASSUME TypeOK, ProcessEnvChg
    PROVE  /\ 1 \in 1..Len(replies) /\ Len(replies') = Len(replies)
           /\ replies[1].env # NoEnv /\ tranid' = replies[1].env
           /\ replies'[1].env = NoEnv
           /\ \A i \in 1..Len(replies) :
                 replies'[i].err = replies[i].err
           /\ \A i \in 2..Len(replies) : replies'[i] = replies[i]
  <1>1. /\ Sizes /\ replies \in Seq(Answer) /\ replies # <<>>
        /\ Head(replies) = replies[1] /\ Head(replies).env # NoEnv
        /\ tranid' = Head(replies).env
        /\ replies' = [replies EXCEPT ![1].env = NoEnv]
    BY QueueTypes, TailEntries, Zenon DEF ProcessEnvChg
  <1>2. 1 \in 1..Len(replies) /\ replies[1] \in Answer
    BY <1>1, TailEntries
  <1>. DEFINE a == [replies[1] EXCEPT !.env = NoEnv]
  <1>3. a \in Answer /\ a.env = NoEnv /\ a.err = replies[1].err
    BY <1>2, Zenon DEF Answer
  <1>4. replies' = [replies EXCEPT ![1] = a]
    BY <1>1, Zenon
  <1>. HIDE DEF a
  <1>5. /\ Len(replies') = Len(replies)
        /\ \A j \in 1..Len(replies) : replies'[j] = IF j = 1 THEN a ELSE replies[j]
    BY <1>1, <1>2, <1>3, <1>4, ExceptSeq
  <1>. QED
    BY <1>1, <1>2, <1>3, <1>5 DEF Sizes

\* What a call that returns without success leaves.
LEMMA ReturnFails ==
    ASSUME TypeOK, CallInv, NEW r \in {"err", "ctx"}, call # NoCall, Return(call, r)
    PROVE  /\ call \in Kinds /\ r \in Outcomes /\ call' = NoCall
           /\ inTx' \in {FALSE, inTx} /\ tx' \in {0, tx} /\ (tx' # 0 => inTx' = inTx)
           /\ place' # "init" /\ (place' # place => place' = "closed")
           /\ last'.kind = NoCall
  <1>1. call \in Kinds /\ r \in Outcomes /\ r # "ok"
    BY Zenon DEF TypeOK, Shapes, Outcomes
  <1>2. inTx' \in {FALSE, inTx} /\ tx' \in {0, tx} /\ (tx' # 0 => inTx' = inTx)
    BY <1>1, Zenon DEF Return
  <1>3. place' # "init" /\ (place' # place => place' = "closed")
    BY <1>1, Zenon DEF Return, CallInv
  <1>4. last'.kind = NoCall
    BY <1>1 DEF Return
  <1>. QED  BY <1>1, <1>2, <1>3, <1>4, Zenon DEF Return

\* An attention has the type of a request.
LEMMA AttentionType ==
    ASSUME TypeOK, CallInv, call # NoCall
    PROVE  Attention \in Request /\ wire \in Seq(Request)
  <1>1. user \in 1..MaxUsers
    <2>1. place # "pool" /\ user \in 0..MaxUsers
      BY Zenon DEF CallInv, TypeOK, Shapes
    <2>. QED  BY <2>1 DEF CallInv
  <1>2. 0 \in 0..MaxTx
    OBVIOUS
  <1>. QED  BY <1>1, <1>2, Zenon DEF Attention, Request, TypeOK, Shapes

\* What is on the wire after the connection has fallen behind: the requests
\* that were, and at most an attention more.
LosingWire ==
    \/ wire' = wire
    \/ /\ call # NoCall /\ Len(wire') = Len(wire) + 1
       /\ wire'[Len(wire) + 1] = Attention
       /\ \A i \in 1..Len(wire) : wire'[i] = wire[i]
       /\ \A i \in 1..Len(wire') : i \in 1..Len(wire) \/ i = Len(wire) + 1
       /\ wire' # <<>>

\* Losing does that.
LEMMA LosingQueue ==
    ASSUME TypeOK, CallInv, Losing
    PROVE  LosingWire /\ wire' \in Seq(Request)
  <1>1. CASE wire' = wire
    BY <1>1, Zenon DEF LosingWire, TypeOK, Shapes
  <1>2. CASE call # NoCall /\ wire' = Append(wire, Attention)
    <2>1. /\ wire' \in Seq(Request) /\ Len(wire') = Len(wire) + 1
          /\ \A i \in 1..Len(wire) : wire'[i] = wire[i]
          /\ wire'[Len(wire) + 1] = Attention
      BY <1>2, AttentionType, AppendEntries
    <2>2. Len(wire) \in Nat
      BY QueueTypes, Zenon DEF Sizes
    <2>3. \A i \in 1..Len(wire') : i \in 1..Len(wire) \/ i = Len(wire) + 1
      BY <2>1, <2>2
    <2>4. Len(wire') # 0
      BY <2>1, <2>2
    <2>. QED  BY <1>2, <2>1, <2>3, <2>4, EmptySeq, Zenon DEF LosingWire
  <1>. QED  BY <1>1, <1>2, Zenon DEF Losing

\* Confirming takes the first request from the wire.
ConfirmedWire ==
    /\ 1 \in 1..Len(wire) /\ Len(wire') = Len(wire) - 1
    /\ \A i \in 1..Len(wire') : i + 1 \in 1..Len(wire) /\ wire'[i] = wire[i + 1]
    /\ wire' \in Seq(Request) /\ (wire' = <<>> <=> Len(wire) = 1)

\* It does that.
LEMMA ConfirmingQueue ==
    ASSUME TypeOK, Confirming
    PROVE  ConfirmedWire
  <1>1. Sizes /\ wire \in Seq(Request) /\ wire # <<>> /\ wire' = Tail(wire)
    BY QueueTypes, Zenon DEF Confirming
  <1>2. /\ wire' \in Seq(Request) /\ Len(wire) >= 1 /\ Len(wire') = Len(wire) - 1
        /\ \A i \in 1..(Len(wire) - 1) : wire'[i] = wire[i + 1]
    BY <1>1, TailEntries, Zenon
  <1>3. wire' = <<>> <=> Len(wire') = 0
    BY <1>2, EmptySeq, Zenon
  <1>4. \A i \in 1..Len(wire') : i + 1 \in 1..Len(wire) /\ wire'[i] = wire[i + 1]
    BY <1>1, <1>2 DEF Sizes
  <1>5. 1 \in 1..Len(wire) /\ (Len(wire') = 0 <=> Len(wire) = 1)
    BY <1>1, <1>2 DEF Sizes
  <1>. QED  BY <1>2, <1>3, <1>4, <1>5, Zenon DEF ConfirmedWire

-----------------------------------------------------------------------------
(* One lemma per conjunct of the invariant.                                 *)

\* The flags stay Boolean.
LEMMA FlagsStep ==
    ASSUME TypeOK, CallInv, Next
    PROVE  Flags'
  <1>. USE DEF TypeOK, Flags
  <1>1. CASE \E k \in Kinds : Sending(k)
    BY <1>1, Zenon DEF Sending, Write, readVars
  <1>2. ASSUME NEW k \in Kinds, NEW r \in Outcomes, Returning(k, r)
        PROVE  Flags'
    <2>1. inTx' \in BOOLEAN
      BY <1>2, ReturnType, Zenon DEF Returning
    <2>. QED  BY <1>2, <2>1, Zenon DEF Returning
  <1>3. CASE Fail
    <2>1. call \in Kinds /\ "err" \in Outcomes /\ Return(call, "err")
      BY <1>3, Zenon DEF Fail, Shapes, Outcomes
    <2>2. inTx' \in BOOLEAN
      BY <2>1, ReturnType, Zenon
    <2>. QED  BY <1>3, <2>2, Zenon DEF Fail
  <1>4. CASE ProcessEnvChg
    BY <1>4, Zenon DEF ProcessEnvChg
  <1>5. CASE Drained
    BY <1>5, Zenon DEF Drained, TakenOff
  <1>6. ASSUME NEW r \in Outcomes, Ended(r)
        PROVE  Flags'
    <2>1. Return(call, r) /\ call \in Kinds
      BY <1>6, Zenon DEF Ended, Reads, Shapes
    <2>2. inTx' \in BOOLEAN
      BY <2>1, ReturnType, Zenon
    <2>. QED  BY <1>6, <2>2, Zenon DEF Ended, TakenOff
  <1>a. CASE Losing
    <2>1. inTx' \in BOOLEAN
      BY <1>a, ReturnFails, Zenon DEF Losing
    <2>. QED  BY <1>a, <2>1, Zenon DEF Losing
  <1>b. CASE Confirming
    BY <1>b, Zenon DEF Confirming, connVars
  <1>7. CASE \E q \in Request, env \in Envs, err \in BOOLEAN : Served1(q, env, err)
    BY <1>7, Zenon DEF Served1, Serving, connVars
  <1>8. CASE Grab
    BY <1>8, Zenon DEF Grab, Write, readVars
  <1>9. CASE Release
    BY <1>9, Zenon DEF Release, connVars, readVars
  <1>. QED
    BY <1>1, <1>2, <1>3, <1>4, <1>5, <1>6, <1>7, <1>8, <1>9, <1>a, <1>b, NextCases,
       Zenon

\* The other variables keep their types.
LEMMA ShapesStep ==
    ASSUME TypeOK, CallInv, Next
    PROVE  Shapes'
  <1>. USE DEF Shapes
  <1>0. Shapes /\ reset \in BOOLEAN
    BY Zenon DEF TypeOK, Flags
  <1>1. ASSUME NEW k \in Kinds, Sending(k)
        PROVE  Shapes'
    <2>1. user \in 1..MaxUsers
      BY <1>0, <1>1 DEF Sending, Idle, CallInv
    <2>2. call' \in Kinds /\ calls' \in 0..MaxCalls /\ wire' \in Seq(Request)
      BY <1>0, <1>1, <2>1, WriteType, Zenon DEF Sending
    <2>. QED  BY <1>0, <1>1, <2>2, Zenon DEF Sending, Write, readVars, serverVars
  <1>2. ASSUME NEW k \in Kinds, NEW r \in Outcomes, Returning(k, r)
        PROVE  Shapes'
    <2>u. user \in 1..MaxUsers /\ spoiled \subseteq 1..MaxUsers
      BY <1>0, <1>2 DEF Returning, CallInv
    <2>1. spoiled' \subseteq 1..MaxUsers
      <3>1. \/ spoiled' = spoiled
            \/ spoiled' = spoiled \cup {u \in {user} : reset}
        BY <1>2, Zenon DEF Returning
      <3>. QED  BY <2>u, <3>1, Zenon
    <2>2. Return(k, r)
      BY <1>2, Zenon DEF Returning
    <2>. QED  BY <1>0, <1>2, <2>1, <2>2, ReturnType, Zenon DEF Returning, serverVars
  <1>3. CASE Fail
    <2>1. call \in Kinds /\ "err" \in Outcomes /\ Return(call, "err")
      BY <1>0, <1>3, Zenon DEF Fail, Outcomes
    <2>2. wire' \in Seq(Request) /\ replies' \in Seq(Answer)
      BY <1>0, <1>3, EmptySeq, Zenon DEF Fail
    <2>. QED  BY <1>0, <1>3, <2>1, <2>2, ReturnType, Zenon DEF Fail, serverVars
  <1>4. CASE ProcessEnvChg
    <2>1. /\ Head(replies) \in Answer /\ Head(replies) = replies[1]
          /\ 1 \in 1..Len(replies)
      BY <1>0, <1>4, TailEntries DEF ProcessEnvChg
    <2>2. tranid' \in 0..MaxTx
      BY <1>4, <2>1, Zenon DEF ProcessEnvChg, Answer
    <2>3. [replies[1] EXCEPT !.env = NoEnv] \in Answer
      BY <2>1, Zenon DEF Answer
    <2>4. replies' \in Seq(Answer)
      BY <1>0, <1>4, <2>1, <2>3, ExceptSeq, Zenon DEF ProcessEnvChg
    <2>. QED
      BY <1>0, <1>4, <2>2, <2>4, Zenon DEF ProcessEnvChg, poolVars, callVars, serverVars
  <1>5. CASE Drained
    <2>1. replies' \in Seq(Answer)
      BY <1>0, <1>5, TailEntries, Zenon DEF Drained, TakenOff
    <2>. QED
      BY <1>0, <1>5, <2>1, Zenon DEF Drained, TakenOff, serverVars
  <1>6. ASSUME NEW r \in Outcomes, Ended(r)
        PROVE  Shapes'
    <2>1. Return(call, r) /\ call \in Kinds
      BY <1>0, <1>6, Zenon DEF Ended, Reads
    <2>2. replies' \in Seq(Answer)
      BY <1>0, <1>6, TailEntries, Zenon DEF Ended, TakenOff
    <2>. QED
      BY <1>0, <1>6, <2>1, <2>2, ReturnType, Zenon DEF Ended, TakenOff, serverVars
  <1>a. CASE Losing
    <2>1. wire' \in Seq(Request)
      BY <1>a, LosingQueue, Zenon
    <2>2. CASE UNCHANGED <<good, inTx, place, tx, call, last, wire>>
      BY <1>0, <1>a, <2>1, <2>2, Zenon DEF Losing, serverVars
    <2>3. ASSUME call # NoCall, NEW r \in {"err", "ctx"}, Return(call, r)
          PROVE  Shapes'
      <3>1. call \in Kinds /\ r \in Outcomes
        BY <2>3, ReturnFails, Zenon
      <3>. QED
        BY <1>0, <1>a, <2>1, <2>3, <3>1, ReturnType, Zenon DEF Losing, serverVars
    <2>. QED  BY <1>a, <2>2, <2>3, Zenon DEF Losing
  <1>b. CASE Confirming
    <2>1. wire' \in Seq(Request)
      BY <1>b, ConfirmingQueue, Zenon DEF ConfirmedWire
    <2>. QED
      BY <1>0, <1>b, <2>1, Zenon
      DEF Confirming, connVars, poolVars, callVars, serverVars
  <1>7. ASSUME NEW q \in Request, NEW env \in Envs, NEW err \in BOOLEAN,
               Served1(q, env, err)
        PROVE  Shapes'
    <2>1. wire' \in Seq(Request)
      BY <1>0, <1>7, TailEntries, Zenon DEF Served1, Serving
    <2>2. [env |-> env, err |-> err] \in Answer
      BY Zenon DEF Answer, Envs
    <2>3. replies' \in Seq(Answer)
      BY <1>0, <1>7, <2>2, AppendEntries, Zenon DEF Served1, Serving
    <2>4. srvTx' \in 0..MaxTx /\ resetFor' \in 0..MaxUsers
      BY <1>0, <1>7, SMTT(20) DEF Served1, Serving, Envs, Request
    <2>5. AfterReset(q) \in 0..MaxTx /\ q.user \in 1..MaxUsers /\ q.want \in 0..MaxTx
      BY <1>0 DEF AfterReset, Request
    <2>6. ran' \subseteq [user : 1..MaxUsers, want : 0..MaxTx, got : 0..MaxTx]
      BY <1>0, <1>7, <2>5 DEF Served1, Quiet, Beginning, Batch, Committing
    <2>7. committed' \subseteq TxId
      <3>1. \/ committed' = committed
            \/ /\ AfterReset(q) \in TxId
               /\ committed' = committed \cup {t \in {AfterReset(q)} : q.kind = "commit"}
        BY <1>7, <2>5 DEF Served1, Quiet, Beginning, Batch, Committing, TxId
      <3>. QED  BY <1>0, <3>1, Zenon
    <2>8. begun' \in Seq(1..MaxUsers) /\ Len(begun') <= MaxTx
      <3>1. \/ begun' = begun
            \/ begun' = Append(begun, q.user) /\ Len(begun) < MaxTx
        BY <1>7, Zenon DEF Served1, Quiet, Beginning, Batch, Committing
      <3>2. /\ Append(begun, q.user) \in Seq(1..MaxUsers)
            /\ Len(Append(begun, q.user)) = Len(begun) + 1
        BY <1>0, <2>5, AppendEntries
      <3>3. Len(begun) \in Nat
        BY <1>0, LenProperties, Zenon
      <3>4. CASE begun' = begun
        BY <1>0, <3>4, Zenon
      <3>5. CASE begun' = Append(begun, q.user) /\ Len(begun) < MaxTx
        <4>. HIDE DEF Shapes
        <4>. QED  BY <3>2, <3>3, <3>5
      <3>. QED  BY <3>1, <3>4, <3>5, Zenon
    <2>. QED
      BY <1>0, <1>7, <2>1, <2>3, <2>4, <2>6, <2>7, <2>8, Zenon
      DEF Served1, Serving, connVars, poolVars, callVars
  <1>8. CASE Grab
    <2>1. user' \in 1..MaxUsers /\ user' = user + 1
      BY <1>0, <1>8 DEF Grab
    <2>2. CASE ~Aborted /\ place' = "init" /\ Write("init", user + 1, TRUE)
      <3>1. "init" \in Kinds /\ TRUE \in BOOLEAN /\ user + 1 \in 1..MaxUsers
        BY <2>1, Zenon DEF Kinds
      <3>2. call' \in Kinds /\ calls' \in 0..MaxCalls /\ wire' \in Seq(Request)
        BY <2>2, <3>1, WriteType, Zenon
      <3>. QED  BY <1>0, <2>1, <2>2, <3>2 DEF Write, readVars, serverVars
    <2>3. CASE place' = "held" /\ UNCHANGED <<good, inTx, tranid, tx,
                  callVars, readVars, wire, serverVars, spoiled>>
      BY <1>0, <2>1, <2>3 DEF callVars, readVars, serverVars
    <2>. QED  BY <1>8, <2>2, <2>3, Zenon DEF Grab
  <1>9. CASE Release
    BY <1>0, <1>9 DEF Release, connVars, callVars, readVars, serverVars
  <1>. QED
    BY <1>1, <1>2, <1>3, <1>4, <1>5, <1>6, <1>7, <1>8, <1>9, <1>a, <1>b, NextCases,
       Zenon

\* The calls stay where CallInv says.
LEMMA CallStep ==
    ASSUME TypeOK, CallInv, Next
    PROVE  CallInv'
  <1>. DEFINE Place ==
         /\ call = "init" <=> place = "init"
         /\ call \notin {NoCall, "init"} => place = "held"
         /\ call # NoCall => good /\ ~reset
         /\ call \in {"commit", "rollback"} => inTx
         /\ place # "pool" => user # 0
  <1>. DEFINE Quiet1 == behind \/ \A i \in 1..Len(wire) : wire[i].kind # "attn"
  <1>. USE DEF NoCall
  <1>0. user \in Nat /\ Place /\ Quiet1
    BY DEF TypeOK, Shapes, CallInv
  <1>c. ASSUME Place', Quiet1'
        PROVE  CallInv'
    BY <1>c, Zenon DEF CallInv
  <1>w. ASSUME NEW k \in Kinds, NEW u \in 1..MaxUsers, NEW r \in BOOLEAN,
               Write(k, u, r)
        PROVE  Quiet1'
    <2>1. behind' = behind
      BY <1>w, Zenon DEF Write, readVars
    <2>2. PICK q \in Request : Added(q, k, u, r)
      <3>. HIDE DEF Quiet1
      <3>. QED  BY <1>w, WriteQueue, Zenon
    <2>3. \A i \in 1..Len(wire') : i \in 1..Len(wire) \/ i = Len(wire) + 1
      BY <2>2, Zenon DEF Added
    <2>4. q.kind # "attn"
      BY <2>2 DEF Added, Kinds
    <2>. QED  BY <1>0, <2>1, <2>2, <2>3, <2>4, Zenon DEF Added
  <1>1. ASSUME NEW k \in Kinds, Sending(k)
        PROVE  CallInv'
    <2>1. user \in 1..MaxUsers /\ reset \in BOOLEAN /\ Write(k, user, reset)
      BY <1>1 DEF Sending, Idle, CallInv, TypeOK, Flags, Shapes
    <2>2. Quiet1'
      BY <1>w, <2>1, Zenon
    <2>3. Place'
      BY <1>0, <1>1, Zenon DEF Sending, Write, Idle
    <2>. QED  BY <1>c, <2>2, <2>3, Zenon
  <1>2. ASSUME NEW k \in Kinds, NEW r \in Outcomes, Returning(k, r)
        PROVE  CallInv'
    BY <1>0, <1>c, <1>2, Zenon DEF Returning, Return
  <1>3. CASE Fail
    <2>1. Quiet1'
      BY <1>0, <1>3, EmptySeq DEF Fail
    <2>2. Place'
      BY <1>0, <1>3, Zenon DEF Fail, Return
    <2>. QED  BY <1>c, <2>1, <2>2, Zenon
  <1>4. CASE ProcessEnvChg
    BY <1>0, <1>c, <1>4, Zenon DEF ProcessEnvChg, poolVars, callVars
  <1>5. CASE Drained
    BY <1>0, <1>c, <1>5, Zenon DEF Drained, TakenOff
  <1>6. ASSUME NEW r \in Outcomes, Ended(r)
        PROVE  CallInv'
    <2>1. Place'
      BY <1>0, <1>6, Zenon DEF Ended, TakenOff, Reads, Return
    <2>2. Quiet1'
      BY <1>0, <1>6, Zenon DEF Ended, TakenOff
    <2>. QED  BY <1>c, <2>1, <2>2, Zenon
  <1>a. CASE Losing
    <2>1. Quiet1'
      BY <1>a, Zenon DEF Losing
    <2>2. CASE UNCHANGED <<good, inTx, place, tx, call, last, wire>>
      BY <1>0, <1>a, <1>c, <2>1, <2>2, Zenon DEF Losing
    <2>3. ASSUME call # NoCall, NEW r \in {"err", "ctx"}, Return(call, r)
          PROVE  CallInv'
      <3>1. call' = NoCall /\ place' # "init" /\ user' = user /\ user # 0
        BY <1>0, <1>a, <2>3, ReturnFails, Zenon DEF Losing
      <3>2. Place'
        BY <3>1, Zenon
      <3>. QED  BY <1>c, <2>1, <3>2, Zenon
    <2>. QED  BY <1>a, <2>2, <2>3, Zenon DEF Losing
  <1>b. CASE Confirming
    BY <1>0, <1>b, <1>c, Zenon DEF Confirming, connVars, poolVars, callVars
  <1>7. ASSUME NEW q \in Request, NEW env \in Envs, NEW err \in BOOLEAN,
               Served1(q, env, err)
        PROVE  CallInv'
    <2>1. Taken(q)
      <3>. HIDE DEF Quiet1, Place
      <3>. QED  BY <1>7, ServeQueue, Zenon
    <2>2. Quiet1'
      BY <1>0, <1>7, <2>1, Zenon DEF Served1, Serving, Taken
    <2>3. Place'
      BY <1>0, <1>7, Zenon DEF Served1, Serving, connVars, poolVars, callVars
    <2>. QED  BY <1>c, <2>2, <2>3, Zenon
  <1>8. CASE Grab
    <2>1. call = NoCall /\ user' # 0 /\ user + 1 \in 1..MaxUsers
          /\ "init" \in Kinds /\ TRUE \in BOOLEAN
      BY <1>0, <1>8 DEF Grab, TypeOK, Shapes, Kinds
    <2>2. CASE place' = "held" /\ reset' = TRUE /\ UNCHANGED <<callVars, readVars, wire>>
      BY <1>0, <1>c, <2>1, <2>2, Zenon DEF callVars, readVars
    <2>3. CASE place' = "init" /\ Write("init", user + 1, TRUE)
      <3>1. Quiet1'
        BY <1>w, <2>1, <2>3, Zenon
      <3>2. Place'
        BY <1>8, <2>1, <2>3, Zenon DEF Grab, Write
      <3>. QED  BY <1>c, <3>1, <3>2, Zenon
    <2>. QED  BY <1>8, <2>2, <2>3, Zenon DEF Grab
  <1>9. CASE Release
    <2>1. Place'
      BY <1>0, <1>9, Zenon DEF Release, connVars, callVars
    <2>2. Quiet1'
      BY <1>0, <1>9, Zenon DEF Release, readVars
    <2>. QED  BY <1>c, <2>1, <2>2, Zenon
  <1>. QED
    BY <1>1, <1>2, <1>3, <1>4, <1>5, <1>6, <1>7, <1>8, <1>9, <1>a, <1>b, NextCases,
       Zenon

-----------------------------------------------------------------------------
(* Every step keeps the conjuncts of the inductive invariant.               *)

\* Readers and messages come and go together.
LEMMA StepStep ==
    ASSUME TypeOK, CallInv, StepInv, Next
    PROVE  StepInv'
  <1>. USE DEF StepInv
  <1>0. Sizes /\ busy \in BOOLEAN
    BY QueueTypes, Zenon DEF TypeOK, Flags
  <1>b. ASSUME behind'
        PROVE  StepInv'
    BY <1>b, Zenon
  <1>s. ASSUME good' => good, UNCHANGED <<behind, wire, replies, busy, call>>
        PROVE  StepInv'
    BY <1>s, Zenon DEF Readers
  <1>w. ASSUME NEW k \in Kinds, NEW u \in 1..MaxUsers, NEW r \in BOOLEAN,
               Write(k, u, r), call = NoCall
        PROVE  StepInv'
    <2>1. /\ UNCHANGED <<good, busy, replies, behind>> /\ call' = k /\ k # NoCall
      BY <1>w DEF Write, readVars, Kinds, NoCall
    <2>2. Len(wire') = Len(wire) + 1
      <3>. HIDE DEF StepInv
      <3>. QED  BY <1>w, WriteQueue, Zenon DEF Added
    <2>3. Readers' = Readers + 1
      BY <1>w, <2>1 DEF Readers
    <2>4. Readers \in Nat
      BY DEF Readers
    <2>. QED  BY <1>0, <2>1, <2>2, <2>3, <2>4 DEF Sizes
  <1>1. ASSUME NEW k \in Kinds, Sending(k)
        PROVE  StepInv'
    <2>1. /\ user \in 1..MaxUsers /\ reset \in BOOLEAN /\ Write(k, user, reset)
          /\ call = NoCall
      BY <1>1 DEF Sending, Idle, CallInv, TypeOK, Flags, Shapes
    <2>. HIDE DEF StepInv
    <2>. QED  BY <1>w, <2>1, Zenon
  <1>2. ASSUME NEW k \in Kinds, NEW r \in Outcomes, Returning(k, r)
        PROVE  StepInv'
    <2>1. /\ UNCHANGED <<wire, replies, behind>> /\ good /\ call' = NoCall
          /\ IF call = NoCall THEN busy' = busy ELSE ~busy /\ busy'
      BY <1>2, Zenon DEF Returning, Return
    <2>2. CASE call = NoCall
      <3>1. call' = call /\ busy' = busy
        BY <2>1, <2>2, Zenon
      <3>2. Readers' = Readers
        BY <3>1, Zenon DEF Readers
      <3>. QED  BY <2>1, <3>2, Zenon
    <2>3. CASE call # NoCall
      <3>1. Readers' = 1 /\ Readers = 1
        BY <2>1, <2>3, Zenon DEF Readers
      <3>. QED  BY <2>1, <3>1, Zenon
    <2>. QED  BY <2>2, <2>3, Zenon
  <1>3. CASE Fail
    BY <1>3, Zenon DEF Fail
  <1>4. CASE ProcessEnvChg
    <2>1. UNCHANGED <<good, behind, wire, busy, call>>
      BY <1>4, Zenon DEF ProcessEnvChg, callVars
    <2>2. Len(replies') = Len(replies)
      BY <1>4, EnvQueue, Zenon
    <2>. QED  BY <2>1, <2>2, Zenon DEF Readers
  <1>e. ASSUME TakenOff, good' => good, Readers' = Readers - 1
        PROVE  StepInv'
    <2>1. UNCHANGED <<wire, behind>> /\ replies # <<>> /\ replies' = Tail(replies)
      BY <1>e, Zenon DEF TakenOff
    <2>2. Len(replies') = Len(replies) - 1
      BY <2>1, EndQueue, Zenon
    <2>3. Readers \in Nat
      BY DEF Readers
    <2>. QED  BY <1>0, <1>e, <2>1, <2>2, <2>3 DEF Sizes
  <1>5. CASE Drained
    <2>1. busy /\ ~busy' /\ UNCHANGED <<good, call>> /\ TakenOff
      BY <1>5, Zenon DEF Drained
    <2>2. Readers' = Readers - 1
      BY <2>1 DEF Readers
    <2>. QED  BY <1>e, <2>1, <2>2, Zenon
  <1>6. ASSUME NEW r \in Outcomes, Ended(r)
        PROVE  StepInv'
    <2>1. /\ ~busy /\ busy' = busy /\ call # NoCall /\ call' = NoCall
          /\ (good' => good) /\ TakenOff
      BY <1>6, Zenon DEF Ended, Reads, Return, CallInv
    <2>2. Readers' = Readers - 1
      BY <2>1 DEF Readers
    <2>. QED  BY <1>e, <2>1, <2>2, Zenon
  <1>a. CASE Losing
    BY <1>a, <1>b, Zenon DEF Losing
  <1>c. CASE Confirming
    BY <1>b, <1>c, Zenon DEF Confirming
  <1>7. ASSUME NEW q \in Request, NEW env \in Envs, NEW err \in BOOLEAN,
               Served1(q, env, err)
        PROVE  StepInv'
    <2>1. UNCHANGED <<good, behind, busy, call>>
      BY <1>7, Zenon DEF Served1, Serving, connVars, callVars
    <2>2. Len(wire') = Len(wire) - 1 /\ Len(replies') = Len(replies) + 1
      BY <1>7, ServeQueue, Zenon DEF Taken, Answered
    <2>3. Len(wire') + Len(replies') = Len(wire) + Len(replies)
      BY <1>0, <2>2 DEF Sizes
    <2>. QED  BY <2>1, <2>3, Zenon DEF Readers
  <1>8. CASE Grab
    <2>1. user + 1 \in 1..MaxUsers /\ "init" \in Kinds /\ TRUE \in BOOLEAN
          /\ call = NoCall
      BY <1>8 DEF Grab, TypeOK, Shapes, Kinds, CallInv
    <2>2. CASE UNCHANGED <<good, callVars, readVars, wire>>
      BY <1>s, <2>2, Zenon DEF callVars, readVars
    <2>3. CASE Write("init", user + 1, TRUE)
      <3>. HIDE DEF StepInv
      <3>. QED  BY <1>w, <2>1, <2>3, Zenon
    <2>. QED  BY <1>8, <2>2, <2>3, Zenon DEF Grab
  <1>9. CASE Release
    BY <1>9, <1>s, Zenon DEF Release, connVars, callVars, readVars
  <1>. QED
    BY <1>1, <1>2, <1>3, <1>4, <1>5, <1>6, <1>7, <1>8, <1>9, <1>a, <1>c, NextCases,
       Zenon

\* The announcements on their way lead to the server's state.
LEMMA EnvStep ==
    ASSUME TypeOK, CallInv, EnvInv, Next
    PROVE  EnvInv'
  <1>. USE DEF EnvInv, NoneFrom
  <1>0. Sizes /\ Entries /\ srvTx # NoEnv
    BY QueueTypes DEF TypeOK, Shapes, NoEnv
  <1>b. ASSUME behind'
        PROVE  EnvInv'
    BY <1>b, Zenon
  <1>s. ASSUME good' => good, UNCHANGED <<tranid, srvTx, replies, behind>>
        PROVE  EnvInv'
    BY <1>s, Zenon
  <1>1. ASSUME NEW k \in Kinds, Sending(k)
        PROVE  EnvInv'
    BY <1>1, <1>s, Zenon DEF Sending, Write, readVars, serverVars
  <1>2. ASSUME NEW k \in Kinds, NEW r \in Outcomes, Returning(k, r)
        PROVE  EnvInv'
    BY <1>2, <1>s, Zenon DEF Returning, serverVars
  <1>3. CASE Fail
    BY <1>3, Zenon DEF Fail
  <1>4. CASE ProcessEnvChg
    <2>1. good' = good /\ srvTx' = srvTx /\ behind' = behind
      BY <1>4, Zenon DEF ProcessEnvChg, serverVars
    <2>2. ASSUME good, ~behind
          PROVE  \/ tranid' = srvTx /\ \A j \in 2..Len(replies) : replies[j].env = NoEnv
                 \/ \E i \in 2..Len(replies) :
                       replies[i].env = srvTx /\ NoneFrom(i + 1)
      BY <1>0, <1>4, <2>2, EnvQueue DEF Sizes
    <2>3. ASSUME tranid' = srvTx, \A j \in 2..Len(replies) : replies[j].env = NoEnv
          PROVE  EnvInv'
      BY <1>0, <1>4, <2>1, <2>3, EnvQueue DEF Sizes
    <2>4. ASSUME NEW i \in 2..Len(replies), replies[i].env = srvTx, NoneFrom(i + 1)
          PROVE  EnvInv'
      <3>1. replies'[i].env = srvTx /\ i \in 1..Len(replies')
        BY <1>0, <1>4, <2>4, EnvQueue DEF Sizes
      <3>2. \A j \in (i + 1)..Len(replies') : replies'[j].env = NoEnv
        BY <1>0, <1>4, <2>4, EnvQueue DEF Sizes
      <3>. QED  BY <2>1, <3>1, <3>2, Zenon
    <2>. QED  BY <2>1, <2>2, <2>3, <2>4, Zenon
  <1>e. ASSUME replies # <<>>, replies' = Tail(replies), replies[1].env = NoEnv,
               good' => good, UNCHANGED <<tranid, srvTx, behind>>
        PROVE  EnvInv'
    <2>1. CASE NoneFrom(1) /\ tranid = srvTx
      BY <1>e, <2>1, EndQueue
    <2>2. ASSUME NEW i \in 1..Len(replies), replies[i].env = srvTx, NoneFrom(i + 1)
          PROVE  EnvInv'
      <3>1. i # 1 /\ i - 1 \in 1..Len(replies') /\ (i - 1) + 1 = i
        BY <1>0, <1>e, <2>2, EndQueue DEF Sizes
      <3>2. replies'[i - 1].env = srvTx
        BY <1>e, <2>2, <3>1, EndQueue, Zenon
      <3>3. ASSUME NEW j \in i..Len(replies')
            PROVE  replies'[j].env = NoEnv
        <4>1. j \in 1..Len(replies') /\ j + 1 \in (i + 1)..Len(replies)
          BY <1>0, <1>e, <3>1, EndQueue DEF Sizes
        <4>. QED  BY <1>e, <2>2, <4>1, EndQueue, Zenon
      <3>. QED  BY <1>e, <3>1, <3>2, <3>3, Zenon
    <2>. QED  BY <1>e, <2>1, <2>2, Zenon
  <1>5. CASE Drained
    BY <1>5, <1>e, EndQueue, Zenon DEF Drained, TakenOff, serverVars
  <1>6. ASSUME NEW r \in Outcomes, Ended(r)
        PROVE  EnvInv'
    <2>1. good' => good
      BY <1>6, Zenon DEF Ended, Reads, CallInv
    <2>. QED  BY <1>6, <1>e, <2>1, EndQueue, Zenon DEF Ended, TakenOff, serverVars
  <1>a. CASE Losing
    BY <1>a, <1>b, Zenon DEF Losing
  <1>c. CASE Confirming
    BY <1>b, <1>c, Zenon DEF Confirming
  <1>7. ASSUME NEW q \in Request, NEW env \in Envs, NEW err \in BOOLEAN,
               Served1(q, env, err)
        PROVE  EnvInv'
    <2>q. Taken(q) /\ Answered(q, env, err)
      BY <1>7, ServeQueue, Zenon
    <2>1. UNCHANGED <<good, tranid, behind>> /\ srvTx' = IF env = NoEnv THEN srvTx ELSE env
      BY <1>7, Zenon DEF Served1, Serving, connVars
    <2>n. Len(replies') = Len(replies) + 1 /\ Len(replies) \in Nat
      BY <1>0, <2>q, Zenon DEF Sizes, Answered
    <2>2. CASE env # NoEnv
      <3>1. Len(replies) + 1 \in 1..Len(replies') /\ replies'[Len(replies) + 1].env = srvTx'
        BY <2>q, <2>1, <2>2, <2>n DEF Answered
      <3>2. \A j \in (Len(replies) + 1 + 1)..Len(replies') : replies'[j].env = NoEnv
        BY <2>n
      <3>. QED  BY <3>1, <3>2, Zenon
    <2>3. CASE env = NoEnv
      <3>1. ASSUME NEW i \in 1..(Len(replies) + 1), NoneFrom(i)
            PROVE  \A j \in i..Len(replies') : replies'[j].env = NoEnv
        <4>1. ASSUME NEW j \in i..Len(replies')
              PROVE  replies'[j].env = NoEnv
          <5>1. (j \in i..Len(replies) /\ j \in 1..Len(replies)) \/ j = Len(replies) + 1
            BY <2>n
          <5>. QED  BY <2>q, <2>3, <3>1, <5>1, Zenon DEF Answered
        <4>. QED  BY <4>1, Zenon
      <3>2. CASE NoneFrom(1) /\ tranid = srvTx
        BY <2>1, <2>3, <2>n, <3>1, <3>2
      <3>3. ASSUME NEW i \in 1..Len(replies), replies[i].env = srvTx, NoneFrom(i + 1)
            PROVE  EnvInv'
        <4>1. i \in 1..Len(replies') /\ i + 1 \in 1..(Len(replies) + 1)
          BY <2>n
        <4>2. replies'[i].env = srvTx'
          BY <2>q, <2>1, <2>3, <3>3, Zenon DEF Answered
        <4>3. \A j \in (i + 1)..Len(replies') : replies'[j].env = NoEnv
          BY <3>1, <3>3, <4>1, Zenon
        <4>. QED  BY <4>1, <4>2, <4>3, Zenon
      <3>. QED  BY <2>1, <3>2, <3>3, Zenon
    <2>. QED  BY <2>2, <2>3, Zenon
  <1>8. CASE Grab
    BY <1>8, <1>s, Zenon DEF Grab, Write, readVars, serverVars
  <1>9. CASE Release
    BY <1>9, <1>s, Zenon DEF Release, connVars, readVars, serverVars
  <1>. QED
    BY <1>1, <1>2, <1>3, <1>4, <1>5, <1>6, <1>7, <1>8, <1>9, <1>a, <1>c, NextCases,
       Zenon

\* An open Tx stays as TxInv says: Begin ends with nothing on its way.
LEMMA TxStep ==
    ASSUME TypeOK, CallInv, StepInv, EnvInv, AnswerInv, TxInv, Next
    PROVE  TxInv'
  <1>. DEFINE Held == ~reset /\ place = "held" /\ call # "begin"
  <1>0. /\ Sizes /\ Entries /\ srvTx # NoEnv /\ NoCall # "begin"
        /\ (tx # 0 => inTx) /\ (good /\ inTx => Held)
        /\ (good /\ inTx /\ ~behind => OpenTx)
    BY QueueTypes DEF TxInv, TypeOK, Shapes, NoEnv, NoCall
  <1>c. ASSUME tx' # 0 => inTx', good' /\ inTx' => Held',
               good' /\ inTx' /\ ~behind' => OpenTx'
        PROVE  TxInv'
    BY <1>c, Zenon DEF TxInv
  <1>. HIDE DEF Held
  <1>1. ASSUME NEW k \in Kinds, Sending(k)
        PROVE  TxInv'
    <2>1. /\ user \in 1..MaxUsers /\ reset \in BOOLEAN /\ Write(k, user, reset)
          /\ (k = "begin" => ~inTx) /\ place' = place /\ good /\ place = "held"
      BY <1>1 DEF Sending, Idle, CallInv, TypeOK, Flags, Shapes
    <2>2. /\ UNCHANGED <<good, inTx, tranid, tx, replies, behind>>
          /\ reset' = FALSE /\ call' = k
      BY <2>1, Zenon DEF Write, readVars
    <2>3. ASSUME inTx, ~behind
          PROVE  OpenTx'
      <3>1. PICK q \in Request : Added(q, k, user, reset)
        BY <2>1, WriteQueue, Zenon
      <3>2. \A i \in 1..Len(wire') : i \in 1..Len(wire) \/ i = Len(wire) + 1
        BY <3>1, Zenon DEF Added
      <3>3. OpenTx /\ k # "begin"
        BY <1>0, <2>1, <2>3, Zenon
      <3>4. \A i \in 1..Len(wire') : wire'[i].kind # "begin"
        BY <3>1, <3>2, <3>3, Zenon DEF Added, OpenTx
      <3>. QED  BY <2>2, <3>3, <3>4, Zenon DEF OpenTx
    <2>. QED  BY <1>0, <1>c, <2>1, <2>2, <2>3, Zenon DEF Held
  <1>r. ASSUME NEW k, NEW r, Return(k, r), k # "init", ~(k = "begin" /\ r = "ok"),
               good' => good, UNCHANGED wire,
               UNCHANGED behind \/ behind',
               reset' \in {FALSE, reset},
               good /\ inTx /\ ~behind' => tranid' = tranid,
               \/ replies' = replies
               \/ behind'
               \/ replies # <<>> /\ replies' = Tail(replies)
        PROVE  TxInv'
    <2>1. /\ inTx' \in {FALSE, inTx} /\ tx' \in {0, tx} /\ (tx' # 0 => inTx' = inTx)
          /\ (inTx' => tx' = tx \/ tx' # 0)
          /\ place' = place /\ call' = NoCall
      BY <1>r, Zenon DEF Return
    <2>2. inTx' => inTx /\ tx' = tx
      BY <1>r, Zenon DEF Return
    <2>3. ASSUME good', inTx', ~behind'
          PROVE  OpenTx'
      <3>0. good /\ inTx /\ ~behind
        <4>1. behind' = behind
          BY <1>r, <2>3, Zenon
        <4>. QED  BY <1>r, <2>2, <2>3, <4>1, Zenon
      <3>1. OpenTx /\ tranid' = tranid /\ tx' = tx /\ wire' = wire
        BY <1>0, <1>r, <2>2, <2>3, <3>0, Zenon
      <3>2. \A i \in 1..Len(replies') : replies'[i].env \in {0, NoEnv}
        <4>1. CASE replies' = replies
          BY <3>1, <4>1, Zenon DEF OpenTx
        <4>2. CASE replies # <<>> /\ replies' = Tail(replies)
          BY <3>1, <4>2, EndQueue, Zenon DEF OpenTx
        <4>. QED  BY <1>r, <2>3, <4>1, <4>2, Zenon
      <3>. QED  BY <3>1, <3>2, Zenon DEF OpenTx
    <2>4. good' /\ inTx' => Held'
      BY <1>0, <1>r, <2>1, <2>2, Zenon DEF Held
    <2>5. tx' # 0 => inTx'
      <3>1. tx' # 0 => tx # 0 /\ inTx' = inTx
        BY <2>1, Zenon
      <3>. QED  BY <1>0, <3>1
    <2>. QED  BY <1>c, <2>3, <2>4, <2>5, Zenon
  <1>2. ASSUME NEW k \in Kinds, NEW r \in Outcomes, Returning(k, r)
        PROVE  TxInv'
    <2>1. /\ Return(k, r) /\ k \notin {"init", "begin"} /\ (good' => good)
          /\ UNCHANGED <<wire, replies, behind, tranid>> /\ reset' \in {FALSE, reset}
      BY <1>2, Zenon DEF Returning
    <2>. QED  BY <1>r, <2>1, Zenon
  <1>3. CASE Fail
    <2>1. ~good' /\ Return(call, "err")
      BY <1>3, Zenon DEF Fail
    <2>2. tx' # 0 => inTx'
      BY <1>0, <2>1, Zenon DEF Return
    <2>. QED  BY <1>c, <2>1, <2>2, Zenon
  <1>4. CASE ProcessEnvChg
    <2>1. UNCHANGED <<good, inTx, reset, place, tx, call, wire, behind>>
      BY <1>4, Zenon DEF ProcessEnvChg, poolVars, callVars
    <2>2. ASSUME good, inTx, ~behind
          PROVE  /\ tranid' = 0
                 /\ \A i \in 1..Len(replies') : replies'[i].env \in {0, NoEnv}
      BY <1>0, <1>4, <2>2, EnvQueue DEF Sizes, OpenTx
    <2>3. good /\ inTx /\ ~behind => OpenTx'
      BY <1>0, <2>1, <2>2, Zenon DEF OpenTx
    <2>. QED  BY <1>0, <1>c, <2>1, <2>3, Zenon DEF Held
  <1>5. CASE Drained
    <2>1. /\ UNCHANGED <<good, inTx, reset, place, tx, call, wire, behind, tranid>>
          /\ replies # <<>> /\ replies' = Tail(replies)
      BY <1>5, Zenon DEF Drained, TakenOff
    <2>2. good /\ inTx /\ ~behind => OpenTx'
      BY <1>0, <2>1, EndQueue, Zenon DEF OpenTx
    <2>. QED  BY <1>0, <1>c, <2>1, <2>2, Zenon DEF Held
  <1>6. ASSUME NEW r \in Outcomes, Ended(r)
        PROVE  TxInv'
    <2>1. /\ Return(call, r) /\ call # NoCall /\ ~busy /\ good /\ ~reset
          /\ replies # <<>> /\ replies' = Tail(replies) /\ Head(replies).env = NoEnv
          /\ UNCHANGED <<reset, tranid, wire, behind>> /\ good' \in {good, FALSE}
          /\ (r = "ok" => ~Head(replies).err)
      BY <1>6, Zenon DEF Ended, TakenOff, Reads, CallInv
    <2>3. CASE call = "begin" /\ r = "ok"
      <3>1. inTx' /\ tx' = tranid /\ place' = "held" /\ call' = NoCall /\ ~reset'
        BY <2>1, <2>3, Zenon DEF Return, CallInv, NoCall
      <3>h. Held'
        BY <1>0, <3>1, Zenon DEF Held
      <3>2. ASSUME ~behind
            PROVE  OpenTx'
        <4>1. Len(wire) + Len(replies) = 1
          BY <2>1, <3>2, Zenon DEF StepInv, Readers
        <4>2. /\ 1 \in 1..Len(replies) /\ Len(replies') = Len(replies) - 1
              /\ Head(replies) = replies[1]
          BY <2>1, EndQueue, Zenon
        <4>3. Len(replies) = 1 /\ Len(wire) = 0 /\ Len(replies') = 0
          BY <1>0, <4>1, <4>2 DEF Sizes
        <4>4. wire = <<>>
          BY <4>3, QueueTypes, Zenon
        <4>5. srvTx # 0
          BY <2>1, <2>3, <3>2, <4>2, <4>3, <4>4, Zenon DEF AnswerInv, Granted
        <4>6. tranid = srvTx
          BY <1>0, <2>1, <3>2, <4>2, <4>3 DEF EnvInv
        <4>7. 1..Len(wire) = {} /\ 1..Len(replies') = {}
          BY <4>3
        <4>. QED  BY <2>1, <3>1, <4>5, <4>6, <4>7, Zenon DEF OpenTx
      <3>. QED  BY <1>c, <2>1, <3>1, <3>h, <3>2, Zenon
    <2>4. CASE call = "init"
      <3>1. good /\ ~inTx
        BY <1>0, <2>1, <2>4, Zenon DEF CallInv, Held
      <3>2. inTx' = inTx /\ tx' = tx
        BY <2>1, <2>4, Zenon DEF Return
      <3>. QED  BY <1>0, <1>c, <3>1, <3>2, Zenon
    <2>5. CASE call # "init" /\ ~(call = "begin" /\ r = "ok")
      <3>1. (good' => good) /\ reset' \in {FALSE, reset}
        BY <2>1, Zenon
      <3>. QED  BY <1>r, <2>1, <2>5, <3>1, Zenon
    <2>. QED  BY <2>3, <2>4, <2>5, Zenon
  <1>a. CASE Losing
    <2>1. behind' /\ reset' = reset /\ (good' => good)
      <3>1. good' \in {good, FALSE} /\ good \in BOOLEAN
        BY <1>a, Zenon DEF Losing, TypeOK, Flags
      <3>2. good' => good
        BY <3>1
      <3>. QED  BY <1>a, <3>2, Zenon DEF Losing
    <2>2. CASE UNCHANGED <<good, inTx, place, tx, call, last, wire>>
      BY <1>0, <1>c, <2>1, <2>2, Zenon DEF Held
    <2>3. ASSUME call # NoCall, NEW r \in {"err", "ctx"}, Return(call, r)
          PROVE  TxInv'
      <3>1. /\ inTx' \in {FALSE, inTx} /\ tx' \in {0, tx} /\ (tx' # 0 => inTx' = inTx)
            /\ (place' # place => place' = "closed") /\ call' = NoCall
        BY <2>3, ReturnFails, Zenon
      <3>2. good' /\ inTx' => place' = place
        <4>1. good /\ inTx => call # "init"
          BY <1>0, Zenon DEF Held, CallInv
        <4>. QED  BY <2>1, <2>3, <3>1, <4>1, Zenon DEF Return
      <3>3. good' /\ inTx' => Held'
        BY <1>0, <2>1, <3>1, <3>2, Zenon DEF Held
      <3>4. tx' # 0 => inTx'
        <4>1. tx' # 0 => tx # 0 /\ inTx' = inTx
          BY <3>1, Zenon
        <4>. QED  BY <1>0, <4>1
      <3>. QED  BY <1>c, <2>1, <3>3, <3>4, Zenon
    <2>. QED  BY <1>a, <2>2, <2>3, Zenon DEF Losing
  <1>b. CASE Confirming
    BY <1>0, <1>b, <1>c, Zenon DEF Held, Confirming, connVars, poolVars, callVars
  <1>7. ASSUME NEW q \in Request, NEW env \in Envs, NEW err \in BOOLEAN,
               Served1(q, env, err)
        PROVE  TxInv'
    <2>q. Taken(q) /\ Answered(q, env, err)
      BY <1>7, ServeQueue, Zenon
    <2>1. UNCHANGED <<good, inTx, reset, place, tx, call, tranid, behind>>
      BY <1>7, Zenon DEF Served1, Serving, connVars, poolVars, callVars
    <2>2. ASSUME good, inTx, ~behind
          PROVE  OpenTx'
      <3>1. OpenTx
        BY <1>0, <2>2, Zenon
      <3>2. q.kind # "begin"
        BY <2>q, <3>1, Zenon DEF Taken, OpenTx
      <3>3. env \in {0, NoEnv}
        BY <1>7, <3>2, Zenon
        DEF Served1, Quiet, Beginning, Batch, Committing, ResetEnv
      <3>4. \A i \in 1..Len(replies') : replies'[i].env \in {0, NoEnv}
        BY <2>q, <3>1, <3>3, Zenon DEF Answered, OpenTx
      <3>5. \A i \in 1..Len(wire') : wire'[i].kind # "begin"
        BY <2>q, <3>1, Zenon DEF Taken, OpenTx
      <3>. QED  BY <2>1, <3>1, <3>4, <3>5, Zenon DEF OpenTx
    <2>. QED  BY <1>0, <1>c, <2>1, <2>2, Zenon DEF Held
  <1>8. CASE Grab
    <2>1. ~inTx /\ tx = 0
      BY <1>0, <1>8, Zenon DEF Grab, Held
    <2>2. UNCHANGED <<inTx, tx>>
      BY <1>8, Zenon DEF Grab, Write
    <2>. QED  BY <1>c, <2>1, <2>2, Zenon
  <1>9. CASE Release
    <2>1. UNCHANGED <<inTx, good>> /\ (good => ~inTx) /\ tx' = 0
      BY <1>9, Zenon DEF Release, connVars
    <2>. QED  BY <1>c, <2>1, Zenon
  <1>. QED
    BY <1>1, <1>2, <1>3, <1>4, <1>5, <1>6, <1>7, <1>8, <1>9, <1>a, <1>b, NextCases,
       Zenon

\* The header of a request made in a Tx is right: tranid was looked at.
LEMMA WireStep ==
    ASSUME TypeOK, CallInv, TxInv, WireInv, Next
    PROVE  WireInv'
  <1>. USE DEF WireInv
  <1>0. Sizes /\ Entries
    BY QueueTypes, Zenon
  <1>w. ASSUME NEW k \in Kinds, NEW u \in 1..MaxUsers, NEW r \in BOOLEAN,
               Write(k, u, r),
               tx # 0 => /\ ~r /\ k # "begin" /\ tranid # 0
                         /\ behind \/ tranid = tx
        PROVE  WireInv'
    <2>b. behind' = behind
      BY <1>w, Zenon DEF Write, readVars
    <2>0. PICK q \in Request : Added(q, k, u, r)
      <3>. HIDE DEF WireInv
      <3>. QED  BY <1>w, WriteQueue, Zenon
    <2>1. ASSUME NEW i \in 1..Len(wire'), wire'[i].want # 0
          PROVE  /\ ~wire'[i].reset /\ wire'[i].hdr # 0
                 /\ behind \/ wire'[i].hdr = wire'[i].want
      <3>2. CASE i \in 1..Len(wire)
        BY <2>0, <2>1, <3>2, Zenon DEF Added
      <3>3. CASE i = Len(wire) + 1
        BY <1>w, <2>0, <2>1, <3>3, Zenon DEF Added
      <3>. QED  BY <2>0, <3>2, <3>3, Zenon DEF Added
    <2>2. ASSUME NEW i \in 1..Len(wire'), wire'[i].kind = "attn"
          PROVE  ~wire'[i].reset
      <3>1. k # "attn"
        BY DEF Kinds
      <3>2. i \in 1..Len(wire)
        BY <2>0, <2>2, <3>1, Zenon DEF Added
      <3>. QED  BY <2>0, <2>2, <3>2, Zenon DEF Added
    <2>. QED  BY <2>b, <2>1, <2>2, Zenon
  <1>1. ASSUME NEW k \in Kinds, Sending(k)
        PROVE  WireInv'
    <2>1. user \in 1..MaxUsers /\ reset \in BOOLEAN /\ Write(k, user, reset)
      BY <1>1 DEF Sending, Idle, CallInv, TypeOK, Flags, Shapes
    <2>2. tx # 0 => /\ ~reset /\ k # "begin" /\ tranid # 0
                    /\ behind \/ tranid = tx
      <3>. SUFFICES ASSUME tx # 0
                    PROVE  /\ ~reset /\ k # "begin" /\ tranid # 0
                           /\ behind \/ tranid = tx
        BY Zenon
      <3>1. inTx /\ good /\ ~reset
        BY <1>1, Zenon DEF Sending, Idle, TxInv
      <3>2. k # "begin" /\ tranid # 0
        BY <1>1, <3>1, Zenon DEF Sending, Aborted
      <3>3. ~behind => tranid \in {0, tx}
        BY <3>1, Zenon DEF TxInv, OpenTx
      <3>. QED  BY <3>1, <3>2, <3>3, Zenon
    <2>. QED  BY <1>w, <2>1, <2>2, Zenon
  <1>2. ASSUME NEW k \in Kinds, NEW r \in Outcomes, Returning(k, r)
        PROVE  WireInv'
    BY <1>2, Zenon DEF Returning
  <1>3. CASE Fail
    BY <1>3, EmptySeq DEF Fail
  <1>4. CASE ProcessEnvChg \/ Drained \/ (\E r \in Outcomes : Ended(r)) \/ Release
    <2>1. UNCHANGED <<wire, behind>>
      <3>. HIDE DEF WireInv
      <3>. QED  BY <1>4, Zenon
                DEF ProcessEnvChg, Drained, Ended, TakenOff, Release, readVars
    <2>. QED  BY <2>1, Zenon
  <1>a. CASE Losing
    <2>1. LosingWire /\ behind'
      <3>. HIDE DEF WireInv
      <3>. QED  BY <1>a, LosingQueue, Zenon DEF Losing
    <2>2. Attention.want = 0 /\ ~Attention.reset
      BY DEF Attention
    <2>. QED  BY <2>1, <2>2, Zenon DEF LosingWire
  <1>b. CASE Confirming
    <2>1. ConfirmedWire /\ behind'
      <3>. HIDE DEF WireInv
      <3>. QED  BY <1>b, ConfirmingQueue, Zenon DEF Confirming
    <2>2. ASSUME NEW i \in 1..Len(wire')
          PROVE  i + 1 \in 1..Len(wire) /\ wire'[i] = wire[i + 1]
      BY <2>1, Zenon DEF ConfirmedWire
    <2>3. ASSUME NEW i \in 1..Len(wire')
          PROVE  /\ wire'[i].want # 0 => ~wire'[i].reset /\ wire'[i].hdr # 0
                 /\ wire'[i].kind = "attn" => ~wire'[i].reset
      <3>1. i + 1 \in 1..Len(wire) /\ wire'[i] = wire[i + 1]
        BY <2>2, Zenon
      <3>. QED  BY <3>1
    <2>. QED  BY <2>1, <2>3, Zenon
  <1>7. ASSUME NEW q \in Request, NEW env \in Envs, NEW err \in BOOLEAN,
               Served1(q, env, err)
        PROVE  WireInv'
    <2>1. behind' = behind
      BY <1>7, Zenon DEF Served1, Serving
    <2>2. ASSUME NEW i \in 1..Len(wire')
          PROVE  /\ wire'[i].want # 0 => /\ ~wire'[i].reset /\ wire'[i].hdr # 0
                                         /\ behind \/ wire'[i].hdr = wire'[i].want
                 /\ wire'[i].kind = "attn" => ~wire'[i].reset
      <3>1. i + 1 \in 1..Len(wire) /\ wire'[i] = wire[i + 1]
        <4>. HIDE DEF WireInv
        <4>. QED  BY <1>7, ServeQueue, Zenon DEF Taken
      <3>. QED  BY <3>1
    <2>. QED  BY <2>1, <2>2, Zenon
  <1>8. CASE Grab
    <2>1. /\ user + 1 \in 1..MaxUsers /\ "init" \in Kinds /\ TRUE \in BOOLEAN
          /\ tx = 0
      BY <1>8 DEF Grab, TypeOK, Shapes, Kinds, TxInv
    <2>2. CASE UNCHANGED <<wire, behind>>
      BY <2>2, Zenon
    <2>3. CASE Write("init", user + 1, TRUE)
      <3>. HIDE DEF WireInv
      <3>. QED  BY <1>w, <2>1, <2>3, Zenon
    <2>. QED  BY <1>8, <2>2, <2>3, Zenon DEF Grab, readVars
  <1>. QED
    BY <1>1, <1>2, <1>3, <1>4, <1>7, <1>8, <1>a, <1>b, NextCases, Zenon

\* In step, the last message stays the current call's, and its answer is no
\* error only when the server has done what was asked.
LEMMA AnswerStep ==
    ASSUME TypeOK, CallInv, StepInv, TxInv, WireInv, AnswerInv, Next
    PROVE  AnswerInv'
  <1>0. Sizes /\ Entries /\ (wire = <<>> <=> Len(wire) = 0)
    BY QueueTypes, Zenon
  <1>n. ASSUME behind' \/ call' = NoCall
        PROVE  AnswerInv'
    BY <1>n, Zenon DEF AnswerInv
  <1>w. ASSUME NEW k \in Kinds, NEW u \in 1..MaxUsers, NEW r \in BOOLEAN,
               Write(k, u, r)
        PROVE  AnswerInv'
    <2>1. tx' = tx /\ call' = k
      BY <1>w, Zenon DEF Write
    <2>2. PICK q \in Request : Added(q, k, u, r)
      BY <1>w, WriteQueue, Zenon
    <2>3. wire'[Len(wire')].kind = k /\ wire'[Len(wire')].want = tx
      BY <2>2, Zenon DEF Added
    <2>4. wire' # <<>>
      BY <1>0, <2>2, EmptySeq DEF Added, Sizes
    <2>. QED  BY <2>1, <2>3, <2>4, Zenon DEF AnswerInv
  <1>1. ASSUME NEW k \in Kinds, Sending(k)
        PROVE  AnswerInv'
    <2>1. user \in 1..MaxUsers /\ reset \in BOOLEAN /\ Write(k, user, reset)
      BY <1>1 DEF Sending, Idle, CallInv, TypeOK, Flags, Shapes
    <2>. QED  BY <1>w, <2>1, Zenon
  <1>2. ASSUME NEW k \in Kinds, NEW r \in Outcomes, Returning(k, r)
        PROVE  AnswerInv'
    BY <1>2, <1>n, Zenon DEF Returning, Return
  <1>3. CASE Fail \/ (\E r \in Outcomes : Ended(r))
    BY <1>3, <1>n, Zenon DEF Fail, Ended, Return
  <1>4. CASE ProcessEnvChg
    <2>1. UNCHANGED <<call, tx, wire, good, behind, srvTx, committed>>
      BY <1>4, Zenon DEF ProcessEnvChg, poolVars, callVars, serverVars
    <2>2. /\ Len(replies') = Len(replies) /\ Len(replies) \in 1..Len(replies)
          /\ \A i \in 1..Len(replies) : replies'[i].err = replies[i].err
      BY <1>0, <1>4, EnvQueue DEF Sizes
    <2>3. replies'[Len(replies')].err = replies[Len(replies)].err
      BY <2>2, Zenon
    <2>. QED  BY <2>1, <2>3, Zenon DEF AnswerInv, Granted
  <1>5. CASE Drained
    <2>1. UNCHANGED <<call, tx, wire, good, behind, srvTx, committed>> /\ busy
      BY <1>5, Zenon DEF Drained, TakenOff, serverVars
    <2>2. ASSUME good, ~behind, call # NoCall, wire = <<>>
          PROVE  replies'[Len(replies')] = replies[Len(replies)]
      <3>1. Len(wire) + Len(replies) = 2 /\ Len(wire) = 0
        BY <1>0, <2>1, <2>2, Zenon DEF StepInv, Readers
      <3>2. /\ Len(replies') = Len(replies) - 1
            /\ \A i \in 1..Len(replies') : replies'[i] = replies[i + 1]
        BY <1>5, EndQueue, Zenon DEF Drained, TakenOff
      <3>3. Len(replies') = 1 /\ Len(replies) = 1 + 1 /\ 1 \in 1..Len(replies')
        BY <1>0, <3>1, <3>2 DEF Sizes
      <3>. QED  BY <3>2, <3>3, Zenon
    <2>. QED  BY <2>1, <2>2, Zenon DEF AnswerInv, Granted
  <1>a. CASE Losing
    BY <1>a, <1>n, Zenon DEF Losing
  <1>b. CASE Confirming
    BY <1>b, <1>n, Zenon DEF Confirming
  <1>7. ASSUME NEW q \in Request, NEW env \in Envs, NEW err \in BOOLEAN,
               Served1(q, env, err)
        PROVE  AnswerInv'
    <2>q. Taken(q) /\ Answered(q, env, err)
      BY <1>7, ServeQueue, Zenon
    <2>1. UNCHANGED <<call, tx, good, behind>>
      BY <1>7, Zenon DEF Served1, Serving, poolVars, callVars, connVars
    <2>. SUFFICES ASSUME good, ~behind, call # NoCall
                  PROVE  AnswerInv'
      BY <2>1, Zenon DEF AnswerInv
    <2>2. wire[Len(wire)].kind = call /\ wire[Len(wire)].want = tx
      BY <2>q, Zenon DEF AnswerInv, Taken
    <2>3. CASE wire' # <<>>
      <3>1. Len(wire') \in 1..Len(wire') /\ Len(wire') + 1 = Len(wire)
        BY <1>0, <2>q, <2>3 DEF Sizes, Taken
      <3>2. wire'[Len(wire')] = wire[Len(wire)]
        BY <2>q, <3>1, Zenon DEF Taken
      <3>. QED  BY <2>1, <2>2, <2>3, <3>2, Zenon DEF AnswerInv
    <2>4. CASE wire' = <<>>
      <3>1. q.kind = call /\ q.want = tx
        BY <2>q, <2>2, <2>4, Zenon DEF Taken
      <3>2. replies'[Len(replies')].err = err
        BY <2>q, Zenon DEF Answered
      <3>3. ASSUME ~err
            PROVE  Granted'
        <4>1. ASSUME call = "begin"
              PROVE  srvTx' # 0
          <5>1. Beginning(q, env, err)
            BY <1>7, <3>1, <3>3, <4>1, Zenon
            DEF Served1, Quiet, Batch, Committing
          <5>2. env # NoEnv /\ env # 0
            BY <5>1, LenProperties DEF Beginning, NoEnv, TypeOK, Shapes
          <5>. QED  BY <1>7, <5>2, Zenon DEF Served1, Serving
        <4>2. ASSUME call = "commit"
              PROVE  tx \in committed'
          <5>1. Committing(q, env)
            BY <1>7, <3>1, <3>3, <4>2, Zenon DEF Served1, Quiet, Beginning, Batch
          <5>2. tx # 0
            <6>1. inTx
              BY <4>2, Zenon DEF CallInv
            <6>. QED  BY <6>1, Zenon DEF TxInv, OpenTx
          <5>3. ~q.reset /\ q.hdr = tx
            BY <2>q, <3>1, <5>2, Zenon DEF WireInv, Taken
          <5>4. AfterReset(q) = tx
            BY <5>1, <5>2, <5>3, Zenon DEF Committing, Accepts, AfterReset
          <5>. QED  BY <3>1, <4>2, <5>1, <5>4, Zenon DEF Committing
        <4>3. ASSUME call = "rollback"
              PROVE  srvTx' = 0
          <5>1. Quiet(q, env, err)
            BY <1>7, <3>1, <4>3, Zenon DEF Served1, Beginning, Batch, Committing
          <5>2. env = 0
            BY <3>1, <3>3, <4>3, <5>1, Zenon DEF Quiet
          <5>3. env # NoEnv
            BY <5>2, SMT DEF NoEnv
          <5>. QED  BY <1>7, <5>2, <5>3, Zenon DEF Served1, Serving
        <4>. QED  BY <2>1, <4>1, <4>2, <4>3, Zenon DEF Granted
      <3>. QED  BY <2>4, <3>2, <3>3, Zenon DEF AnswerInv
    <2>. QED  BY <2>3, <2>4, Zenon
  <1>8. CASE Grab
    <2>1. user + 1 \in 1..MaxUsers /\ "init" \in Kinds /\ TRUE \in BOOLEAN
          /\ call = NoCall
      BY <1>8 DEF Grab, TypeOK, Shapes, Kinds, CallInv
    <2>2. CASE UNCHANGED call
      BY <1>n, <2>1, <2>2, Zenon
    <2>3. CASE Write("init", user + 1, TRUE)
      BY <1>w, <2>1, <2>3, Zenon
    <2>. QED  BY <1>8, <2>2, <2>3, Zenon DEF Grab, callVars
  <1>9. CASE Release
    BY <1>9, <1>n, Zenon DEF Release, callVars
  <1>. QED
    BY <1>1, <1>2, <1>3, <1>4, <1>5, <1>7, <1>8, <1>9, <1>a, <1>b, NextCases, Zenon

\* A Commit that succeeds has read such an answer.
LEMMA CommitIsTrueStep ==
    ASSUME TypeOK, CallInv, StepInv, AnswerInv, CommitIsTrue, Next
    PROVE  CommitIsTrue'
  <1>. USE DEF CommitIsTrue
  <1>0. Sizes /\ (wire = <<>> <=> Len(wire) = 0)
    BY QueueTypes, Zenon
  <1>1. ASSUME UNCHANGED <<last, behind>>, committed \subseteq committed'
        PROVE  CommitIsTrue'
    BY <1>1, Zenon
  <1>2. ASSUME NEW k, NEW r, Return(k, r), UNCHANGED committed,
               k = "commit" /\ r = "ok" /\ ~behind' => tx \in committed
        PROVE  CommitIsTrue'
    <2>1. \/ last' = [kind |-> NoCall, tx |-> 0]
          \/ r = "ok" /\ last' = [kind |-> k, tx |-> tx]
      BY <1>2, Zenon DEF Return
    <2>2. CASE last' = [kind |-> NoCall, tx |-> 0]
      BY <2>2 DEF NoCall
    <2>3. CASE r = "ok" /\ last' = [kind |-> k, tx |-> tx]
      <3>1. last'.kind = k /\ last'.tx = tx
        BY <2>3, Zenon
      <3>. QED  BY <1>2, <2>3, <3>1, Zenon
    <2>. QED  BY <2>1, <2>2, <2>3, Zenon
  <1>3. ASSUME NEW k \in Kinds, Sending(k)
        PROVE  CommitIsTrue'
    BY <1>1, <1>3, Zenon DEF Sending, Write, readVars, serverVars
  <1>4. ASSUME NEW k \in Kinds, NEW r \in Outcomes, Returning(k, r)
        PROVE  CommitIsTrue'
    BY <1>2, <1>4, Zenon DEF Returning, serverVars
  <1>5. CASE Fail
    BY <1>2, <1>5, Zenon DEF Fail, serverVars
  <1>6. ASSUME NEW r \in Outcomes, Ended(r)
        PROVE  CommitIsTrue'
    <2>1. /\ replies # <<>> /\ replies' = Tail(replies) /\ UNCHANGED <<committed, behind>>
          /\ Return(call, r) /\ call # NoCall /\ ~busy /\ (r = "ok" => ~Head(replies).err)
      BY <1>6, Zenon DEF Ended, TakenOff, Reads, serverVars
    <2>2. ASSUME call = "commit", r = "ok", ~behind
          PROVE  tx \in committed
      <3>1. good /\ Len(wire) + Len(replies) = 1
        BY <2>1, <2>2, Zenon DEF CallInv, StepInv, Readers
      <3>2. Head(replies) = replies[1] /\ 1 \in 1..Len(replies)
        BY <2>1, EndQueue, Zenon
      <3>a. \A n, m \in Nat : n + m = 1 /\ 1 \in 1..m => m = 1 /\ n = 0
        OBVIOUS
      <3>3. Len(replies) = 1 /\ Len(wire) = 0
        BY <1>0, <3>1, <3>2, <3>a, Zenon DEF Sizes
      <3>4. ~replies[Len(replies)].err
        BY <2>1, <2>2, <3>2, <3>3, Zenon
      <3>. QED  BY <1>0, <2>1, <2>2, <3>1, <3>3, <3>4, Zenon DEF AnswerInv, Granted
    <2>. QED  BY <1>2, <2>1, <2>2, Zenon
  <1>7. ASSUME NEW q \in Request, NEW env \in Envs, NEW err \in BOOLEAN,
               Served1(q, env, err)
        PROVE  CommitIsTrue'
    BY <1>1, <1>7, Zenon DEF Served1, Serving, Quiet, Beginning, Batch, Committing, callVars
  <1>8. CASE ProcessEnvChg \/ Drained \/ Confirming \/ Grab \/ Release
    BY <1>1, <1>8, Zenon DEF ProcessEnvChg, Drained, TakenOff, Confirming, Grab, Release,
                      Write, callVars, readVars, serverVars
  <1>9. CASE Losing
    BY <1>9, Zenon DEF Losing
  <1>. QED
    BY <1>3, <1>4, <1>5, <1>6, <1>7, <1>8, <1>9, NextCases, Zenon

\* Users follow one another.
LEMMA UserStep ==
    ASSUME TypeOK, CallInv, UserInv, Next
    PROVE  UserInv'
  <1>q. Sizes /\ Entries
    BY QueueTypes, Zenon
  <1>0. Sizes /\ Entries /\ user \in Nat /\ resetFor \in Nat
    BY <1>q DEF TypeOK, Shapes
  <1>. USE DEF UserInv
  <1>t. \A i \in 1..Len(wire) : wire[i].user \in Nat
    BY <1>0 DEF Entries, Request
  <1>s. ASSUME UNCHANGED <<wire, user, resetFor>>
        PROVE  UserInv'
    BY <1>s, Zenon
  <1>w. ASSUME NEW k \in Kinds, NEW u \in 1..MaxUsers, NEW r \in BOOLEAN,
               Write(k, u, r), u >= user, user' = u
        PROVE  UserInv'
    <2>1. resetFor' = resetFor
      BY <1>w, Zenon DEF Write, serverVars
    <2>2. PICK q \in Request : Added(q, k, u, r)
      <3>. HIDE DEF UserInv
      <3>. QED  BY <1>w, WriteQueue, Zenon
    <2>3. \A i \in 1..Len(wire') : i \in 1..Len(wire) \/ i = Len(wire) + 1
      BY <2>2, Zenon DEF Added
    <2>4. ASSUME NEW i \in 1..Len(wire')
          PROVE  resetFor <= wire'[i].user /\ wire'[i].user <= u
      BY <1>0, <1>t, <1>w, <2>2, <2>3 DEF Added
    <2>5. ASSUME NEW i \in 1..Len(wire'), NEW j \in 1..Len(wire'), i <= j
          PROVE  wire'[i].user <= wire'[j].user
      <3>1. CASE j \in 1..Len(wire)
        BY <1>0, <2>2, <2>5, <3>1 DEF Added, Sizes
      <3>2. CASE j = Len(wire) + 1
        BY <2>2, <2>4, <3>2, Zenon DEF Added
      <3>. QED  BY <2>3, <3>1, <3>2, Zenon
    <2>. QED  BY <1>0, <1>w, <2>1, <2>4, <2>5
  <1>1. ASSUME NEW k \in Kinds, Sending(k)
        PROVE  UserInv'
    <2>1. /\ user \in 1..MaxUsers /\ reset \in BOOLEAN /\ Write(k, user, reset)
          /\ user' = user
      BY <1>1 DEF Sending, Idle, CallInv, TypeOK, Flags, Shapes
    <2>. QED  BY <1>0, <1>w, <2>1
  <1>2. ASSUME NEW k \in Kinds, NEW r \in Outcomes, Returning(k, r)
        PROVE  UserInv'
    BY <1>2, Zenon DEF Returning, serverVars
  <1>3. CASE Fail
    BY <1>3, EmptySeq DEF Fail, serverVars
  <1>4. CASE ProcessEnvChg \/ Drained \/ (\E r \in Outcomes : Ended(r)) \/ Release
    BY <1>4, <1>s, Zenon DEF ProcessEnvChg, Drained, Ended, TakenOff, Release, poolVars,
                serverVars
  <1>a. CASE Losing
    <2>1. LosingWire /\ UNCHANGED <<user, resetFor>>
      <3>. HIDE DEF UserInv
      <3>. QED  BY <1>a, LosingQueue, Zenon DEF Losing, serverVars
    <2>2. CASE wire' = wire
      BY <1>s, <2>1, <2>2, Zenon
    <2>3. CASE wire' # wire
      <3>1. Attention.user = user /\ user <= user
        BY <1>0 DEF Attention
      <3>2. ASSUME NEW i \in 1..Len(wire')
            PROVE  resetFor <= wire'[i].user /\ wire'[i].user <= user
        BY <2>1, <2>3, <3>1, Zenon DEF LosingWire
      <3>3. ASSUME NEW i \in 1..Len(wire'), NEW j \in 1..Len(wire'), i <= j
            PROVE  wire'[i].user <= wire'[j].user
        <4>1. CASE j \in 1..Len(wire)
          <5>1. i \in 1..Len(wire)
            BY <1>0, <3>3, <4>1 DEF Sizes
          <5>. QED  BY <2>1, <2>3, <3>3, <4>1, <5>1, Zenon DEF LosingWire
        <4>2. CASE j = Len(wire) + 1
          BY <2>1, <2>3, <3>1, <3>2, <4>2, Zenon DEF LosingWire
        <4>. QED  BY <2>1, <2>3, <4>1, <4>2, Zenon DEF LosingWire
      <3>. QED  BY <2>1, <3>2, <3>3, Zenon
    <2>. QED  BY <2>2, <2>3, Zenon
  <1>b. CASE Confirming
    <2>1. ConfirmedWire /\ UNCHANGED <<user, resetFor>>
      <3>. HIDE DEF UserInv
      <3>. QED  BY <1>b, ConfirmingQueue, Zenon DEF Confirming, poolVars, serverVars
    <2>2. ASSUME NEW i \in 1..Len(wire')
          PROVE  resetFor <= wire'[i].user /\ wire'[i].user <= user
      BY <2>1, Zenon DEF ConfirmedWire
    <2>3. ASSUME NEW i \in 1..Len(wire'), NEW j \in 1..Len(wire'), i <= j
          PROVE  wire'[i].user <= wire'[j].user
      <3>1. /\ i + 1 \in 1..Len(wire) /\ j + 1 \in 1..Len(wire) /\ i + 1 <= j + 1
            /\ wire'[i] = wire[i + 1] /\ wire'[j] = wire[j + 1]
        BY <1>0, <2>1, <2>3 DEF Sizes, ConfirmedWire
      <3>. QED  BY <3>1, Zenon
    <2>. QED  BY <2>1, <2>2, <2>3, Zenon
  <1>7. ASSUME NEW q \in Request, NEW env \in Envs, NEW err \in BOOLEAN,
               Served1(q, env, err)
        PROVE  UserInv'
    <2>q. Taken(q) /\ Answered(q, env, err)
      BY <1>7, ServeQueue, Zenon
    <2>1. user' = user /\ resetFor' = IF q.reset THEN q.user ELSE resetFor
      BY <1>7, Zenon DEF Served1, Serving, poolVars
    <2>2. ASSUME NEW i \in 1..Len(wire')
          PROVE  /\ resetFor' <= wire'[i].user /\ wire'[i].user <= user
      <3>1. /\ i + 1 \in 1..Len(wire) /\ 1 \in 1..Len(wire) /\ 1 <= i + 1
            /\ wire'[i] = wire[i + 1] /\ q = wire[1]
        BY <1>0, <2>q DEF Sizes, Taken
      <3>. QED  BY <2>1, <3>1, Zenon
    <2>3. ASSUME NEW i \in 1..Len(wire'), NEW j \in 1..Len(wire'), i <= j
          PROVE  wire'[i].user <= wire'[j].user
      <3>1. /\ i + 1 \in 1..Len(wire) /\ j + 1 \in 1..Len(wire) /\ i + 1 <= j + 1
            /\ wire'[i] = wire[i + 1] /\ wire'[j] = wire[j + 1]
        BY <1>0, <2>q, <2>3 DEF Sizes, Taken
      <3>. QED  BY <3>1, Zenon
    <2>4. resetFor' <= user
      BY <2>q, <2>1, Zenon DEF Taken
    <2>. QED  BY <2>1, <2>2, <2>3, <2>4, Zenon
  <1>8. CASE Grab
    <2>1. /\ user + 1 \in 1..MaxUsers /\ "init" \in Kinds /\ TRUE \in BOOLEAN
          /\ user' = user + 1
      BY <1>8 DEF Grab, TypeOK, Shapes, Kinds
    <2>2. CASE UNCHANGED <<wire, resetFor>>
      <3>1. \A i \in 1..Len(wire) :
               resetFor <= wire[i].user /\ wire[i].user <= user + 1
        BY <1>0, <1>t
      <3>2. resetFor <= user + 1
        BY <1>0
      <3>. QED  BY <2>1, <2>2, <3>1, <3>2, Zenon
    <2>3. CASE Write("init", user + 1, TRUE)
      <3>. HIDE DEF UserInv
      <3>1. user + 1 >= user
        BY <1>0
      <3>. QED  BY <1>w, <2>1, <2>3, <3>1, Zenon
    <2>. QED  BY <1>8, <2>2, <2>3, Zenon DEF Grab, serverVars
  <1>. QED
    BY <1>1, <1>2, <1>3, <1>4, <1>7, <1>8, <1>a, <1>b, NextCases, Zenon

\* The session is reset for a user before the user's first request runs.
LEMMA ResetStep ==
    ASSUME TypeOK, CallInv, WireInv, ResetInv, Next
    PROVE  ResetInv'
  <1>. USE DEF ResetInv
  <1>0. Sizes /\ Entries /\ (wire = <<>> <=> Len(wire) = 0)
    BY QueueTypes, Zenon
  <1>w. ASSUME NEW k \in Kinds, NEW u \in 1..MaxUsers, NEW r \in BOOLEAN,
               Write(k, u, r), user' = u,
               \/ r \/ u \in spoiled
               \/ IF wire = <<>> THEN resetFor = u ELSE wire[Len(wire)].user = u
        PROVE  ResetInv'
    <2>1. UNCHANGED <<resetFor, spoiled>>
      BY <1>w, Zenon DEF Write, serverVars
    <2>2. PICK q \in Request : Added(q, k, u, r)
      <3>. HIDE DEF ResetInv
      <3>. QED  BY <1>w, WriteQueue, Zenon
    <2>3. ASSUME NEW i \in 1..Len(wire')
          PROVE  \/ wire'[i].reset \/ wire'[i].user \in spoiled
                 \/ IF i = 1 THEN resetFor = wire'[1].user
                             ELSE wire'[i - 1].user = wire'[i].user
      <3>1. CASE i \in 1..Len(wire)
        <4>1. i # 1 => i - 1 \in 1..Len(wire)
          BY <1>0, <3>1 DEF Sizes
        <4>. QED  BY <2>2, <3>1, <4>1, Zenon DEF Added
      <3>2. CASE i = Len(wire) + 1
        <4>1. (i = 1 <=> wire = <<>>) /\ i - 1 = Len(wire)
          BY <1>0, <3>2 DEF Sizes
        <4>2. i # 1 => Len(wire) \in 1..Len(wire)
          BY <1>0, <3>2 DEF Sizes
        <4>. QED  BY <1>w, <2>2, <3>2, <4>1, <4>2 DEF Added
      <3>. QED  BY <1>0, <2>2, <3>1, <3>2, Zenon DEF Added, Sizes
    <2>4. wire' # <<>> /\ wire'[Len(wire')].user = u
      BY <1>0, <2>2, EmptySeq DEF Added, Sizes
    <2>. QED  BY <1>w, <2>1, <2>3, <2>4, Zenon
  <1>1. ASSUME NEW k \in Kinds, Sending(k)
        PROVE  ResetInv'
    <2>1. /\ user \in 1..MaxUsers /\ reset \in BOOLEAN /\ Write(k, user, reset)
          /\ user' = user /\ good /\ place = "held"
      BY <1>1 DEF Sending, Idle, CallInv, TypeOK, Flags, Shapes
    <2>. QED  BY <1>w, <2>1, Zenon
  <1>s. ASSUME UNCHANGED <<wire, resetFor, user>>, spoiled \subseteq spoiled',
               place' = "init" \/ (good' /\ place' = "held" /\ ~reset') =>
                  \/ user \in spoiled'
                  \/ place = "init" \/ (good /\ place = "held" /\ ~reset)
        PROVE  ResetInv'
    BY <1>s, Zenon
  <1>2. ASSUME NEW k \in Kinds, NEW r \in Outcomes, Returning(k, r)
        PROVE  ResetInv'
    <2>1. /\ UNCHANGED <<wire, resetFor, user>> /\ place' = "held"
          /\ good /\ place = "held"
      BY <1>2, Zenon DEF Returning, Return, serverVars
    <2>2. spoiled \subseteq spoiled' /\ (~reset' => user \in spoiled' \/ ~reset)
      <3>1. \/ UNCHANGED <<reset, spoiled>>
            \/ spoiled' = spoiled \cup {u \in {user} : reset}
        BY <1>2, Zenon DEF Returning
      <3>2. CASE UNCHANGED <<reset, spoiled>>
        BY <3>2, Zenon
      <3>3. CASE spoiled' = spoiled \cup {u \in {user} : reset}
        <4>1. spoiled \subseteq spoiled'
          BY <3>3, Zenon
        <4>2. reset => user \in {u \in {user} : reset}
          BY Zenon
        <4>. QED  BY <3>3, <4>1, <4>2, Zenon
      <3>. QED  BY <3>1, <3>2, <3>3, Zenon
    <2>. QED  BY <1>s, <2>1, <2>2, Zenon
  <1>3. CASE Fail
    <2>1. /\ wire' \in {wire, <<>>} /\ ~good' /\ UNCHANGED <<user, resetFor, spoiled>>
          /\ place' # "init"
      BY <1>3, Zenon DEF Fail, Return, serverVars, CallInv
    <2>. QED  BY <2>1, EmptySeq
  <1>4. CASE ProcessEnvChg
    BY <1>4, <1>s, Zenon DEF ProcessEnvChg, poolVars, serverVars
  <1>5. CASE Drained
    BY <1>5, <1>s, Zenon DEF Drained, TakenOff, serverVars
  <1>6. ASSUME NEW r \in Outcomes, Ended(r)
        PROVE  ResetInv'
    <2>1. Return(call, r)
      BY <1>6, Zenon DEF Ended
    <2>2. UNCHANGED <<wire, user, resetFor, spoiled, reset>>
      BY <1>6, Zenon DEF Ended, TakenOff, serverVars
    <2>3. good /\ ~reset
      BY <1>6, Zenon DEF Ended, Reads, CallInv
    <2>4. /\ place' # "init"
          /\ place' = "held" => place \in {"init", "held"}
      BY <2>1, Zenon DEF Return, CallInv
    <2>. QED  BY <1>s, <2>2, <2>3, <2>4, Zenon
  <1>a. CASE Losing
    <2>1. UNCHANGED <<user, resetFor, spoiled, reset>> /\ good' \in {good, FALSE}
      BY <1>a, Zenon DEF Losing, serverVars
    <2>2. CASE UNCHANGED <<good, inTx, place, tx, call, last, wire>>
      BY <1>s, <2>1, <2>2, Zenon
    <2>3. ASSUME call # NoCall, NEW r \in {"err", "ctx"}, Return(call, r)
          PROVE  ResetInv'
      <3>1. place' # "init" /\ (place' = "held" => place = "held")
        BY <2>3, ReturnFails, Zenon
      <3>2. good /\ ~reset
        BY <2>3, Zenon DEF CallInv
      <3>3. CASE wire' = wire
        BY <1>s, <2>1, <3>1, <3>2, <3>3, Zenon
      <3>4. CASE wire' # wire
        <4>1. LosingWire
          <5>. HIDE DEF ResetInv
          <5>. QED  BY <1>a, LosingQueue, Zenon
        <4>2. /\ Len(wire') = Len(wire) + 1 /\ wire'[Len(wire) + 1] = Attention
              /\ \A i \in 1..Len(wire) : wire'[i] = wire[i]
              /\ \A i \in 1..Len(wire') : i \in 1..Len(wire) \/ i = Len(wire) + 1
              /\ wire' # <<>> /\ Attention.user = user
          BY <3>4, <4>1 DEF LosingWire, Attention
        <4>3. place \in {"init", "held"}
          BY <2>3, Zenon DEF CallInv
        <4>4. \/ user \in spoiled
              \/ IF wire = <<>> THEN resetFor = user ELSE wire[Len(wire)].user = user
          BY <3>2, <4>3, Zenon
        <4>5. ASSUME NEW i \in 1..Len(wire')
              PROVE  \/ wire'[i].reset \/ wire'[i].user \in spoiled
                     \/ IF i = 1 THEN resetFor = wire'[1].user
                                 ELSE wire'[i - 1].user = wire'[i].user
          <5>1. CASE i \in 1..Len(wire)
            <6>1. i # 1 => i - 1 \in 1..Len(wire)
              BY <1>0, <5>1 DEF Sizes
            <6>. QED  BY <4>2, <5>1, <6>1, Zenon
          <5>2. CASE i = Len(wire) + 1
            <6>1. (i = 1 <=> wire = <<>>) /\ i - 1 = Len(wire)
              BY <1>0, <5>2 DEF Sizes
            <6>2. i # 1 => Len(wire) \in 1..Len(wire)
              BY <1>0, <5>2 DEF Sizes
            <6>3. wire'[i].user = user
              BY <4>2, <5>2, Zenon
            <6>4. i # 1 => wire'[i - 1] = wire[Len(wire)]
              BY <4>2, <6>1, <6>2, Zenon
            <6>. QED  BY <4>4, <6>1, <6>3, <6>4, Zenon
          <5>. QED  BY <4>2, <5>1, <5>2, Zenon
        <4>6. wire'[Len(wire')].user = user
          BY <4>2, Zenon
        <4>. QED  BY <2>1, <4>2, <4>5, <4>6, Zenon
      <3>. QED  BY <3>3, <3>4, Zenon
    <2>. QED  BY <1>a, <2>2, <2>3, Zenon DEF Losing
  <1>b. CASE Confirming
    <2>1. /\ UNCHANGED <<good, reset, place, user, spoiled, resetFor>>
          /\ wire # <<>> /\ wire[1].kind = "attn"
      BY <1>b, Zenon DEF Confirming, connVars, poolVars, serverVars
    <2>q. ConfirmedWire
      <3>. HIDE DEF ResetInv
      <3>. QED  BY <1>b, ConfirmingQueue, Zenon
    <2>2. wire[1].user \in spoiled \/ resetFor = wire[1].user
      BY <2>1, <2>q, Zenon DEF ConfirmedWire, WireInv
    <2>4. ASSUME NEW i \in 1..Len(wire')
          PROVE  \/ wire'[i].reset \/ wire'[i].user \in spoiled
                 \/ IF i = 1 THEN resetFor = wire'[1].user
                             ELSE wire'[i - 1].user = wire'[i].user
      <3>1. i + 1 \in 1..Len(wire) /\ wire'[i] = wire[i + 1] /\ i + 1 # 1
        BY <1>0, <2>q DEF Sizes, ConfirmedWire
      <3>2. \/ wire'[i].reset \/ wire'[i].user \in spoiled
            \/ wire[i].user = wire'[i].user
        BY <1>0, <3>1 DEF Sizes
      <3>3. CASE i = 1
        BY <2>2, <3>1, <3>2, <3>3, Zenon
      <3>4. CASE i # 1
        <4>1. i - 1 \in 1..Len(wire') /\ (i - 1) + 1 = i
          BY <1>0, <2>q, <3>4 DEF Sizes, ConfirmedWire
        <4>2. wire'[i - 1] = wire[i]
          BY <2>q, <4>1, Zenon DEF ConfirmedWire
        <4>. QED  BY <3>2, <3>4, <4>2, Zenon
      <3>. QED  BY <3>3, <3>4, Zenon
    <2>5. ASSUME \/ user \in spoiled
                 \/ wire[Len(wire)].user = user
          PROVE  \/ user \in spoiled
                 \/ IF wire' = <<>> THEN resetFor = user
                                    ELSE wire'[Len(wire')].user = user
      <3>1. CASE wire' = <<>>
        BY <2>q, <2>2, <2>5, <3>1, Zenon DEF ConfirmedWire
      <3>2. CASE wire' # <<>>
        <4>0. Len(wire') \in Nat /\ Len(wire') # 0
          BY <2>q, <3>2, LenProperties, EmptySeq, Zenon DEF ConfirmedWire
        <4>1. Len(wire') \in 1..Len(wire') /\ Len(wire') + 1 = Len(wire)
          BY <1>0, <2>q, <4>0 DEF Sizes, ConfirmedWire
        <4>2. wire'[Len(wire')] = wire[Len(wire)]
          BY <2>q, <4>1, Zenon DEF ConfirmedWire
        <4>. QED  BY <2>5, <3>2, <4>2, Zenon
      <3>. QED  BY <3>1, <3>2, Zenon
    <2>. QED  BY <2>1, <2>4, <2>5, Zenon
  <1>7. ASSUME NEW q \in Request, NEW env \in Envs, NEW err \in BOOLEAN,
               Served1(q, env, err)
        PROVE  ResetInv'
    <2>q. Taken(q) /\ Answered(q, env, err)
      BY <1>7, ServeQueue, Zenon
    <2>1. /\ UNCHANGED <<good, reset, place, user, spoiled>>
          /\ resetFor' = IF q.reset THEN q.user ELSE resetFor
      BY <1>7, Zenon DEF Served1, Serving, connVars, poolVars
    <2>2. q = wire[1] /\ 1 \in 1..Len(wire) /\ wire # <<>>
      BY <1>0, <2>q, Zenon DEF Sizes, Taken
    <2>3. q.user \in spoiled \/ resetFor' = q.user
      BY <2>1, <2>2, Zenon
    <2>4. ASSUME NEW i \in 1..Len(wire')
          PROVE  \/ wire'[i].reset \/ wire'[i].user \in spoiled
                 \/ IF i = 1 THEN resetFor' = wire'[1].user
                             ELSE wire'[i - 1].user = wire'[i].user
      <3>1. i + 1 \in 1..Len(wire) /\ wire'[i] = wire[i + 1] /\ i + 1 # 1
        BY <1>0, <2>q DEF Sizes, Taken
      <3>2. \/ wire'[i].reset \/ wire'[i].user \in spoiled
            \/ wire[i].user = wire'[i].user
        BY <1>0, <3>1 DEF Sizes
      <3>3. CASE i = 1
        BY <2>2, <2>3, <3>1, <3>2, <3>3, Zenon
      <3>4. CASE i # 1
        <4>1. i - 1 \in 1..Len(wire') /\ (i - 1) + 1 = i
          BY <1>0, <2>q, <3>4 DEF Sizes, Taken
        <4>2. wire'[i - 1] = wire[i]
          BY <2>q, <4>1, Zenon DEF Taken
        <4>. QED  BY <3>2, <3>4, <4>2, Zenon
      <3>. QED  BY <3>3, <3>4, Zenon
    <2>5. ASSUME \/ user \in spoiled
                 \/ wire[Len(wire)].user = user
          PROVE  \/ user \in spoiled
                 \/ IF wire' = <<>> THEN resetFor' = user
                                    ELSE wire'[Len(wire')].user = user
      <3>1. CASE wire' = <<>>
        BY <2>q, <2>2, <2>3, <2>5, <3>1, Zenon DEF Taken
      <3>2. CASE wire' # <<>>
        <4>1. Len(wire') \in 1..Len(wire') /\ Len(wire') + 1 = Len(wire)
          BY <1>0, <2>q, <2>2, <3>2 DEF Sizes, Taken
        <4>2. wire'[Len(wire')] = wire[Len(wire)]
          BY <2>q, <4>1, Zenon DEF Taken
        <4>. QED  BY <2>5, <3>2, <4>2, Zenon
      <3>. QED  BY <3>1, <3>2, Zenon
    <2>. QED  BY <2>1, <2>2, <2>4, <2>5, Zenon
  <1>8. CASE Grab
    <2>1. /\ user + 1 \in 1..MaxUsers /\ "init" \in Kinds /\ TRUE \in BOOLEAN
          /\ user' = user + 1
      BY <1>8 DEF Grab, TypeOK, Shapes, Kinds
    <2>2. CASE UNCHANGED <<wire, resetFor, spoiled>> /\ reset' = TRUE /\ place' = "held"
      BY <2>2, Zenon
    <2>3. CASE Write("init", user + 1, TRUE)
      BY <1>w, <2>1, <2>3, Zenon
    <2>. QED  BY <1>8, <2>2, <2>3, Zenon DEF Grab, serverVars
  <1>9. CASE Release
    <2>1. UNCHANGED <<wire, resetFor, spoiled>> /\ place' \in {"pool", "closed"}
      BY <1>9, Zenon DEF Release, serverVars
    <2>. QED  BY <2>1, Zenon
  <1>. QED
    BY <1>1, <1>2, <1>3, <1>4, <1>5, <1>6, <1>7, <1>8, <1>9, <1>a, <1>b, NextCases,
       Zenon

\* What a step of the server does to the transactions.
LEMMA ServeTransactions ==
    ASSUME TypeOK, OwnerInv, NEW q \in Request, NEW env \in Envs,
           NEW err \in BOOLEAN, Served1(q, env, err)
    PROVE  /\ Len(begun) \in Nat /\ Len(begun') >= Len(begun)
           /\ \A i \in 1..Len(begun) : begun'[i] = begun[i]
           /\ \/ srvTx' = 0
              \/ srvTx' = srvTx /\ ~q.reset
              \/ /\ srvTx' = Len(begun) + 1 /\ Len(begun') = Len(begun) + 1
                 /\ begun'[srvTx'] = q.user
           /\ \/ ran' = ran
              \/ /\ q.kind \in {"init", "exec", "query"} /\ Accepts(q)
                 /\ ran' = ran \cup {[user |-> q.user, want |-> q.want,
                                      got |-> AfterReset(q)]}
  <1>0. /\ begun \in Seq(1..MaxUsers) /\ Len(begun) \in Nat
        /\ q.user \in 1..MaxUsers /\ srvTx \in Nat
    BY LenProperties DEF TypeOK, Shapes, Request
  <1>1. srvTx' = IF env = NoEnv THEN srvTx ELSE env
    BY Zenon DEF Served1, Serving
  <1>2. CASE Quiet(q, env, err)
    BY <1>0, <1>1, <1>2 DEF Quiet, NoEnv
  <1>3. CASE Beginning(q, env, err)
    <2>1. /\ begun' = Append(begun, q.user) /\ ran' = ran
          /\ srvTx' = Len(begun) + 1
      BY <1>0, <1>1, <1>3 DEF Beginning, NoEnv
    <2>2. /\ Len(begun') = Len(begun) + 1 /\ begun'[Len(begun) + 1] = q.user
          /\ \A i \in 1..Len(begun) : begun'[i] = begun[i]
      BY <1>0, <2>1, AppendEntries
    <2>. QED  BY <1>0, <2>1, <2>2
  <1>4. CASE Batch(q, env)
    BY <1>0, <1>4 DEF Batch, AfterReset
  <1>5. CASE Committing(q, env)
    BY <1>0, <1>1, <1>5 DEF Committing, NoEnv
  <1>. QED
    BY <1>2, <1>3, <1>4, <1>5, Zenon DEF Served1

\* The session's transaction stays younger than its reset.
LEMMA OwnerStep ==
    ASSUME TypeOK, CallInv, UserInv, OwnerInv, Next
    PROVE  OwnerInv'
  <1>. USE DEF OwnerInv
  <1>0. /\ Sizes /\ Entries /\ user \in Nat /\ resetFor \in Nat /\ srvTx \in Nat
        /\ begun \in Seq(1..MaxUsers) /\ Len(begun) \in Nat
    BY QueueTypes, LenProperties DEF TypeOK, Shapes
  <1>t. srvTx # 0 => begun[srvTx] \in Nat
    BY <1>0, ElementOfSeq
  <1>s. ASSUME UNCHANGED <<wire, user>>, UNCHANGED serverVars
        PROVE  OwnerInv'
    BY <1>s, Zenon DEF serverVars
  <1>w. ASSUME NEW k \in Kinds, NEW u \in 1..MaxUsers, NEW r \in BOOLEAN,
               Write(k, u, r), u >= user, user' = u
        PROVE  OwnerInv'
    <2>1. UNCHANGED <<srvTx, begun, resetFor, ran>>
      BY <1>w, Zenon DEF Write, serverVars
    <2>2. PICK q \in Request : Added(q, k, u, r)
      <3>. HIDE DEF OwnerInv
      <3>. QED  BY <1>w, WriteQueue, Zenon
    <2>3. ASSUME srvTx # 0, NEW i \in 1..Len(wire')
          PROVE  begun[srvTx] <= wire'[i].user
      <3>1. i \in 1..Len(wire) \/ i = Len(wire) + 1
        BY <2>2, Zenon DEF Added
      <3>2. begun[srvTx] <= u
        BY <1>0, <1>t, <1>w, <2>3
      <3>. QED  BY <2>2, <2>3, <3>1, <3>2, Zenon DEF Added
    <2>4. srvTx # 0 => begun[srvTx] <= u
      BY <1>0, <1>t, <1>w
    <2>. QED  BY <1>w, <2>1, <2>3, <2>4, Zenon
  <1>1. ASSUME NEW k \in Kinds, Sending(k)
        PROVE  OwnerInv'
    <2>1. /\ user \in 1..MaxUsers /\ reset \in BOOLEAN /\ Write(k, user, reset)
          /\ user' = user /\ user >= user
      BY <1>1 DEF Sending, Idle, CallInv, TypeOK, Flags, Shapes
    <2>. HIDE DEF OwnerInv
    <2>. QED  BY <1>w, <2>1, Zenon
  <1>2. ASSUME NEW k \in Kinds, NEW r \in Outcomes, Returning(k, r)
        PROVE  OwnerInv'
    BY <1>2, <1>s, Zenon DEF Returning
  <1>3. CASE Fail
    BY <1>3, EmptySeq DEF Fail, serverVars
  <1>4. CASE ProcessEnvChg \/ Drained \/ (\E r \in Outcomes : Ended(r)) \/ Release
    <2>1. UNCHANGED <<wire, user>> /\ UNCHANGED serverVars
      <3>. HIDE DEF OwnerInv
      <3>. QED  BY <1>4, Zenon
                DEF ProcessEnvChg, Drained, Ended, TakenOff, Release, poolVars
    <2>. QED  BY <1>s, <2>1, Zenon
  <1>a. CASE Losing
    <2>1. LosingWire /\ UNCHANGED <<user, srvTx, begun, resetFor, ran>>
      <3>. HIDE DEF OwnerInv
      <3>. QED  BY <1>a, LosingQueue, Zenon DEF Losing, serverVars
    <2>2. Attention.user = user
      BY DEF Attention
    <2>3. ASSUME srvTx # 0, NEW i \in 1..Len(wire')
          PROVE  begun[srvTx] <= wire'[i].user
      BY <2>1, <2>2, <2>3, Zenon DEF LosingWire
    <2>. QED  BY <2>1, <2>3, Zenon
  <1>b. CASE Confirming
    <2>1. ConfirmedWire /\ UNCHANGED <<user, srvTx, begun, resetFor, ran>>
      <3>. HIDE DEF OwnerInv
      <3>. QED  BY <1>b, ConfirmingQueue, Zenon DEF Confirming, poolVars, serverVars
    <2>. QED  BY <2>1, Zenon DEF ConfirmedWire
  <1>7. ASSUME NEW q \in Request, NEW env \in Envs, NEW err \in BOOLEAN,
               Served1(q, env, err)
        PROVE  OwnerInv'
    <2>q. Taken(q) /\ Answered(q, env, err)
      BY <1>7, ServeQueue, Zenon
    <2>1. user' = user /\ resetFor' = IF q.reset THEN q.user ELSE resetFor
      BY <1>7, Zenon DEF Served1, Serving, poolVars
    <2>2. /\ q = wire[1] /\ 1 \in 1..Len(wire) /\ q.user \in Nat
          /\ resetFor <= q.user /\ q.user <= user
      BY <2>q DEF UserInv, Request, Taken
    <2>3. ASSUME NEW i \in 1..Len(wire')
          PROVE  /\ q.user <= wire'[i].user
                 /\ srvTx # 0 => begun[srvTx] <= wire'[i].user
      <3>1. /\ i + 1 \in 1..Len(wire) /\ wire'[i] = wire[i + 1] /\ 1 <= i + 1
        BY <1>0, <2>q DEF Sizes, Taken
      <3>. QED  BY <2>2, <3>1, Zenon DEF UserInv
    <2>4. /\ Len(begun') >= Len(begun)
          /\ \A i \in 1..Len(begun) : begun'[i] = begun[i]
      BY <1>7, ServeTransactions, Zenon
    <2>5. \A r \in ran' : r.got <= Len(begun')
      <3>0. Len(begun') \in Nat
        BY ShapesStep, LenProperties, Zenon DEF Shapes
      <3>1. \A r \in ran : r.got \in Nat
        BY DEF TypeOK, Shapes
      <3>2. AfterReset(q) \in Nat /\ AfterReset(q) <= Len(begun)
        BY <1>0 DEF AfterReset
      <3>3. \/ ran' = ran
            \/ ran' = ran \cup {[user |-> q.user, want |-> q.want,
                                 got |-> AfterReset(q)]}
        BY <1>7, ServeTransactions, Zenon
      <3>4. ASSUME NEW r \in ran'
            PROVE  r.got \in Nat /\ r.got <= Len(begun)
        BY <3>1, <3>2, <3>3
      <3>. QED  BY <1>0, <2>4, <3>0, <3>4
    <2>6. CASE srvTx' = 0
      <3>1. Len(begun') >= 0
        BY ShapesStep, LenProperties DEF Shapes
      <3>. QED  BY <2>5, <2>6, <3>1, Zenon
    <2>7. CASE srvTx' = srvTx /\ ~q.reset
      <3>1. srvTx <= Len(begun')
        BY <1>0, <2>4, ShapesStep, LenProperties DEF Shapes
      <3>2. srvTx # 0 => begun'[srvTx] = begun[srvTx]
        BY <1>0, <2>4
      <3>. QED  BY <2>1, <2>3, <2>5, <2>7, <3>1, <3>2, Zenon
    <2>8. CASE /\ srvTx' = Len(begun) + 1 /\ Len(begun') = Len(begun) + 1
               /\ begun'[srvTx'] = q.user
      <3>1. srvTx' <= Len(begun')
        BY <1>0, <2>8
      <3>2. resetFor' <= q.user
        BY <2>1, <2>2
      <3>. QED  BY <2>1, <2>2, <2>3, <2>5, <2>8, <3>1, <3>2, Zenon
    <2>. QED  BY <1>7, <2>6, <2>7, <2>8, ServeTransactions, Zenon
  <1>8. CASE Grab
    <2>1. /\ user + 1 \in 1..MaxUsers /\ "init" \in Kinds /\ TRUE \in BOOLEAN
          /\ user' = user + 1 /\ user + 1 >= user
      BY <1>8 DEF Grab, TypeOK, Shapes, Kinds
    <2>2. CASE UNCHANGED <<wire, srvTx, begun, resetFor, ran>>
      <3>1. srvTx # 0 => begun[srvTx] <= user + 1
        BY <1>0, <1>t
      <3>. QED  BY <2>1, <2>2, <3>1, Zenon
    <2>3. CASE Write("init", user + 1, TRUE)
      <3>. HIDE DEF OwnerInv
      <3>. QED  BY <1>w, <2>1, <2>3, Zenon
    <2>. QED  BY <1>8, <2>2, <2>3, Zenon DEF Grab, serverVars
  <1>. QED
    BY <1>1, <1>2, <1>3, <1>4, <1>7, <1>8, <1>a, <1>b, NextCases, Zenon

\* Only the server changes what has run and what was begun, and no step takes
\* a user from the spoiled ones.
LEMMA RanStep ==
    ASSUME TypeOK, CallInv, Next
    PROVE  /\ \/ UNCHANGED <<ran, begun>> /\ (behind => behind')
              \/ \E q \in Request, env \in Envs, err \in BOOLEAN : Served1(q, env, err)
           /\ spoiled \subseteq spoiled'
  <1>1. ASSUME NEW k \in Kinds, Sending(k)
        PROVE  UNCHANGED <<ran, begun, behind, spoiled>>
    BY <1>1, Zenon DEF Sending, Write, readVars, serverVars
  <1>2. ASSUME NEW k \in Kinds, NEW r \in Outcomes, Returning(k, r)
        PROVE  UNCHANGED <<ran, begun, behind>> /\ spoiled \subseteq spoiled'
    BY <1>2, Zenon DEF Returning, serverVars
  <1>3. CASE \/ Fail \/ ProcessEnvChg \/ Drained \/ (\E r \in Outcomes : Ended(r))
             \/ Losing \/ Confirming \/ Grab \/ Release
    <2>1. UNCHANGED <<ran, begun, spoiled>>
      BY <1>3, Zenon DEF Fail, ProcessEnvChg, Drained, Ended, TakenOff, Losing,
                  Confirming, Grab, Release, Write, readVars, serverVars
    <2>2. behind' = behind \/ behind' = TRUE
      BY <1>3, Zenon DEF Fail, ProcessEnvChg, Drained, Ended, TakenOff, Losing,
                  Confirming, Grab, Release, Write, readVars, serverVars
    <2>3. behind => behind'
      BY <2>2
    <2>. QED  BY <2>1, <2>3, Zenon
  <1>4. ASSUME NEW q \in Request, NEW env \in Envs, NEW err \in BOOLEAN,
               Served1(q, env, err)
        PROVE  spoiled' = spoiled
    BY <1>4, Zenon DEF Served1, Serving
  <1>. QED
    BY <1>1, <1>2, <1>3, <1>4, NextCases, Zenon

\* A request made in a Tx is executed in its transaction.
LEMMA TxWritesStep ==
    ASSUME TypeOK, CallInv, WireInv, OwnerInv, TxWritesInTx, Next
    PROVE  TxWritesInTx'
  <1>. USE DEF TxWritesInTx
  <1>1. CASE ran' = ran /\ (behind => behind')
    BY <1>1, Zenon
  <1>2. ASSUME NEW q \in Request, NEW env \in Envs, NEW err \in BOOLEAN,
               Served1(q, env, err)
        PROVE  TxWritesInTx'
    <2>0. behind' = behind
      BY <1>2, Zenon DEF Served1, Serving
    <2>1. ASSUME Accepts(q), q.want # 0
          PROVE  AfterReset(q) = q.want \/ (behind /\ AfterReset(q) # 0)
      <3>1. ~q.reset /\ q.hdr # 0 /\ (behind \/ q.hdr = q.want)
        BY <1>2, <2>1, ServeQueue, Zenon DEF WireInv, Taken
      <3>. QED  BY <2>1, <3>1, Zenon DEF Accepts, AfterReset
    <2>2. \/ ran' = ran
          \/ Accepts(q) /\ ran' = ran \cup {[user |-> q.user, want |-> q.want,
                                             got |-> AfterReset(q)]}
      BY <1>2, ServeTransactions, Zenon
    <2>. QED  BY <2>0, <2>1, <2>2
  <1>. QED
    BY <1>1, <1>2, RanStep, Zenon

\* A request is executed in no other user's transaction.
LEMMA InheritStep ==
    ASSUME TypeOK, CallInv, ResetInv, UserInv, OwnerInv, NoInheritedTx, Next
    PROVE  NoInheritedTx'
  <1>. USE DEF NoInheritedTx
  <1>0. spoiled \subseteq spoiled'
    BY RanStep, Zenon
  <1>1. CASE UNCHANGED <<ran, begun>>
    BY <1>0, <1>1, Zenon
  <1>2. ASSUME NEW q \in Request, NEW env \in Envs, NEW err \in BOOLEAN,
               Served1(q, env, err)
        PROVE  NoInheritedTx'
    <2>1. /\ Len(begun) \in Nat /\ \A i \in 1..Len(begun) : begun'[i] = begun[i]
          /\ begun \in Seq(1..MaxUsers) /\ srvTx \in Nat /\ resetFor \in Nat
      BY <1>2, ServeTransactions DEF TypeOK, Shapes
    <2>2. ASSUME NEW r \in ran, r.got # 0
          PROVE  begun'[r.got] = r.user \/ r.user \in spoiled'
      <3>1. r.got \in Nat /\ r.got <= Len(begun)
        BY DEF TypeOK, Shapes, OwnerInv
      <3>2. begun'[r.got] = begun[r.got]
        BY <2>1, <2>2, <3>1
      <3>. QED  BY <1>0, <2>2, <3>2, Zenon
    <2>3. ASSUME AfterReset(q) # 0
          PROVE  begun'[AfterReset(q)] = q.user \/ q.user \in spoiled'
      <3>1. ~q.reset /\ AfterReset(q) = srvTx /\ srvTx # 0
        BY <2>3, Zenon DEF AfterReset
      <3>2. q.user \in spoiled \/ resetFor = q.user
        BY <1>2, <3>1, ServeQueue, Zenon DEF ResetInv, Taken
      <3>3. resetFor <= begun[srvTx] /\ begun[srvTx] <= q.user
        BY <1>2, <3>1, ServeQueue, Zenon DEF OwnerInv, Taken
      <3>4. begun[srvTx] \in Nat /\ begun'[srvTx] = begun[srvTx]
        BY <2>1, <3>1, ElementOfSeq DEF OwnerInv
      <3>. QED  BY <1>0, <2>1, <3>1, <3>2, <3>3, <3>4
    <2>4. \/ ran' = ran
          \/ ran' = ran \cup {[user |-> q.user, want |-> q.want,
                               got |-> AfterReset(q)]}
      BY <1>2, ServeTransactions, Zenon
    <2>. QED  BY <2>2, <2>3, <2>4
  <1>. QED
    BY <1>1, <1>2, RanStep, Zenon

-----------------------------------------------------------------------------
(* The theorems.                                                            *)

\* The invariant holds at the start.
LEMMA InitIInv == Init => IInv
  <1>. SUFFICES ASSUME Init PROVE IInv
    BY Zenon
  <1>. USE DEF Init
  <1>1. Len(<<>>) = 0 /\ \A S : <<>> \in Seq(S)
    BY EmptySeq, Zenon
  <1>2. Flags
    BY Zenon DEF Flags
  <1>3. Shapes
    BY <1>1 DEF Shapes, NoCall
  <1>e. /\ 1..Len(wire) = {} /\ 1..Len(replies) = {} /\ Len(begun) = 0
        /\ Len(wire) + Len(replies) = 0
    BY <1>1
  <1>4. CallInv /\ TxInv /\ StepInv /\ AnswerInv /\ CommitIsTrue
    <2>1. CallInv
      BY <1>e, Zenon DEF CallInv, NoCall
    <2>2. TxInv /\ AnswerInv /\ CommitIsTrue
      BY Zenon DEF TxInv, AnswerInv, CommitIsTrue, NoCall
    <2>3. StepInv
      BY <1>e, Zenon DEF StepInv, Readers
    <2>. QED  BY <2>1, <2>2, <2>3, Zenon
  <1>5. EnvInv /\ WireInv /\ UserInv /\ ResetInv /\ OwnerInv
    <2>1. WireInv /\ UserInv
      BY <1>e DEF WireInv, UserInv
    <2>2. EnvInv
      BY <1>e, Zenon DEF EnvInv, NoneFrom
    <2>3. ResetInv
      BY <1>e, Zenon DEF ResetInv
    <2>4. OwnerInv
      BY <1>e DEF OwnerInv
    <2>. QED  BY <2>1, <2>2, <2>3, <2>4, Zenon
  <1>6. TxWritesInTx /\ NoInheritedTx
    BY Zenon DEF TxWritesInTx, NoInheritedTx
  <1>. QED
    BY <1>2, <1>3, <1>4, <1>5, <1>6, Zenon DEF IInv, TypeOK

\* A step that changes nothing keeps the invariant.
LEMMA StutterIInv ==
    ASSUME IInv, UNCHANGED vars
    PROVE  IInv'
  <1>. USE DEF vars, connVars, poolVars, callVars, readVars, serverVars
  <1>1. Flags' /\ Shapes'
    BY Zenon DEF IInv, TypeOK, Flags, Shapes
  <1>2. CallInv' /\ StepInv' /\ EnvInv' /\ TxInv' /\ WireInv' /\ AnswerInv'
    BY Zenon DEF IInv, CallInv, StepInv, Readers, EnvInv, NoneFrom, TxInv, OpenTx,
           WireInv, AnswerInv, Granted
  <1>3. UserInv' /\ ResetInv' /\ OwnerInv'
    BY Zenon DEF IInv, UserInv, ResetInv, OwnerInv
  <1>4. TxWritesInTx' /\ CommitIsTrue' /\ NoInheritedTx'
    BY Zenon DEF IInv, TxWritesInTx, CommitIsTrue, NoInheritedTx
  <1>. QED
    BY <1>1, <1>2, <1>3, <1>4, Zenon DEF IInv, TypeOK

\* The inductive invariant of the connection, its wire and the session.
THEOREM InductiveInvariant == Spec => []IInv
  <1>1. IInv /\ [Next]_vars => IInv'
    <2>. SUFFICES ASSUME IInv, [Next]_vars PROVE IInv'
      BY Zenon
    <2>1. CASE Next
      <3>1. /\ TypeOK /\ CallInv /\ StepInv /\ EnvInv /\ TxInv /\ WireInv
            /\ AnswerInv /\ UserInv /\ ResetInv /\ OwnerInv
            /\ TxWritesInTx /\ CommitIsTrue /\ NoInheritedTx
        BY Zenon DEF IInv
      <3>2. Flags' /\ Shapes' /\ CallInv' /\ StepInv' /\ EnvInv'
        BY <2>1, <3>1, FlagsStep, ShapesStep, CallStep, StepStep, EnvStep, Zenon
      <3>3. TxInv' /\ WireInv' /\ AnswerInv' /\ CommitIsTrue'
        BY <2>1, <3>1, TxStep, WireStep, AnswerStep, CommitIsTrueStep, Zenon
      <3>4. UserInv' /\ ResetInv' /\ OwnerInv'
        BY <2>1, <3>1, UserStep, ResetStep, OwnerStep, Zenon
      <3>5. TxWritesInTx' /\ NoInheritedTx'
        BY <2>1, <3>1, TxWritesStep, InheritStep, Zenon
      <3>. QED
        BY <3>2, <3>3, <3>4, <3>5, Zenon DEF IInv, TypeOK
    <2>2. CASE UNCHANGED vars
      BY <2>2, StutterIInv, Zenon
    <2>. QED
      BY <2>1, <2>2, Zenon
  <1>. QED
    BY <1>1, InitIInv, PTL DEF Spec

\* Every variable keeps its type (all of the connection's steps).
THEOREM TypeCorrect == Spec => []TypeOK
  <1>1. IInv => TypeOK
    BY Zenon DEF IInv
  <1>. QED  BY <1>1, InductiveInvariant, PTL

\* What is done through a Tx is done in its transaction or refused
\* (checkServerAbortedTransaction and the transaction header); on a connection
\* that is behind, in some transaction.
THEOREM WritesStayInTx == Spec => []TxWritesInTx
  <1>1. IInv => TxWritesInTx
    BY Zenon DEF IInv
  <1>. QED  BY <1>1, InductiveInvariant, PTL

\* Commit returns no error only when the server has committed (Commit and
\* processSingleResponse's DONE errors), unless an earlier call has left a
\* message for it to read.
THEOREM CommitSound == Spec => []CommitIsTrue
  <1>1. IInv => CommitIsTrue
    BY Zenon DEF IInv
  <1>. QED  BY <1>1, InductiveInvariant, PTL

\* No user's request runs in a transaction another user left open
\* (ResetSession and the RESETCONNECTION bit).
THEOREM Isolation == Spec => []NoInheritedTx
  <1>1. IInv => NoInheritedTx
    BY Zenon DEF IInv
  <1>. QED  BY <1>1, InductiveInvariant, PTL

\* With nothing in flight tranid is the server's (processEnvChg), unless part
\* of a reply was never read.
THEOREM TranidFollows == Spec => []TranidInStep
  <1>1. IInv => TranidInStep
    <2>. SUFFICES ASSUME IInv, good, wire = <<>>, replies = <<>>, ~behind
                  PROVE  tranid = srvTx
      BY Zenon DEF TranidInStep
    <2>1. Len(replies) = 0
      BY EmptySeq, Zenon
    <2>. QED  BY <2>1 DEF IInv, EnvInv
  <1>. QED  BY <1>1, InductiveInvariant, PTL

\* A batch runs in a session reset for its user, unless the user's reset was
\* used up without a request (ResetSession, sendQuery).
THEOREM ResetBeforeRun == Spec => RunsAfterReset
  <1>. DEFINE A == ran' # ran =>
                     resetFor' = Head(wire).user \/ Head(wire).user \in spoiled
  <1>1. IInv /\ [Next]_vars => [A]_vars
    <2>. SUFFICES ASSUME IInv, Next, ran' # ran
                  PROVE  resetFor' = Head(wire).user \/ Head(wire).user \in spoiled
      BY Zenon
    <2>1. TypeOK /\ CallInv /\ ResetInv
      BY Zenon DEF IInv
    <2>2. PICK q \in Request, env \in Envs, err \in BOOLEAN : Served1(q, env, err)
      BY <2>1, RanStep, Zenon
    <2>3. q = wire[1] /\ 1 \in 1..Len(wire) /\ Head(wire) = q
      BY <2>1, <2>2, ServeQueue, QueueTypes, TailEntries, Zenon DEF Taken
    <2>4. resetFor' = IF q.reset THEN q.user ELSE resetFor
      BY <2>2, Zenon DEF Served1, Serving
    <2>. QED
      BY <2>1, <2>3, <2>4, Zenon DEF ResetInv
  <1>. QED
    BY <1>1, InductiveInvariant, PTL DEF Spec, RunsAfterReset

-----------------------------------------------------------------------------
(* Rollback.                                                                *)

\* In step, Commit's request is on the wire only as long as Commit runs, and
\* no Commit has committed the Tx of any other call.
OpenInv ==
    /\ \A i \in 1..Len(wire) :
          good /\ ~behind /\ wire[i].kind = "commit" => call = "commit"
    /\ good /\ ~behind /\ tx # 0 /\ call # "commit" => tx \notin committed
    /\ good /\ ~behind => tx <= Len(begun)
    /\ srvTx \notin committed
    /\ \A t \in committed : t <= Len(begun)

\* RollbackIsTrue, and the transaction is an old one.
UndoneInv ==
    last.kind = "rollback" /\ ~behind =>
        /\ last.tx # 0 /\ last.tx <= Len(begun)
        /\ last.tx \notin committed /\ last.tx # srvTx

\* What a step of the server commits.
LEMMA ServeCommits ==
    ASSUME TypeOK, NEW q \in Request, NEW env \in Envs,
           NEW err \in BOOLEAN, Served1(q, env, err)
    PROVE  \/ committed' = committed
           \/ /\ q.kind = "commit"
              /\ committed' = committed \cup {srvTx} /\ srvTx' = 0
  <1>1. CASE Committing(q, env)
    <2>1. AfterReset(q) = srvTx
      BY <1>1, Zenon DEF Committing, AfterReset
    <2>2. srvTx' = 0
      BY <1>1 DEF Committing, Served1, Serving, NoEnv
    <2>3. CASE q.kind = "commit"
      BY <1>1, <2>1, <2>2, <2>3, Zenon DEF Committing
    <2>4. CASE q.kind # "commit"
      BY <1>1, <2>4, Zenon DEF Committing
    <2>. QED  BY <2>3, <2>4, Zenon
  <1>. QED
    BY <1>1, Zenon DEF Served1, Quiet, Beginning, Batch

\* Only Commit commits.
LEMMA OpenStep ==
    ASSUME TypeOK, CallInv, StepInv, EnvInv, TxInv, OwnerInv, OpenInv, Next
    PROVE  OpenInv'
  <1>. USE DEF OpenInv
  <1>0. /\ Sizes /\ Entries /\ srvTx \in Nat /\ tx \in Nat /\ Len(begun) \in Nat
        /\ Len(begun') \in Nat
    <2>1. Sizes /\ Entries
      BY QueueTypes, Zenon
    <2>2. srvTx \in Nat /\ tx \in Nat /\ Len(begun) \in Nat
      BY LenProperties DEF TypeOK, Shapes
    <2>3. Len(begun') \in Nat
      BY ShapesStep, LenProperties, Zenon DEF Shapes
    <2>. QED  BY <2>1, <2>2, <2>3, Zenon
  <1>n. ASSUME ~good' \/ behind', UNCHANGED <<srvTx, begun, committed>>
        PROVE  OpenInv'
    BY <1>n, Zenon
  <1>s. ASSUME UNCHANGED <<wire, srvTx, begun, committed>>,
               good' /\ ~behind' => /\ good /\ ~behind /\ tx' \in {0, tx}
                                    /\ call' = call \/ call # "commit"
        PROVE  OpenInv'
    <2>1. CASE good' /\ ~behind'
      <3>1. tx' <= Len(begun)
        BY <1>0, <1>s, <2>1
      <3>. QED  BY <1>s, <2>1, <3>1, Zenon
    <2>. QED  BY <1>n, <1>s, <2>1, Zenon
  <1>w. ASSUME NEW k \in Kinds, NEW u \in 1..MaxUsers, NEW r \in BOOLEAN,
               Write(k, u, r), call = NoCall
        PROVE  OpenInv'
    <2>1. UNCHANGED <<good, behind, tx, srvTx, begun, committed>> /\ call' = k
      BY <1>w, Zenon DEF Write, readVars, serverVars
    <2>2. PICK q \in Request : Added(q, k, u, r)
      <3>. HIDE DEF OpenInv
      <3>. QED  BY <1>w, WriteQueue, Zenon
    <2>3. ASSUME NEW i \in 1..Len(wire'), good, ~behind, wire'[i].kind = "commit"
          PROVE  k = "commit"
      <3>1. i \in 1..Len(wire) \/ i = Len(wire) + 1
        BY <2>2, Zenon DEF Added
      <3>. QED  BY <1>w, <2>2, <2>3, <3>1, Zenon DEF Added, NoCall
    <2>. QED  BY <1>w, <2>1, <2>3, Zenon DEF NoCall
  <1>1. ASSUME NEW k \in Kinds, Sending(k)
        PROVE  OpenInv'
    <2>1. /\ user \in 1..MaxUsers /\ reset \in BOOLEAN /\ Write(k, user, reset)
          /\ call = NoCall
      BY <1>1 DEF Sending, Idle, CallInv, TypeOK, Flags, Shapes
    <2>. HIDE DEF OpenInv
    <2>. QED  BY <1>w, <2>1, Zenon
  <1>2. ASSUME NEW k \in Kinds, NEW r \in Outcomes, Returning(k, r)
        PROVE  OpenInv'
    <2>1. /\ UNCHANGED <<wire, behind, srvTx, begun, committed>> /\ good
          /\ tx' \in {0, tx} /\ call # "commit"
      BY <1>2, Zenon DEF Returning, Return, serverVars, NoCall
    <2>. QED  BY <1>s, <2>1, Zenon
  <1>3. CASE Fail
    BY <1>3, <1>n, Zenon DEF Fail, serverVars
  <1>4. CASE ProcessEnvChg
    BY <1>4, <1>s, Zenon DEF ProcessEnvChg, poolVars, callVars, serverVars
  <1>5. CASE Drained
    BY <1>5, <1>s, Zenon DEF Drained, TakenOff, serverVars
  <1>6. ASSUME NEW r \in Outcomes, Ended(r)
        PROVE  OpenInv'
    <2>1. /\ UNCHANGED <<wire, behind, srvTx, begun, committed, tranid>> /\ good
          /\ call # NoCall /\ ~busy /\ Return(call, r) /\ call' = NoCall
          /\ replies # <<>> /\ replies' = Tail(replies) /\ Head(replies).env = NoEnv
      <3>. HIDE DEF OpenInv
      <3>. QED  BY <1>6, Zenon
                DEF Ended, TakenOff, Reads, Return, serverVars, CallInv
    <2>. SUFFICES ASSUME ~behind
                  PROVE  OpenInv'
      BY <1>n, <2>1, Zenon
    <2>3. Len(replies) = 1 /\ replies[1].env = NoEnv /\ Len(wire) = 0
      <3>1. 1 \in 1..Len(replies) /\ replies[1].env = NoEnv
        BY <2>1, EndQueue, Zenon
      <3>2. Len(wire) + Len(replies) = 1
        BY <2>1, Zenon DEF StepInv, Readers
      <3>a. \A n, m \in Nat : n + m = 1 /\ 1 \in 1..m => m = 1 /\ n = 0
        OBVIOUS
      <3>. QED  BY <1>0, <3>1, <3>2, <3>a, Zenon DEF Sizes
    <2>4. tranid = srvTx
      BY <1>0, <2>1, <2>3 DEF EnvInv, NoEnv
    <2>5. CASE call \in {"commit", "rollback"}
      <3>1. tx' = 0
        BY <2>1, <2>5, Zenon DEF Return
      <3>. QED  BY <1>0, <2>1, <2>3, <3>1
    <2>6. CASE call = "begin" /\ r = "ok"
      <3>1. tx' = srvTx
        BY <2>1, <2>4, <2>6, Zenon DEF Return
      <3>. QED  BY <2>1, <2>3, <3>1 DEF OwnerInv
    <2>7. CASE call \notin {"commit", "rollback"} /\ ~(call = "begin" /\ r = "ok")
      <3>1. tx' = tx
        BY <2>1, <2>7, Zenon DEF Return
      <3>. QED  BY <1>s, <2>1, <2>7, <3>1, Zenon
    <2>. QED  BY <2>5, <2>6, <2>7, Zenon
  <1>a. CASE Losing
    BY <1>a, <1>n, Zenon DEF Losing, serverVars
  <1>b. CASE Confirming
    BY <1>b, <1>n, Zenon DEF Confirming, serverVars
  <1>7. ASSUME NEW q \in Request, NEW env \in Envs, NEW err \in BOOLEAN,
               Served1(q, env, err)
        PROVE  OpenInv'
    <2>q. Taken(q) /\ Answered(q, env, err)
      BY <1>7, ServeQueue, Zenon
    <2>1. UNCHANGED <<good, behind, tx, call>>
      BY <1>7, Zenon DEF Served1, Serving, connVars, poolVars, callVars
    <2>2. good /\ ~behind /\ call # "commit" => q.kind # "commit"
      BY <2>q, Zenon DEF Taken
    <2>3. \A i \in 1..Len(wire') :
             good /\ ~behind /\ wire'[i].kind = "commit" => call = "commit"
      BY <2>q, Zenon DEF Taken
    <2>4. Len(begun') >= Len(begun)
      BY <1>7, ServeTransactions, Zenon
    <2>5. /\ \A t \in committed' : t \in Nat \ {0} /\ t <= Len(begun)
      <3>1. committed' \subseteq committed \cup {srvTx}
        BY <1>7, ServeCommits, Zenon
      <3>2. committed' \subseteq TxId /\ \A t \in TxId : t \in Nat \ {0}
        BY ShapesStep DEF Shapes, TxId
      <3>. QED  BY <3>1, <3>2, Zenon DEF OwnerInv
    <2>6. good /\ ~behind /\ tx # 0 /\ call # "commit" => tx \notin committed'
      BY <1>7, <2>2, ServeCommits, Zenon
    <2>7. srvTx' \notin committed'
      <3>1. CASE srvTx' = 0
        BY <2>5, <3>1, Zenon
      <3>2. CASE srvTx' = srvTx /\ srvTx' # 0
        BY <1>7, <3>2, ServeCommits, Zenon
      <3>3. CASE srvTx' = Len(begun) + 1
        BY <1>0, <2>5, <3>3
      <3>. QED  BY <1>7, <3>1, <3>2, <3>3, ServeTransactions, Zenon
    <2>8. /\ good /\ ~behind => tx <= Len(begun')
          /\ \A t \in committed' : t <= Len(begun')
      BY <1>0, <2>4, <2>5
    <2>. QED  BY <2>1, <2>3, <2>6, <2>7, <2>8, Zenon
  <1>8. CASE Grab
    <2>1. call = NoCall /\ "init" \in Kinds /\ TRUE \in BOOLEAN
          /\ user + 1 \in 1..MaxUsers
      BY <1>8 DEF Grab, CallInv, TypeOK, Shapes, Kinds
    <2>2. CASE UNCHANGED <<good, behind, tx, call, wire, srvTx, begun, committed>>
      BY <1>s, <2>2, Zenon
    <2>3. CASE Write("init", user + 1, TRUE)
      <3>. HIDE DEF OpenInv
      <3>. QED  BY <1>w, <2>1, <2>3, Zenon
    <2>. QED  BY <1>8, <2>2, <2>3, Zenon DEF Grab, callVars, readVars, serverVars
  <1>9. CASE Release
    BY <1>9, <1>s, Zenon DEF Release, connVars, callVars, readVars, serverVars
  <1>. QED
    BY <1>1, <1>2, <1>3, <1>4, <1>5, <1>6, <1>7, <1>8, <1>9, <1>a, <1>b, NextCases,
       Zenon

\* A Rollback that succeeds has undone the transaction, for good.
LEMMA UndoneStep ==
    ASSUME TypeOK, CallInv, StepInv, EnvInv, TxInv, AnswerInv, OwnerInv, OpenInv,
           UndoneInv, Next
    PROVE  UndoneInv'
  <1>. USE DEF UndoneInv
  <1>0. /\ srvTx \in Nat /\ Len(begun) \in Nat /\ Len(begun') \in Nat
        /\ last.tx \in Nat
    BY ShapesStep, LenProperties DEF TypeOK, Shapes
  <1>s. ASSUME UNCHANGED <<last, behind, srvTx, begun, committed>>
        PROVE  UndoneInv'
    BY <1>s, Zenon
  <1>r. ASSUME NEW k, NEW r, Return(k, r), UNCHANGED <<srvTx, begun, committed>>,
               k = "rollback" /\ r = "ok" /\ ~behind' =>
                  tx \notin committed /\ tx \notin {0, srvTx} /\ tx <= Len(begun)
        PROVE  UndoneInv'
    <2>1. \/ last' = [kind |-> NoCall, tx |-> 0]
          \/ r = "ok" /\ last' = [kind |-> k, tx |-> tx]
      BY <1>r, Zenon DEF Return
    <2>2. CASE last' = [kind |-> NoCall, tx |-> 0]
      BY <2>2 DEF NoCall
    <2>3. CASE r = "ok" /\ last' = [kind |-> k, tx |-> tx]
      <3>1. last'.kind = k /\ last'.tx = tx
        BY <2>3, Zenon
      <3>. QED  BY <1>r, <2>3, <3>1, Zenon
    <2>. QED  BY <2>1, <2>2, <2>3, Zenon
  <1>1. ASSUME NEW k \in Kinds, Sending(k)
        PROVE  UndoneInv'
    BY <1>1, <1>s, Zenon DEF Sending, Write, readVars, serverVars
  <1>2. ASSUME NEW k \in Kinds, NEW r \in Outcomes, Returning(k, r)
        PROVE  UndoneInv'
    <2>0. UNCHANGED <<behind, srvTx, begun, committed>> /\ Return(k, r)
      BY <1>2, Zenon DEF Returning, serverVars
    <2>1. ASSUME k = "rollback", r = "ok", ~behind
          PROVE  tx \notin committed /\ tx \notin {0, srvTx} /\ tx <= Len(begun)
      <3>1. good /\ inTx /\ tranid = 0 /\ call # "commit"
        BY <1>2, <2>1, Zenon DEF Returning, Aborted, NoCall
      <3>2. OpenTx /\ tx # 0
        BY <2>1, <3>1, Zenon DEF TxInv, OpenTx
      <3>3. srvTx = 0
        BY <1>0, <2>1, <3>1, <3>2 DEF EnvInv, OpenTx, NoEnv
      <3>. QED  BY <2>1, <3>1, <3>2, <3>3, Zenon DEF OpenInv
    <2>. QED  BY <1>r, <2>0, <2>1, Zenon
  <1>3. CASE Fail
    BY <1>3, <1>r, Zenon DEF Fail, serverVars
  <1>4. ASSUME NEW r \in Outcomes, Ended(r)
        PROVE  UndoneInv'
    <2>1. /\ replies # <<>> /\ replies' = Tail(replies)
          /\ UNCHANGED <<behind, srvTx, begun, committed>>
          /\ Return(call, r) /\ call # NoCall /\ ~busy /\ (r = "ok" => ~Head(replies).err)
      BY <1>4, Zenon DEF Ended, TakenOff, Reads, serverVars
    <2>2. ASSUME call = "rollback", r = "ok", ~behind
          PROVE  tx \notin committed /\ tx \notin {0, srvTx} /\ tx <= Len(begun)
      <3>1. good /\ inTx /\ Len(wire) + Len(replies) = 1
        BY <2>1, <2>2, Zenon DEF CallInv, StepInv, Readers
      <3>2. Head(replies) = replies[1] /\ 1 \in 1..Len(replies)
        BY <2>1, EndQueue, Zenon
      <3>a. \A n, m \in Nat : n + m = 1 /\ 1 \in 1..m => m = 1 /\ n = 0
        OBVIOUS
      <3>3. Len(replies) = 1 /\ wire = <<>>
        BY <3>1, <3>2, <3>a, QueueTypes, Zenon DEF Sizes
      <3>4. srvTx = 0
        BY <2>1, <2>2, <3>1, <3>2, <3>3, Zenon DEF AnswerInv, Granted
      <3>5. tx # 0
        BY <2>2, <3>1, Zenon DEF TxInv, OpenTx
      <3>. QED  BY <2>2, <3>1, <3>4, <3>5, Zenon DEF OpenInv
    <2>. QED  BY <1>r, <2>1, <2>2, Zenon
  <1>5. ASSUME NEW q \in Request, NEW env \in Envs, NEW err \in BOOLEAN,
               Served1(q, env, err)
        PROVE  UndoneInv'
    <2>1. last' = last /\ behind' = behind
      BY <1>5, Zenon DEF Served1, Serving, callVars
    <2>2. ASSUME last.tx \notin committed, last.tx \notin {0, srvTx},
                 last.tx <= Len(begun)
          PROVE  /\ last.tx \notin committed' /\ last.tx <= Len(begun')
                 /\ last.tx # srvTx'
      <3>1. last.tx \notin committed'
        BY <1>5, <2>2, ServeCommits, Zenon
      <3>s. /\ Len(begun) \in Nat /\ Len(begun') >= Len(begun)
            /\ srvTx' \in {0, srvTx, Len(begun) + 1}
        <4>. HIDE DEF UndoneInv
        <4>. QED  BY <1>5, ServeTransactions, Zenon
      <3>n. Len(begun') \in Nat
        BY <1>0, Zenon
      <3>2. last.tx <= Len(begun')
        BY <1>0, <2>2, <3>s, <3>n
      <3>3. last.tx # srvTx'
        BY <1>0, <2>2, <3>s
      <3>. QED  BY <3>1, <3>2, <3>3, Zenon
    <2>. QED  BY <2>1, <2>2, Zenon
  <1>6. CASE ProcessEnvChg \/ Drained \/ Confirming \/ Grab \/ Release
    BY <1>6, <1>s, Zenon DEF ProcessEnvChg, Drained, TakenOff, Confirming, Grab, Release,
                      Write, callVars, readVars, serverVars
  <1>7. CASE Losing
    BY <1>7, Zenon DEF Losing
  <1>. QED
    BY <1>1, <1>2, <1>3, <1>4, <1>5, <1>6, <1>7, NextCases, Zenon

\* A Rollback that returns no error has undone the transaction, also one that
\* found it aborted and sent nothing (Rollback): no Commit has committed it,
\* unless an earlier call has left a message for it to read.
THEOREM RollbackSound == Spec => []RollbackIsTrue
  <1>. DEFINE Inv == OpenInv /\ UndoneInv
  <1>1. Init => Inv
    <2>. SUFFICES ASSUME Init PROVE Inv
      BY Zenon
    <2>1. Len(<<>>) = 0
      BY EmptySeq, Zenon
    <2>. QED
      BY <2>1 DEF Init, OpenInv, UndoneInv, NoCall
  <1>2. IInv /\ Inv /\ [Next]_vars => Inv'
    <2>. SUFFICES ASSUME IInv, Inv, [Next]_vars PROVE Inv'
      BY Zenon
    <2>1. /\ TypeOK /\ CallInv /\ StepInv /\ EnvInv /\ TxInv /\ AnswerInv /\ OwnerInv
      BY Zenon DEF IInv
    <2>2. CASE Next
      BY <2>1, <2>2, OpenStep, UndoneStep, Zenon
    <2>3. CASE UNCHANGED vars
      BY <2>3, Zenon DEF OpenInv, UndoneInv, vars, connVars, poolVars,
                  callVars, readVars, serverVars
    <2>. QED  BY <2>2, <2>3, Zenon
  <1>3. Inv => RollbackIsTrue
    BY Zenon DEF UndoneInv, RollbackIsTrue
  <1>. HIDE DEF Inv
  <1>. QED
    BY <1>1, <1>2, <1>3, InductiveInvariant, PTL DEF Spec
=============================================================================
