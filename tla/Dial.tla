-------------------------------- MODULE Dial --------------------------------
(***************************************************************************)
(* tcpDialer.DialSqlConnection: a host name that stands for several        *)
(* addresses is dialled one address after the other or, with               *)
(* MultiSubnetFailover, all at once, one goroutine each.  The caller takes *)
(* the first connection from connChan and leaves a closer behind, a        *)
(* goroutine that collects what the other dials still put in the two       *)
(* channels.  Nothing but the closer's count tells it when it is done.     *)
(*                                                                         *)
(* Each channel has room for every address, so no dial ever waits to send. *)
(* at[ip] says where the dial of ip, and then its connection, is.          *)
(***************************************************************************)
EXTENDS Integers, FiniteSets

CONSTANT Ips \* the addresses of the host

ASSUME IpsAssumption == IsFiniteSet(Ips) /\ Ips # {}

VARIABLES
    pc,     \* the caller: "start", "try" (in turn), "wait" (for all), "done"
    at,     \* where the dial of each address is
    i,      \* the loop variable of wait_loop
    err,    \* the caller's err is not nil
    result, \* what the caller returned: "none" yet, "conn" or "err"
    n       \* what the closer has still to collect

vars == <<pc, at, i, err, result, n>>

N == Cardinality(Ips)

\* "new": not dialled.  "dial": DialContext runs.  "conn", "err": its outcome
\* is in connChan or errChan.  "won": the caller has the connection.  "seen":
\* the error was received.  "closed": the closer closed the connection.
Places == {"new", "dial", "conn", "err", "won", "seen", "closed"}

In(S) == {ip \in Ips : at[ip] \in S}

Pending == In({"dial", "conn", "err"})

\* Every variable has its type.
TypeOK ==
    /\ pc \in {"start", "try", "wait", "done"}
    /\ at \in [Ips -> Places]
    /\ i \in 0..N /\ n \in 0..N
    /\ err \in BOOLEAN /\ result \in {"none", "conn", "err"}

Init ==
    /\ pc = "start" /\ at = [ip \in Ips |-> "new"] /\ i = 0 /\ n = 0
    /\ err = FALSE /\ result = "none"

\* The lookup fails, or a HostDialer is handed the name: it dials nothing here.
NoAddress ==
    /\ pc = "start" /\ pc' = "done"
    /\ result' \in {"conn", "err"} /\ err' = (result' = "err")
    /\ UNCHANGED <<at, i, n>>

\* Without MultiSubnetFailover, or with one address only.
StartInTurn ==
    /\ pc = "start" /\ pc' = "try"
    /\ UNCHANGED <<at, i, err, result, n>>

StartAll ==
    /\ pc = "start" /\ N > 1
    /\ pc' = "wait" /\ at' = [ip \in Ips |-> "dial"]
    /\ UNCHANGED <<i, err, result, n>>

\* The addresses in turn, until one answers.
Try(ip) ==
    /\ pc = "try" /\ at[ip] = "new"
    /\ \/ /\ at' = [at EXCEPT ![ip] = "won"]
          /\ err' = FALSE /\ result' = "conn" /\ pc' = "done"
       \/ /\ at' = [at EXCEPT ![ip] = "seen"]
          /\ err' = TRUE
          /\ IF In({"new"}) = {ip} THEN result' = "err" /\ pc' = "done"
                                   ELSE UNCHANGED <<result, pc>>
    /\ UNCHANGED <<i, n>>

\* A goroutine's DialContext returns, and it sends on a channel.
Dialled(ip) ==
    /\ at[ip] = "dial"
    /\ \E r \in {"conn", "err"} : at' = [at EXCEPT ![ip] = r]
    /\ UNCHANGED <<pc, i, err, result, n>>

\* Mutant: the error of an earlier dial is kept.
TakeConnKeepingErr(ip) ==
    /\ pc = "wait" /\ at[ip] = "conn"
    /\ at' = [at EXCEPT ![ip] = "won"]
    /\ n' = N - i - 1
    /\ result' = "conn" /\ pc' = "done"
    /\ UNCHANGED <<err, i>>

\* Mutant: no closer is left behind.
TakeConnAlone(ip) ==
    /\ pc = "wait" /\ at[ip] = "conn"
    /\ at' = [at EXCEPT ![ip] = "won"]
    /\ n' = 0
    /\ err' = FALSE /\ result' = "conn" /\ pc' = "done"
    /\ UNCHANGED i

\* The first connection: the closer is started for the outcomes not received.
TakeConn(ip) ==
    /\ pc = "wait" /\ at[ip] = "conn"
    /\ at' = [at EXCEPT ![ip] = "won"]
    /\ n' = N - i - 1
    /\ err' = FALSE /\ result' = "conn" /\ pc' = "done"
    /\ UNCHANGED i

\* An error; the last one is returned.
TakeErr(ip) ==
    /\ pc = "wait" /\ at[ip] = "err"
    /\ at' = [at EXCEPT ![ip] = "seen"]
    /\ i' = i + 1 /\ err' = TRUE
    /\ IF i + 1 = N THEN result' = "err" /\ pc' = "done"
                    ELSE UNCHANGED <<result, pc>>
    /\ UNCHANGED n

\* The closer receives from either channel.
Close(ip) ==
    /\ n > 0 /\ n' = n - 1
    /\ \/ at[ip] = "conn" /\ at' = [at EXCEPT ![ip] = "closed"]
       \/ at[ip] = "err" /\ at' = [at EXCEPT ![ip] = "seen"]
    /\ UNCHANGED <<pc, i, err, result>>

Caller(ip) == Try(ip) \/ TakeConn(ip) \/ TakeErr(ip)

Next ==
    \/ NoAddress \/ StartInTurn \/ StartAll
    \/ \E ip \in Ips : Caller(ip) \/ Dialled(ip) \/ Close(ip)

Spec == Init /\ [][Next]_vars

\* Every goroutine runs; a DialContext ends, at the latest with its timeout.
FairSpec ==
    /\ Spec
    /\ WF_vars(\E ip \in Ips : Caller(ip)) /\ WF_vars(\E ip \in Ips : Close(ip))
    /\ \A ip \in Ips : WF_vars(Dialled(ip))

-----------------------------------------------------------------------------
(* Properties.                                                              *)

\* The closer stops exactly when nothing is left to collect: it neither
\* leaves a connection open in connChan nor waits for an outcome that never
\* comes (the count len(ips) - i - 1).
CloserCounts == pc = "done" => n = Cardinality(Pending)

\* The caller fails only when every address has failed.  When it succeeds it
\* has one connection, and reports no error of an address that failed before.
OutcomeIsTrue ==
    /\ result = "conn" => ~err /\ Cardinality(In({"won"})) <= 1
    /\ result = "err" /\ In({"new"}) # Ips => err /\ In({"seen"}) = Ips

\* Every connection that any dial opens is in the end the caller's or closed,
\* and every goroutine ends.
NoneLeftOpen == [](pc # "start" => <>[](pc = "done" /\ Pending = {} /\ n = 0))
=============================================================================
