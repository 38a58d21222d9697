------------------------------ MODULE Exchange ------------------------------
(***************************************************************************)
(* What a connection promises to database/sql, without tokens, readers,    *)
(* channels or attentions: calls come one at a time, a call sends one      *)
(* request, and the server's input for the requests is read to its end in  *)
(* the order of the requests.  Module Session implements it.               *)
(*                                                                         *)
(* A connection gets worse and never better: from "sound" to "adrift", a   *)
(* connection that lost track of its input and still counts as good, or to *)
(* "bad", a connection that the driver reports as bad.  The input is only  *)
(* accounted for while the connection is sound.                            *)
(***************************************************************************)
EXTENDS Integers

CONSTANT MaxReq  \* bound: requests sent on the connection

VARIABLES
    n,       \* requests sent; the number of the current one
    state,   \* "idle" between calls, "busy", or "gone"
    health,  \* "sound", "adrift" or "bad"
    result,  \* what the last call returned
    unread   \* the requests for which the server's input is not read to its end

vars == <<n, state, health, result, unread>>

Worse(h) == IF h = "sound" THEN {"adrift", "bad"}
            ELSE IF h = "adrift" THEN {"bad"} ELSE {}

Init ==
    /\ n = 0 /\ state = "idle" /\ health = "sound"
    /\ result = "none" /\ unread = {}

\* A call sends its request, or fails to and the connection is bad.
Call ==
    /\ state = "idle" /\ health # "bad" /\ n < MaxReq
    /\ n' = n + 1
    /\ \/ /\ state' = "busy" /\ result' = "none"
          /\ unread' = unread \cup {x \in {n + 1} : health = "sound"}
          /\ UNCHANGED health
       \/ /\ health' = "bad" /\ result' = "err" /\ unread' = {}
          /\ UNCHANGED state

\* A call asks the server to stop, which the server has to confirm.
AskToStop ==
    /\ state = "busy" /\ health = "sound"
    /\ unread' = unread \cup {n}
    /\ UNCHANGED <<n, state, health, result>>

\* The input for the oldest request is read to its end, in a call or later.
Receive ==
    /\ \E m \in unread : /\ \A k \in unread : m <= k
                         /\ unread' = unread \ {m}
    /\ UNCHANGED <<n, state, health, result>>

\* A call returns.  If the connection is still sound, then success means that
\* everything was read, and a failed call leaves its own reply at most.
Return ==
    /\ state = "busy" /\ state' = "idle"
    /\ result' \in {"ok", "err"}
    /\ \/ /\ unread = {} \/ (result' = "err" /\ unread = {n})
          /\ UNCHANGED <<health, unread>>
       \/ health' \in Worse(health) /\ unread' = {}
    /\ UNCHANGED n

\* Something goes wrong on the connection.
Worsen ==
    /\ health' \in Worse(health) /\ unread' = {}
    /\ UNCHANGED <<n, state, result>>

\* The pool drops the connection.
Drop ==
    /\ state = "idle" /\ state' = "gone"
    /\ UNCHANGED <<n, health, result, unread>>

Next == Call \/ AskToStop \/ Receive \/ Return \/ Worsen \/ Drop

Spec == Init /\ [][Next]_vars
=============================================================================
