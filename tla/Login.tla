------------------------------- MODULE Login -------------------------------
(***************************************************************************)
(* Opening a connection: Connector.Connect, Driver.connect with its        *)
(* fail-over partner, and connect in tds.go, which dials, negotiates       *)
(* encryption in the PRELOGIN exchange, runs the TLS handshake inside TDS  *)
(* packets, logs in and follows the server's routing to another server.    *)
(*                                                                         *)
(* What a packet is sent through depends on three things that connect      *)
(* replaces on the way: the buffer's transport (the socket or the TLS      *)
(* connection), what the TLS connection writes to (tlsHandshakeConn, which *)
(* wraps its records in PRELOGIN packets, or the socket), and the hook     *)
(* afterFirst that takes the buffer back to the socket after one packet.   *)
(* The order of these replacements and of the flushes is what is modelled. *)
(*                                                                         *)
(* The server and crypto/tls are external.  The server may answer anything *)
(* it can be asked; a handshake is a list of the Write ("w") and Read      *)
(* ("r") calls that crypto/tls makes, and the server answers each flight   *)
(* of writes with one message of as many records as are read next.         *)
(***************************************************************************)
EXTENDS Integers, Sequences, FiniteSets

CONSTANTS
    Hosts,      \* the servers
    Home,       \* the configured server
    Partner,    \* the fail-over partner, when one is configured
    None, Given,\* no value; a value the connection string gives
    Configs,    \* the connection strings
    Scripts,    \* the calls a TLS handshake makes
    MaxHops,    \* bound: routings followed in one connect
    MaxTokens   \* bound: SSPI or token exchanges of one login

Config == [enc : {"strict", "required", "off", "disabled"},
           auth : {"sql", "sspi", "adal"},
           partner : BOOLEAN, spn : BOOLEAN, partnerSpn : BOOLEAN,
           certName : BOOLEAN, inst : BOOLEAN, epa : BOOLEAN, initSQL : BOOLEAN]

ASSUME HostsAssumption ==
    {Home, Partner} \subseteq Hosts /\ {None, Given} \cap Hosts = {} /\ None # Given
ASSUME ConfigsAssumption == Configs \subseteq Config
ASSUME ScriptsAssumption == Scripts \subseteq Seq({"w", "r"})
ASSUME BoundsAssumption == MaxHops \in Nat /\ MaxTokens \in Nat

VARIABLES
    cfg,      \* the connection string and Connector of this connection
    p,        \* connect's copy of the parameters
    attempt,  \* 1: the configured server; 2: the fail-over partner
    hops,     \* routings followed in this attempt
    pc,       \* where connect is
    sock,     \* the number of sockets dialled; the last one is in use
    open,     \* the sockets that are not closed
    transport,\* outbuf.transport: "conn" (the socket) or "tls"
    pass,     \* what the TLS connection writes to: "wrap" or "conn"
    hook,     \* outbuf.afterFirst is set
    agreed,   \* the server's answer on encryption
    cbt,      \* the socket whose TLS connection the channel binding is of
    sent,     \* history: what was sent on this socket, and how
    todo,     \* the calls the TLS handshake still makes
    pending,  \* tlsHandshakeConn.packetPending
    cont,     \* tlsHandshakeConn.continueRead
    inbox,    \* records of the server's handshake message not yet begun
    left,     \* records left of the message being read
    tokens    \* SSPI or token exchanges so far

netVars == <<transport, pass, hook, agreed, sent>>
hsVars == <<todo, pending, cont, inbox, left>>
callVars == <<cfg, p, attempt, hops, pc, sock, open, cbt, tokens>>
vars == <<callVars, netVars, hsVars>>

Answers == {"off", "on", "notsup", "req"}
Hows == {"clear", "tls", "wrapped"}
\* "login": the first packet of LOGIN7.  "more": its other packets.
\* "token": an SSPI message or a federated authentication token.
Credentials == {"login", "more", "token"}
Packets == {"prelogin", "handshake"} \cup Credentials

\* Every variable has its type.
TypeOK ==
    /\ cfg \in Configs
    /\ p \in [host : Hosts, inst : Hosts \cup {None},
              spn : Hosts \cup {None, Given}, tlsName : Hosts \cup {None, Given}]
    /\ attempt \in 1..2 /\ hops \in 0..MaxHops /\ tokens \in 0..MaxTokens
    /\ pc \in {"dial", "strict", "prelogin", "handshake", "login", "loop",
               "conn", "ready", "failed"}
    /\ sock \in Nat /\ open \subseteq 1..sock /\ cbt \in 0..sock
    /\ transport \in {"conn", "tls"} /\ pass \in {"wrap", "conn"}
    /\ hook \in BOOLEAN /\ agreed \in Answers \cup {None}
    /\ sent \subseteq Packets \X Hows
    /\ todo \in Seq({"w", "r"}) /\ pending \in BOOLEAN /\ cont \in BOOLEAN
    /\ inbox \in Nat /\ left \in Nat

\* With encrypt=disable there is no TLSConfig, and a name that the connection
\* string gives for the certificate is not kept.
Params(host, spn) ==
    [host |-> host, spn |-> spn,
     inst |-> IF cfg.inst THEN Home ELSE None,
     tlsName |-> IF cfg.enc = "disabled" THEN None
                 ELSE IF cfg.certName THEN Given ELSE Home]

\* msdsn: the TLS name is the host's unless the connection string gives one.
HomeParams == Params(Home, IF cfg.spn THEN Given ELSE None)

\* failoverPartnerParams: the host, and the SPN if one is given, are replaced
\* in a copy of the parameters; the instance and the TLS name are not.
PartnerParams ==
    Params(Partner, IF cfg.partnerSpn THEN Partner ELSE HomeParams.spn)

\* The name a certificate is checked against: that of the TLSConfig, or that
\* of the configuration connect makes for the host it dials if there is none.
CheckedName == IF p.tlsName = None THEN p.host ELSE p.tlsName

Init ==
    /\ cfg \in Configs
    /\ p = HomeParams
    /\ attempt = 1 /\ hops = 0 /\ pc = "dial"
    /\ sock = 0 /\ open = {} /\ cbt = 0 /\ tokens = 0
    /\ transport = "conn" /\ pass = "conn" /\ hook = FALSE /\ agreed = None
    /\ sent = {}
    /\ todo = <<>> /\ pending = FALSE /\ cont = FALSE /\ inbox = 0 /\ left = 0

-----------------------------------------------------------------------------
(* Sending.                                                                 *)

How(t, via) ==
    IF t = "conn" THEN "clear" ELSE IF via = "wrap" THEN "wrapped" ELSE "tls"

\* tdsBuffer.flush of the one packet of a message.
Flush(what) ==
    /\ sent' = sent \cup {<<what, How(transport, pass)>>}
    /\ transport' = IF hook THEN "conn" ELSE transport
    /\ hook' = FALSE

\* sendLogin: LOGIN7 may take several packets, and the hook runs after the
\* first of them.
FlushLogin(several) ==
    LET after == IF hook THEN "conn" ELSE transport
    IN  /\ sent' = sent \cup {<<"login", How(transport, pass)>>}
             \cup {x \in {<<"more", How(after, pass)>>} : several}
        /\ transport' = after /\ hook' = FALSE

-----------------------------------------------------------------------------
(* The attempts.                                                            *)

\* connect returns an error: Driver.connect tries the partner, once.  Most of
\* connect's error returns leave the socket open.
Fail ==
    /\ cbt' = 0 /\ tokens' = 0
    /\ IF attempt = 1 /\ cfg.partner
       THEN attempt' = 2 /\ hops' = 0 /\ p' = PartnerParams /\ pc' = "dial"
       ELSE pc' = "failed" /\ UNCHANGED <<attempt, hops, p>>
    /\ UNCHANGED <<cfg, sock, netVars, hsVars>>

\* Any step of connect fails: dialConnection, a handshake, a write or read,
\* the authenticator, or the context is done while nextToken waits.
StepFails ==
    /\ pc \in {"dial", "strict", "prelogin", "handshake", "login", "loop"}
    /\ Fail
    /\ UNCHANGED open

\* dialConnection succeeds.  tcpDialer fills in an SPN if there is none yet,
\* except for a HostDialer; a new buffer starts on the socket.
Dial(hostDialer) ==
    /\ pc = "dial"
    /\ sock' = sock + 1 /\ open' = open \cup {sock + 1}
    /\ p' = [p EXCEPT !.spn = IF @ = None /\ ~hostDialer THEN p.host ELSE @]
    /\ transport' = "conn" /\ pass' = "conn" /\ hook' = FALSE
    /\ agreed' = None /\ sent' = {} /\ tokens' = 0
    /\ todo' = <<>> /\ pending' = FALSE /\ cont' = FALSE /\ inbox' = 0 /\ left' = 0
    /\ pc' = IF cfg.enc = "strict" THEN "strict" ELSE "prelogin"
    /\ UNCHANGED <<cfg, attempt, hops, cbt>>

\* GenerateCBTFromTLSConnState gives no binding for TLS 1.3.
Binding == cbt' \in IF cfg.epa THEN {0, sock} ELSE {cbt}

\* getTLSConn: with encrypt=strict TLS comes first and TDS runs inside it.
StrictHandshake ==
    /\ pc = "strict"
    /\ transport' = "tls" /\ pass' = "conn"
    /\ Binding
    /\ pc' = "prelogin"
    /\ UNCHANGED <<cfg, p, attempt, hops, sock, open, tokens, hook, agreed, sent, hsVars>>

\* Mutant of Acceptable: a server that answers ENCRYPT_OFF is accepted.
AcceptableIfSupported(a) == ~(cfg.enc = "required" /\ a = "notsup")

\* interpretPreloginResponse.
Acceptable(a) == ~(cfg.enc = "required" /\ a \in {"notsup", "off"})

\* writePrelogin, readPrelogin and interpretPreloginResponse, and the setup
\* of the TLS client over tlsHandshakeConn.
Prelogin(a) ==
    /\ pc = "prelogin" /\ Acceptable(a)
    /\ Flush("prelogin")
    /\ agreed' = a
    /\ IF cfg.enc = "strict" \/ a = "notsup"
       THEN pc' = "login" /\ UNCHANGED <<pass, hsVars>>
       ELSE /\ pc' = "handshake" /\ pass' = "wrap" /\ todo' \in Scripts
            /\ UNCHANGED <<pending, cont, inbox, left>>
    /\ UNCHANGED <<cfg, p, attempt, hops, sock, open, cbt, tokens>>

-----------------------------------------------------------------------------
(* The TLS handshake inside PRELOGIN packets (tlsHandshakeConn).            *)

\* The server answers a flight with the records that are read next.
Records(calls) ==
    Cardinality({i \in 1..Len(calls) : \A j \in 1..i : calls[j] = "r"})

\* Write: the packet is begun, or continued.
HandshakeWrite ==
    /\ pc = "handshake" /\ todo # <<>> /\ Head(todo) = "w"
    /\ todo' = Tail(todo) /\ pending' = TRUE
    /\ UNCHANGED <<callVars, netVars, cont, inbox, left>>

\* tlsHandshakeConn.FinishPacket.
FinishPacket ==
    /\ pending' = FALSE
    /\ IF pending THEN Flush("handshake") ELSE UNCHANGED <<sent, transport, hook>>

\* Mutant of HandshakeRead: Read does not send what was written before.
HandshakeReadOnly ==
    /\ pc = "handshake" /\ todo # <<>> /\ Head(todo) = "r"
    /\ IF cont THEN left > 0 /\ left' = left - 1 /\ UNCHANGED inbox
               ELSE inbox > 0 /\ left' = inbox - 1 /\ inbox' = 0
    /\ cont' = TRUE /\ todo' = Tail(todo)
    /\ UNCHANGED <<callVars, netVars, pending>>

\* Read: what was written is sent first, and then a new message is begun, for
\* which the call waits.  Otherwise the message is read on; at its end the
\* call fails with io.EOF.
HandshakeRead ==
    /\ pc = "handshake" /\ todo # <<>> /\ Head(todo) = "r"
    /\ FinishPacket
    /\ LET begin == pending \/ ~cont
           came  == IF pending THEN Records(todo) ELSE inbox
       IN  /\ IF begin THEN came > 0 /\ left' = came - 1 /\ inbox' = 0
                       ELSE left > 0 /\ left' = left - 1 /\ UNCHANGED inbox
           /\ cont' = TRUE
    /\ todo' = Tail(todo)
    /\ UNCHANGED <<callVars, pass, agreed>>

\* Mutant of HandshakeDone: the transport is replaced before the last packet is sent.
HandshakeDoneUnflushed ==
    /\ pc = "handshake" /\ todo = <<>>
    /\ transport' = "tls" /\ pass' = "conn" /\ hook' = (agreed = "off")
    /\ Binding
    /\ pc' = "login"
    /\ UNCHANGED <<cfg, p, attempt, hops, sock, open, tokens, agreed, sent, hsVars>>

\* Mutant of HandshakeDone: the hook is not set.
HandshakeDoneNoHook ==
    /\ pc = "handshake" /\ todo = <<>>
    /\ sent' = IF pending THEN sent \cup {<<"handshake", How(transport, pass)>>} ELSE sent
    /\ pending' = FALSE
    /\ transport' = "tls" /\ pass' = "conn" /\ UNCHANGED hook
    /\ Binding
    /\ pc' = "login"
    /\ UNCHANGED <<cfg, p, attempt, hops, sock, open, tokens, agreed, todo, cont, inbox, left>>

\* Mutant of HandshakeDone: a binding there already is is kept.
HandshakeDoneKeepsBinding ==
    /\ pc = "handshake" /\ todo = <<>>
    /\ sent' = IF pending THEN sent \cup {<<"handshake", How(transport, pass)>>} ELSE sent
    /\ pending' = FALSE
    /\ transport' = "tls" /\ pass' = "conn" /\ hook' = (agreed = "off")
    /\ IF cbt = 0 THEN Binding ELSE UNCHANGED cbt
    /\ pc' = "login"
    /\ UNCHANGED <<cfg, p, attempt, hops, sock, open, tokens, agreed, todo, cont, inbox, left>>

\* Handshake returns; the last flight is flushed, then the TLS connection is
\* put on the socket and the buffer on the TLS connection.
HandshakeDone ==
    /\ pc = "handshake" /\ todo = <<>>
    /\ sent' = IF pending THEN sent \cup {<<"handshake", How(transport, pass)>>} ELSE sent
    /\ pending' = FALSE
    /\ transport' = "tls" /\ pass' = "conn" /\ hook' = (agreed = "off")
    /\ Binding
    /\ pc' = "login"
    /\ UNCHANGED <<cfg, p, attempt, hops, sock, open, tokens, agreed, todo, cont, inbox, left>>

-----------------------------------------------------------------------------
(* The login.                                                               *)

\* The authenticator, prepareLogin and sendLogin.
SendLogin(several) ==
    /\ pc = "login" /\ pc' = "loop"
    /\ FlushLogin(several)
    /\ UNCHANGED <<cfg, p, attempt, hops, sock, open, cbt, tokens, pass, agreed, hsVars>>

\* The server asks for more: an sspiMsg, answered with NextBytes if there are
\* any, or a fedAuthInfoStruct, answered with the provider's token.
SendToken ==
    /\ pc = "loop" /\ cfg.auth # "sql" /\ tokens < MaxTokens
    /\ tokens' = tokens + 1
    /\ Flush("token")
    /\ UNCHANGED <<cfg, p, attempt, hops, pc, sock, open, cbt, pass, agreed, hsVars>>

\* A DONE with an error: the login is refused.
Refused ==
    /\ pc = "loop"
    /\ Fail
    /\ open' = open \ {sock}

\* loginAckStruct, and no routing.
Accepted ==
    /\ pc = "loop" /\ pc' = "conn"
    /\ UNCHANGED <<cfg, p, attempt, hops, sock, open, cbt, tokens, netVars, hsVars>>

\* Mutant of Routed: the socket of the server that routes the client away
\* stays open.
RoutedUnclosed(h, inst) ==
    /\ pc = "loop" /\ hops < MaxHops /\ pc' = "dial"
    /\ hops' = hops + 1
    /\ p' = [p EXCEPT !.host = h, !.inst = IF inst THEN h ELSE @,
                      !.tlsName = IF cfg.certName \/ @ = None THEN @ ELSE h]
    /\ UNCHANGED <<cfg, attempt, sock, open, cbt, tokens, netVars, hsVars>>

\* Mutant of Routed: the certificate is still checked against the first
\* server's name.
RoutedOldName(h, inst) ==
    /\ pc = "loop" /\ hops < MaxHops /\ pc' = "dial"
    /\ hops' = hops + 1 /\ open' = open \ {sock}
    /\ p' = [p EXCEPT !.host = h, !.inst = IF inst THEN h ELSE @]
    /\ UNCHANGED <<cfg, attempt, sock, cbt, tokens, netVars, hsVars>>

\* loginAckStruct after an ENVCHANGE with another server, which may name an
\* instance.  The SPN, the instance if none is named, and the binding stay.
Routed(h, inst) ==
    /\ pc = "loop" /\ hops < MaxHops /\ pc' = "dial"
    /\ hops' = hops + 1 /\ open' = open \ {sock}
    /\ p' = [p EXCEPT !.host = h, !.inst = IF inst THEN h ELSE @,
                      !.tlsName = IF cfg.certName \/ @ = None THEN @ ELSE h]
    /\ UNCHANGED <<cfg, attempt, sock, cbt, tokens, netVars, hsVars>>

\* Connector.Connect: ResetSession runs SessionInitSQL; if that fails Connect
\* returns the open connection with the error, and nobody closes it.
ResetSession ==
    /\ pc = "conn"
    /\ pc' \in IF cfg.initSQL THEN {"ready", "failed"} ELSE {"ready"}
    /\ UNCHANGED <<cfg, p, attempt, hops, sock, open, cbt, tokens, netVars, hsVars>>

Progress ==
    \/ StrictHandshake
    \/ \E b \in BOOLEAN : Dial(b) \/ SendLogin(b)
    \/ \E a \in Answers : Prelogin(a)
    \/ HandshakeWrite \/ HandshakeRead \/ HandshakeDone
    \/ SendToken \/ Refused \/ Accepted
    \/ \E h \in Hosts, inst \in BOOLEAN : Routed(h, inst)
    \/ ResetSession

Next == StepFails \/ Progress

Spec == Init /\ [][Next]_vars

\* connect goes on, and the server answers what it is sent; nothing says that
\* a step that waits for ever will fail.
FairSpec == Spec /\ WF_vars(Progress)

-----------------------------------------------------------------------------
(* Properties.                                                              *)

SentAs(kinds, how) == \A k \in kinds, x \in Hows : <<k, x>> \in sent => x = how

\* With encrypt=true or strict, to the configured server, to the partner and
\* to every server the client is routed to, no packet of the login goes out
\* unencrypted, and the connection that is handed over is encrypted
\* (interpretPreloginResponse, connect).
RequiredIsEncrypted ==
    cfg.enc \in {"required", "strict"} =>
        /\ SentAs(Credentials, "tls")
        /\ pc \in {"loop", "conn", "ready"} => transport = "tls"

\* From the first login packet on client and server agree on what is
\* encrypted: all of it, or with ENCRYPT_OFF the first packet only, or
\* nothing when the server has no encryption (afterFirst).
ModeAgreed ==
    LET all == cfg.enc = "strict" \/ agreed \in {"on", "req"}
    IN  /\ SentAs({"login"}, IF all \/ agreed = "off" THEN "tls" ELSE "clear")
        /\ SentAs({"more", "token"}, IF all THEN "tls" ELSE "clear")
        /\ pc \in {"loop", "conn", "ready"} => transport = IF all THEN "tls" ELSE "conn"

\* Every flight of the TLS handshake reaches the server in the clear, wrapped
\* in PRELOGIN packets: nothing of it is in the buffer any more when the
\* transport is replaced ("flush any pending packet from the handshake").
HandshakeInClear ==
    /\ SentAs({"handshake"}, "clear")
    /\ pc \in {"login", "loop"} => ~pending

\* An attempt never has more than the socket it is using: a server that
\* routes the client away or refuses the login is hung up on.  A failed
\* attempt leaves at most one socket behind.
OneSocketPerAttempt ==
    /\ \A s, t \in open : s # t => attempt = 2
    /\ \A s, t, u \in open : s = t \/ t = u \/ s = u
    /\ pc \in {"conn", "ready"} => sock \in open

\* The certificate is checked against the name of the server that is dialled,
\* wherever routing leads and although connect jumps back to its dial with the
\* variables of the earlier round.  Otherwise it is checked against the name
\* the connection string gives for it, or, for a partner that is dialled
\* directly, against the configured host; but not with encrypt=disable, where
\* a server that asks for TLS is always checked against its own name.
TlsNameFollowsRouting ==
    CheckedName = IF cfg.enc = "disabled" THEN p.host
                  ELSE IF cfg.certName THEN Given
                  ELSE IF attempt = 2 /\ hops = 0 THEN Home ELSE p.host

\* An authentication over TLS is bound to the TLS connection it goes over and
\* not to that of a server that routed the client on, or is not bound at all
\* (connect keeps cbt when it jumps back to its dial).  It says nothing of a
\* server without TLS: that one is logged in to with the binding to the
\* server before it.
BindingOverTls ==
    pc = "login" /\ transport = "tls" => cbt \in {0, sock}

\* If the server answers, connect returns: the handshake never waits for an
\* answer to a flight that it has not sent.
Returns == <>(pc \in {"ready", "failed"})
=============================================================================
