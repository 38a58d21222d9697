---------------------------- MODULE LoginProofs ----------------------------
(***************************************************************************)
(* Proofs about module Login, for every set of servers and of connection   *)
(* strings, every shape of a TLS handshake and every number of routings.   *)
(***************************************************************************)
EXTENDS Login, FiniteSetTheorems, FunctionTheorems, TLAPS

USE HostsAssumption, ConfigsAssumption, ScriptsAssumption, BoundsAssumption

-----------------------------------------------------------------------------
(* Type correctness.                                                        *)

ParamsType == [host : Hosts, inst : Hosts \cup {None},
               spn : Hosts \cup {None, Given}, tlsName : Hosts \cup {None, Given}]

\* The parts of the type invariant: the call, the transport, the handshake.
CallType ==
    /\ cfg \in Configs /\ p \in ParamsType
    /\ attempt \in 1..2 /\ hops \in 0..MaxHops /\ tokens \in 0..MaxTokens
    /\ pc \in {"dial", "strict", "prelogin", "handshake", "login", "loop",
               "conn", "ready", "failed"}
    /\ sock \in Nat /\ open \subseteq 1..sock /\ cbt \in 0..sock

NetType ==
    /\ transport \in {"conn", "tls"} /\ pass \in {"wrap", "conn"}
    /\ hook \in BOOLEAN /\ agreed \in Answers \cup {None}
    /\ sent \subseteq Packets \X Hows

HandshakeType ==
    /\ todo \in Seq({"w", "r"}) /\ pending \in BOOLEAN /\ cont \in BOOLEAN
    /\ inbox \in Nat /\ left \in Nat

\* The parts make the whole.
LEMMA TypeParts == TypeOK <=> CallType /\ NetType /\ HandshakeType
BY Zenon DEF TypeOK, CallType, NetType, HandshakeType, ParamsType

\* The parameters of the configured server and of its partner.
LEMMA ParamsTyped ==
    ASSUME cfg \in Configs
    PROVE  HomeParams \in ParamsType /\ PartnerParams \in ParamsType
<1>1. \A h \in Hosts, s \in Hosts \cup {None, Given} : Params(h, s) \in ParamsType
  BY Zenon DEF Params, ParamsType
<1>2. HomeParams \in ParamsType
  BY <1>1, Zenon DEF HomeParams
<1>3. HomeParams.spn \in Hosts \cup {None, Given}
  BY Zenon DEF HomeParams, Params
<1>4. PartnerParams \in ParamsType
  BY <1>1, <1>3, Zenon DEF PartnerParams
<1> QED  BY <1>2, <1>4, Zenon

\* What a failed attempt does to the call.
LEMMA FailTyped ==
    ASSUME CallType, Fail, open' \subseteq open
    PROVE  CallType'
BY ParamsTyped DEF Fail, CallType, netVars

\* The call keeps its type.
LEMMA CallTyped ==
    ASSUME CallType, [Next]_vars  PROVE CallType'
<1>1. CASE StepFails \/ Refused
  BY <1>1, FailTyped, Zenon DEF StepFails, Refused
<1>2. ASSUME NEW b \in BOOLEAN, Dial(b)  PROVE CallType'
  <2>1. p' \in ParamsType
    BY <1>2, Zenon DEF Dial, CallType, ParamsType
  <2> QED  BY <1>2, <2>1 DEF Dial, CallType
<1>3. ASSUME NEW h \in Hosts, NEW inst \in BOOLEAN, Routed(h, inst)  PROVE CallType'
  <2>1. p' \in ParamsType
    BY <1>3, Zenon DEF Routed, CallType, ParamsType
  <2> QED  BY <1>3, <2>1 DEF Routed, CallType
<1>4. CASE StrictHandshake \/ HandshakeDone
  <2>1. cbt' \in {0, sock, cbt}
    BY <1>4, Zenon DEF StrictHandshake, HandshakeDone, Binding
  <2>2. /\ UNCHANGED <<cfg, p, attempt, hops, sock, open, tokens>>
        /\ pc' \in {"prelogin", "login"}
    BY <1>4, Zenon DEF StrictHandshake, HandshakeDone
  <2> QED  BY <2>1, <2>2 DEF CallType
<1>5. ASSUME NEW a \in Answers, Prelogin(a)  PROVE CallType'
  BY <1>5, Zenon DEF Prelogin, CallType
<1>6. ASSUME NEW b \in BOOLEAN, SendLogin(b)  PROVE CallType'
  BY <1>6, Zenon DEF SendLogin, CallType
<1>7. CASE HandshakeWrite \/ HandshakeRead \/ SendToken \/ Accepted \/ ResetSession
  <2>1. CASE HandshakeWrite \/ HandshakeRead
    BY <2>1, Zenon DEF HandshakeWrite, HandshakeRead, CallType, callVars
  <2>2. CASE SendToken
    BY <2>2 DEF SendToken, CallType
  <2>3. CASE Accepted
    BY <2>3, Zenon DEF Accepted, CallType
  <2>4. CASE ResetSession
    <3>1. pc' \in {"ready", "failed"}
      BY <2>4, Zenon DEF ResetSession
    <3> QED  BY <2>4, <3>1, Zenon DEF ResetSession, CallType
  <2> QED  BY <1>7, <2>1, <2>2, <2>3, <2>4, Zenon
<1>8. CASE UNCHANGED vars
  BY <1>8, Zenon DEF vars, callVars, CallType
<1> QED  BY <1>1, <1>2, <1>3, <1>4, <1>5, <1>6, <1>7, <1>8, Zenon DEF Next, Progress

\* A flush sends a packet and keeps the transport one.
LEMMA FlushTyped ==
    ASSUME NetType, NEW what \in Packets, Flush(what)
    PROVE  /\ sent' \subseteq Packets \X Hows /\ hook' \in BOOLEAN
           /\ transport' \in {"conn", "tls"}
<1>1. How(transport, pass) \in Hows
  BY Zenon DEF How, Hows
<1>2. sent' \subseteq Packets \X Hows
  BY <1>1 DEF Flush, NetType
<1>3. transport' \in {"conn", "tls"}
  BY Zenon DEF Flush, NetType
<1> QED  BY <1>2, <1>3, Zenon DEF Flush

\* The transport keeps its type.
LEMMA NetTyped ==
    ASSUME NetType, [Next]_vars  PROVE NetType'
<1>1. CASE StepFails \/ Refused
  BY <1>1, Zenon DEF StepFails, Refused, Fail, NetType, netVars
<1>2. ASSUME NEW b \in BOOLEAN, Dial(b)  PROVE NetType'
  BY <1>2, Zenon DEF Dial, NetType
<1>3. ASSUME NEW h \in Hosts, NEW inst \in BOOLEAN, Routed(h, inst)  PROVE NetType'
  BY <1>3, Zenon DEF Routed, NetType, netVars
<1>4. CASE StrictHandshake
  BY <1>4, Zenon DEF StrictHandshake, NetType
<1>5. CASE HandshakeDone
  <2>1. sent' \subseteq Packets \X Hows
    <3>1. How(transport, pass) \in Hows
      BY Zenon DEF How, Hows
    <3> QED  BY <1>5, <3>1 DEF HandshakeDone, NetType, Packets
  <2> QED  BY <1>5, <2>1, Zenon DEF HandshakeDone, NetType
<1>6. ASSUME NEW a \in Answers, Prelogin(a)  PROVE NetType'
  <2>1. "prelogin" \in Packets
    BY Zenon DEF Packets
  <2>2. Flush("prelogin") /\ agreed' = a /\ (pass' = "wrap" \/ UNCHANGED pass)
    BY <1>6, Zenon DEF Prelogin
  <2> QED  BY <2>1, <2>2, FlushTyped, Zenon DEF NetType
<1>7. ASSUME NEW b \in BOOLEAN, SendLogin(b)  PROVE NetType'
  <2>1. FlushLogin(b) /\ UNCHANGED <<pass, agreed>>
    BY <1>7, Zenon DEF SendLogin
  <2>2. sent' \subseteq Packets \X Hows
    <3>1. \A t : How(t, pass) \in Hows
      BY Zenon DEF How, Hows
    <3>2. "login" \in Packets /\ "more" \in Packets
      BY Zenon DEF Packets, Credentials
    <3> QED  BY <2>1, <3>1, <3>2 DEF FlushLogin, NetType
  <2>3. transport' \in {"conn", "tls"} /\ hook' \in BOOLEAN
    BY <2>1, Zenon DEF FlushLogin, NetType
  <2> QED  BY <2>1, <2>2, <2>3, Zenon DEF NetType
<1>8. CASE SendToken
  <2>1. "token" \in Packets
    BY Zenon DEF Packets, Credentials
  <2> QED  BY <1>8, <2>1, FlushTyped, Zenon DEF SendToken, NetType
<1>9. CASE HandshakeRead
  <2>1. "handshake" \in Packets
    BY Zenon DEF Packets
  <2>2. Flush("handshake") \/ UNCHANGED <<sent, transport, hook>>
    BY <1>9, Zenon DEF HandshakeRead, FinishPacket
  <2> QED  BY <1>9, <2>1, <2>2, FlushTyped, Zenon DEF HandshakeRead, NetType
<1>10. CASE HandshakeWrite \/ Accepted \/ ResetSession \/ UNCHANGED vars
  BY <1>10, Zenon DEF HandshakeWrite, Accepted, ResetSession, vars, netVars, NetType
<1> QED  BY <1>1, <1>2, <1>3, <1>4, <1>5, <1>6, <1>7, <1>8, <1>9, <1>10, Zenon
         DEF Next, Progress

\* The number of records that are read next.
LEMMA RecordsTyped ==
    ASSUME NEW calls \in Seq({"w", "r"})  PROVE Records(calls) \in Nat
<1>1. IsFiniteSet(1..Len(calls))
  BY FS_Interval
<1>2. IsFiniteSet({i \in 1..Len(calls) : \A j \in 1..i : calls[j] = "r"})
  BY <1>1, FS_Subset, Zenon
<1> QED  BY <1>2, FS_CardinalityType, Zenon DEF Records

\* The handshake keeps its type.
LEMMA HandshakeTyped ==
    ASSUME HandshakeType, [Next]_vars  PROVE HandshakeType'
<1>1. ASSUME NEW b \in BOOLEAN, Dial(b)  PROVE HandshakeType'
  <2>1. todo' \in Seq({"w", "r"}) /\ inbox' \in Nat /\ left' \in Nat
    BY <1>1 DEF Dial
  <2> QED  BY <1>1, <2>1, Zenon DEF Dial, HandshakeType
<1>2. ASSUME NEW a \in Answers, Prelogin(a)  PROVE HandshakeType'
  BY <1>2, Zenon DEF Prelogin, HandshakeType, hsVars
<1>3. CASE HandshakeWrite
  <2>1. todo' \in Seq({"w", "r"})
    BY <1>3 DEF HandshakeWrite, HandshakeType
  <2> QED  BY <1>3, <2>1, Zenon DEF HandshakeWrite, HandshakeType
<1>4. CASE HandshakeRead
  <2>1. todo' \in Seq({"w", "r"})
    BY <1>4 DEF HandshakeRead, HandshakeType
  <2>2. Records(todo) \in Nat
    BY RecordsTyped, Zenon DEF HandshakeType
  <2>3. left' \in Nat /\ inbox' \in Nat
    BY <1>4, <2>2 DEF HandshakeRead, HandshakeType
  <2> QED  BY <1>4, <2>1, <2>3, Zenon DEF HandshakeRead, FinishPacket, HandshakeType
<1>5. CASE HandshakeDone
  BY <1>5, Zenon DEF HandshakeDone, HandshakeType
<1>6. CASE UNCHANGED hsVars
  BY <1>6, Zenon DEF hsVars, HandshakeType
<1> QED  BY <1>1, <1>2, <1>3, <1>4, <1>5, <1>6, Zenon DEF Next, Progress, StepFails,
     Refused, Fail, Routed, StrictHandshake, SendLogin, SendToken, Accepted,
     ResetSession, vars

\* Type correctness for every set of servers, connection strings and shapes
\* of a TLS handshake (connect in tds.go, Driver.connect).
THEOREM TypeCorrect == Spec => []TypeOK
<1>1. Init => TypeOK
  <2> SUFFICES ASSUME Init  PROVE CallType /\ NetType /\ HandshakeType
    BY TypeParts, Zenon
  <2>1. CallType
    BY ParamsTyped DEF Init, CallType
  <2>2. NetType
    BY Zenon DEF Init, NetType
  <2>3. todo \in Seq({"w", "r"}) /\ inbox \in Nat /\ left \in Nat
    BY DEF Init
  <2>4. HandshakeType
    BY <2>3, Zenon DEF Init, HandshakeType
  <2> QED  BY <2>1, <2>2, <2>4, Zenon
<1>2. TypeOK /\ [Next]_vars => TypeOK'
  <2> SUFFICES ASSUME TypeOK, [Next]_vars  PROVE TypeOK'
    BY Zenon
  <2>1. CallType /\ NetType /\ HandshakeType
    BY TypeParts, Zenon
  <2>2. CallType' /\ NetType' /\ HandshakeType'
    BY <2>1, CallTyped, NetTyped, HandshakeTyped, Zenon
  <2> QED  BY <2>2, TypeParts, PTL
<1> QED  BY <1>1, <1>2, PTL DEF Spec

-----------------------------------------------------------------------------
(* Encryption.                                                              *)

Encrypts == cfg.enc = "strict" \/ agreed \in {"on", "req"}

\* Nothing of the login is sent before the transport is settled.
NoCredentials == \A k \in Credentials, x \in Hows : <<k, x>> \notin sent

\* The transport, what TLS writes to and the hook at every point of connect.
Stage ==
    /\ pc = "strict" => cfg.enc = "strict" /\ transport = "conn"
    /\ pc = "prelogin" => transport = IF cfg.enc = "strict" THEN "tls" ELSE "conn"
    /\ pc \in {"strict", "prelogin"} => pass = "conn" /\ ~hook /\ sent = {}
    /\ pc = "handshake" =>
          /\ transport = "conn" /\ ~hook /\ NoCredentials
          /\ cfg.enc # "strict" /\ agreed \in {"off", "on", "req"}
    /\ pc = "login" =>
          /\ transport = (IF Encrypts \/ agreed = "off" THEN "tls" ELSE "conn")
          /\ pass = "conn" /\ NoCredentials
          /\ hook <=> agreed = "off" /\ cfg.enc # "strict"
    /\ pc \in {"loop", "conn", "ready"} =>
          /\ transport = (IF Encrypts THEN "tls" ELSE "conn")
          /\ pass = "conn" /\ ~hook
    /\ pc \in {"strict", "prelogin", "login", "loop"} => ~pending
    /\ pc \in {"handshake", "login", "loop", "conn", "ready"} =>
          Acceptable(agreed) /\ agreed \in Answers

\* What was sent on a connection that requires encryption; also after connect
\* has given it up.
Required ==
    cfg.enc = "required" => NoCredentials \/ agreed \in {"on", "req"}

\* How it was sent.
SentInv ==
    /\ SentAs({"login"}, IF Encrypts \/ agreed = "off" THEN "tls" ELSE "clear")
    /\ SentAs({"more", "token"}, IF Encrypts THEN "tls" ELSE "clear")
    /\ SentAs({"handshake"}, "clear")

EncInv == TypeOK /\ Stage /\ Required /\ SentInv

\* How a packet goes out.
LEMMA HowSent == /\ \A v : How("conn", v) = "clear"
                 /\ How("tls", "conn") = "tls"
BY Zenon DEF How

\* A step that sends nothing and keeps what was agreed on.
LEMMA SilentStep ==
    ASSUME EncInv, UNCHANGED <<cfg, agreed, sent>>  PROVE Required' /\ SentInv'
BY Zenon DEF EncInv, Required, NoCredentials, SentInv, SentAs, Encrypts

\* A step that sends handshake packets in clear.
LEMMA ClearStep ==
    ASSUME EncInv, UNCHANGED <<cfg, agreed>>,
           sent' = sent \/ sent' = sent \cup {<<"handshake", "clear">>}
    PROVE  Required' /\ SentInv' /\ (NoCredentials => NoCredentials')
<1>1. \A k \in Credentials : \A x : <<k, x>> \in sent' => <<k, x>> \in sent
  BY DEF Credentials
<1>2. NoCredentials => NoCredentials'
  BY <1>1, Zenon DEF NoCredentials
<1>3. Required'
  BY <1>2, Zenon DEF EncInv, Required
<1>4. SentInv'
  BY <1>1, Zenon DEF EncInv, SentInv, SentAs, Encrypts, Credentials
<1> QED  BY <1>2, <1>3, <1>4, Zenon

\* Before the login packet nothing of the login was sent; the handshake stays
\* in clear.
LEMMA HandshakeStep ==
    ASSUME EncInv, HandshakeWrite \/ HandshakeRead \/ HandshakeDone
    PROVE  Stage' /\ Required' /\ SentInv'
<1> USE DEF EncInv
<1>1. /\ pc = "handshake" /\ transport = "conn" /\ ~hook /\ NoCredentials
      /\ cfg.enc # "strict" /\ agreed \in {"off", "on", "req"}
      /\ Acceptable(agreed)
  BY Zenon DEF Stage, HandshakeWrite, HandshakeRead, HandshakeDone
<1>2. sent' = sent \/ sent' = sent \cup {<<"handshake", "clear">>}
  <2>1. How(transport, pass) = "clear"
    BY <1>1, HowSent, Zenon
  <2> QED  BY <2>1, Zenon DEF HandshakeWrite, HandshakeRead, HandshakeDone,
           FinishPacket, Flush, netVars
<1>3. UNCHANGED <<cfg, agreed>>
  BY Zenon DEF HandshakeWrite, HandshakeRead, HandshakeDone, callVars, netVars
<1>4. Required' /\ SentInv' /\ NoCredentials'
  BY <1>1, <1>2, <1>3, ClearStep, Zenon
<1>5. CASE HandshakeWrite \/ HandshakeRead
  <2>1. UNCHANGED pc /\ transport' = "conn" /\ ~hook'
    BY <1>1, <1>5, Zenon DEF HandshakeWrite, HandshakeRead, FinishPacket, Flush,
       callVars, netVars
  <2> QED  BY <1>1, <1>3, <1>4, <2>1, Zenon DEF Stage, Acceptable, Answers
<1>6. CASE HandshakeDone
  <2>1. /\ pc' = "login" /\ transport' = "tls" /\ pass' = "conn"
        /\ hook' = (agreed = "off") /\ pending' = FALSE
    BY <1>6, Zenon DEF HandshakeDone
  <2> QED  BY <1>1, <1>3, <1>4, <2>1, Zenon DEF Stage, Encrypts, Acceptable, Answers
<1> QED  BY <1>4, <1>5, <1>6, Zenon

\* The PRELOGIN exchange decides how the login is sent.
LEMMA PreloginStep ==
    ASSUME EncInv, NEW a \in Answers, Prelogin(a)
    PROVE  Stage' /\ Required' /\ SentInv'
<1> USE DEF EncInv
<1>1. /\ pc = "prelogin" /\ Acceptable(a) /\ agreed' = a /\ UNCHANGED cfg
      /\ transport = IF cfg.enc = "strict" THEN "tls" ELSE "conn"
      /\ pass = "conn" /\ ~hook /\ sent = {} /\ ~pending
  BY Zenon DEF Prelogin, Stage
<1>2. UNCHANGED transport /\ ~hook' /\ UNCHANGED pending
  BY <1>1, Zenon DEF Prelogin, Flush, hsVars
<1>3. sent' = {<<"prelogin", How(transport, pass)>>}
  BY <1>1, Zenon DEF Prelogin, Flush
<1>4. \A k, x : <<k, x>> \in sent' => k = "prelogin"
  BY <1>3, Zenon
<1>5. NoCredentials'
  BY <1>4, Zenon DEF NoCredentials, Credentials
<1>6. SentInv'
  BY <1>4, Zenon DEF SentInv, SentAs
<1>7. Required'
  BY <1>5, Zenon DEF Required
<1>8. Stage'
  <2>1. CASE cfg.enc = "strict" \/ a = "notsup"
    <3>1. pc' = "login" /\ UNCHANGED pass
      BY <2>1, Zenon DEF Prelogin
    <3> QED  BY <1>1, <1>2, <1>5, <2>1, <3>1, Zenon DEF Stage, Encrypts, Acceptable, Answers
  <2>2. CASE ~(cfg.enc = "strict" \/ a = "notsup")
    <3>1. pc' = "handshake"
      BY <2>2, Zenon DEF Prelogin
    <3> QED  BY <1>1, <1>2, <1>5, <2>2, <3>1, Zenon DEF Stage, Encrypts, Acceptable, Answers
  <2> QED  BY <2>1, <2>2, Zenon
<1> QED  BY <1>6, <1>7, <1>8, Zenon

\* The packets of the login go out as agreed.
LEMMA LoginStep ==
    ASSUME EncInv, NEW b \in BOOLEAN, SendLogin(b)
    PROVE  Stage' /\ Required' /\ SentInv'
<1> USE DEF EncInv
<1>1. /\ pc = "login" /\ pc' = "loop" /\ UNCHANGED <<cfg, agreed, pass, pending>>
      /\ transport = (IF Encrypts \/ agreed = "off" THEN "tls" ELSE "conn")
      /\ pass = "conn" /\ NoCredentials /\ ~pending
      /\ hook <=> agreed = "off" /\ cfg.enc # "strict"
      /\ Acceptable(agreed) /\ agreed \in Answers
  BY Zenon DEF SendLogin, Stage, hsVars
<1>2. DEFINE first == How(transport, pass)
             other == How(transport', pass)
<1>3. transport' = (IF Encrypts THEN "tls" ELSE "conn") /\ ~hook'
  BY <1>1, Zenon DEF SendLogin, FlushLogin, Encrypts
<1>4. /\ first = IF Encrypts \/ agreed = "off" THEN "tls" ELSE "clear"
      /\ other = IF Encrypts THEN "tls" ELSE "clear"
  BY <1>1, <1>3, HowSent, Zenon
<1>5. sent' \subseteq sent \cup {<<"login", first>>, <<"more", other>>}
  BY Zenon DEF SendLogin, FlushLogin
<1> HIDE DEF first, other
<1>6. SentInv'
  <2>1. \A x : <<"login", x>> \in sent' => x = first
    BY <1>1, <1>5, Zenon DEF NoCredentials, Credentials, SentInv, SentAs, TypeOK
  <2>2. \A x : <<"more", x>> \in sent' => x = other
    BY <1>1, <1>5, Zenon DEF NoCredentials, Credentials, TypeOK
  <2>3. \A x : (<<"token", x>> \in sent' => <<"token", x>> \in sent)
             /\ (<<"handshake", x>> \in sent' => <<"handshake", x>> \in sent)
    BY <1>5, Zenon
  <2> QED  BY <1>1, <1>4, <2>1, <2>2, <2>3, Zenon DEF SentInv, SentAs, Encrypts
<1>7. Required'
  BY <1>1, Zenon DEF Required, Acceptable, Answers
<1>8. Stage'
  BY <1>1, <1>3, Zenon DEF Stage, Encrypts, Acceptable
<1> QED  BY <1>6, <1>7, <1>8, Zenon

\* So do the messages of the authentication.
LEMMA TokenStep ==
    ASSUME EncInv, SendToken  PROVE Stage' /\ Required' /\ SentInv'
<1> USE DEF EncInv
<1>1. /\ pc = "loop" /\ UNCHANGED <<cfg, agreed, pass, pc, pending>>
      /\ transport = (IF Encrypts THEN "tls" ELSE "conn")
      /\ pass = "conn" /\ ~hook /\ Acceptable(agreed) /\ agreed \in Answers
  BY Zenon DEF SendToken, Stage, hsVars
<1>2. UNCHANGED transport /\ ~hook'
  BY <1>1, Zenon DEF SendToken, Flush
<1>3. How(transport, pass) = IF Encrypts THEN "tls" ELSE "clear"
  BY <1>1, HowSent, Zenon
<1>4. sent' = sent \cup {<<"token", IF Encrypts THEN "tls" ELSE "clear">>}
  BY <1>3, Zenon DEF SendToken, Flush
<1>5. SentInv'
  BY <1>1, <1>4, Zenon DEF SentInv, SentAs, Encrypts
<1>6. Required'
  BY <1>1, Zenon DEF Required, Acceptable, Answers
<1>7. Stage'
  BY <1>1, <1>2, Zenon DEF Stage, Encrypts, Acceptable
<1> QED  BY <1>5, <1>6, <1>7, Zenon

\* The inductive invariant of the encryption.
LEMMA EncInvariant == Spec => []EncInv
<1>1. Init /\ TypeOK => EncInv
  BY Zenon DEF Init, EncInv, Stage, Required, NoCredentials, SentInv, SentAs
<1>2. ASSUME EncInv, TypeOK', [Next]_vars  PROVE EncInv'
  <2> USE <1>2 DEF EncInv
  <2>1. CASE StepFails \/ Refused
    <3>1. /\ pc' \in {"dial", "failed"} /\ UNCHANGED <<cfg, agreed, sent>>
      BY <2>1, Zenon DEF StepFails, Refused, Fail, netVars
    <3>2. Stage'
      BY <3>1, Zenon DEF Stage
    <3> QED  BY <3>1, <3>2, SilentStep, Zenon
  <2>2. ASSUME NEW b \in BOOLEAN, Dial(b)  PROVE EncInv'
    <3>1. /\ transport' = "conn" /\ pass' = "conn" /\ ~hook' /\ sent' = {}
          /\ pc' = (IF cfg.enc = "strict" THEN "strict" ELSE "prelogin")
          /\ UNCHANGED cfg /\ ~pending'
      BY <2>2, Zenon DEF Dial
    <3>2. Stage'
      BY <3>1, Zenon DEF Stage
    <3>3. Required' /\ SentInv'
      BY <3>1, Zenon DEF Required, NoCredentials, SentInv, SentAs
    <3> QED  BY <3>2, <3>3, Zenon
  <2>3. CASE StrictHandshake
    <3>1. /\ pc = "strict" /\ pc' = "prelogin" /\ transport' = "tls"
          /\ pass' = "conn" /\ UNCHANGED <<cfg, hook, agreed, sent, pending>>
      BY <2>3, Zenon DEF StrictHandshake, hsVars
    <3>2. Stage'
      BY <3>1, Zenon DEF Stage
    <3> QED  BY <3>1, <3>2, SilentStep, Zenon
  <2>4. CASE Accepted \/ ResetSession
    <3>1. /\ pc \in {"loop", "conn"} /\ pc' \in {"conn", "ready", "failed"}
          /\ UNCHANGED <<cfg, agreed, sent, transport, pass, hook>>
      BY <2>4, Zenon DEF Accepted, ResetSession, netVars
    <3>2. Stage'
      BY <3>1, Zenon DEF Stage, Encrypts, Acceptable
    <3> QED  BY <3>1, <3>2, SilentStep, Zenon
  <2>5. ASSUME NEW h \in Hosts, NEW inst \in BOOLEAN, Routed(h, inst)  PROVE EncInv'
    <3>1. pc' = "dial" /\ UNCHANGED <<cfg, agreed, sent>>
      BY <2>5, Zenon DEF Routed, netVars
    <3>2. Stage'
      BY <3>1, Zenon DEF Stage
    <3> QED  BY <3>1, <3>2, SilentStep, Zenon
  <2>6. CASE UNCHANGED vars
    <3>1. /\ UNCHANGED <<cfg, agreed, sent>>
          /\ UNCHANGED <<pc, transport, pass, hook, pending>>
      BY <2>6, Zenon DEF vars, callVars, netVars, hsVars
    <3>2. Stage'
      BY <3>1, Zenon DEF Stage, NoCredentials, Encrypts, Acceptable
    <3> QED  BY <3>1, <3>2, SilentStep, Zenon
  <2> QED  BY <2>1, <2>2, <2>3, <2>4, <2>5, <2>6, HandshakeStep, PreloginStep,
           LoginStep, TokenStep, Zenon DEF Next, Progress
<1> QED  BY <1>1, <1>2, TypeCorrect, PTL DEF Spec

\* With encrypt=true or strict nothing of a login goes out unencrypted, to any
\* server that routing or fail-over leads to (interpretPreloginResponse).
THEOREM AlwaysEncrypted == Spec => []RequiredIsEncrypted
<1>1. EncInv => RequiredIsEncrypted
  <2> SUFFICES ASSUME EncInv, cfg.enc \in {"required", "strict"}
               PROVE  /\ SentAs(Credentials, "tls")
                      /\ pc \in {"loop", "conn", "ready"} => transport = "tls"
    BY Zenon DEF RequiredIsEncrypted
  <2>1. NoCredentials \/ Encrypts
    BY Zenon DEF EncInv, Required, Encrypts
  <2>2. SentAs(Credentials, "tls")
    BY <2>1, Zenon DEF EncInv, SentInv, SentAs, NoCredentials, Credentials
  <2>3. pc \in {"loop", "conn", "ready"} => transport = "tls"
    BY Zenon DEF EncInv, Stage, Encrypts, Acceptable, Answers
  <2> QED  BY <2>2, <2>3, Zenon
<1> QED  BY <1>1, EncInvariant, PTL

\* Client and server agree on what is encrypted (afterFirst, connect).
THEOREM ModesAgree == Spec => []ModeAgreed
<1>1. EncInv => ModeAgreed
  BY Zenon DEF EncInv, SentInv, Stage, Encrypts, ModeAgreed
<1> QED  BY <1>1, EncInvariant, PTL

\* The TLS handshake is flushed in clear before the transport is replaced,
\* whatever calls crypto/tls makes (tlsHandshakeConn).
THEOREM HandshakeFlushed == Spec => []HandshakeInClear
<1>1. EncInv => HandshakeInClear
  BY Zenon DEF EncInv, SentInv, Stage, HandshakeInClear
<1> QED  BY <1>1, EncInvariant, PTL

-----------------------------------------------------------------------------
(* Sockets, names and bindings.                                             *)

Active == {"strict", "prelogin", "handshake", "login", "loop", "conn", "ready"}

\* The first attempt has its own socket and none while it dials; the second
\* may have one that the first left behind.
SocketInv ==
    /\ TypeOK
    /\ pc \in Active => sock \in open
    /\ attempt = 1 => open \subseteq {sock} /\ (pc = "dial" => open = {})
    /\ attempt = 2 /\ pc = "dial" => \A s, t \in open : s = t
    /\ \A s, t \in open \ {sock} : s = t

\* No attempt holds more than one socket, and a failed one leaves at most one
\* behind, however often the client is routed on.
THEOREM OneSocket == Spec => []OneSocketPerAttempt
<1>1. Init /\ TypeOK => SocketInv
  BY Zenon DEF Init, SocketInv, Active
<1>2. ASSUME SocketInv, TypeOK', [Next]_vars  PROVE SocketInv'
  <2> USE <1>2 DEF SocketInv
  <2>1. /\ sock \in Nat /\ open \subseteq 1..sock /\ attempt \in 1..2
        /\ sock + 1 \notin open
    BY DEF TypeOK
  <2>2. CASE StepFails \/ Refused
    <3>1. /\ UNCHANGED sock /\ open' \subseteq open
          /\ \/ attempt = 1 /\ attempt' = 2 /\ pc' = "dial"
             \/ pc' = "failed" /\ UNCHANGED attempt
      BY <2>2, Zenon DEF StepFails, Refused, Fail
    <3> QED  BY <2>1, <3>1 DEF Active
  <2>3. ASSUME NEW b \in BOOLEAN, Dial(b)  PROVE SocketInv'
    <3>1. /\ pc = "dial" /\ pc' # "dial" /\ sock' = sock + 1 /\ UNCHANGED attempt
          /\ open' = open \cup {sock + 1}
      BY <2>3, Zenon DEF Dial
    <3> QED  BY <2>1, <3>1 DEF Active
  <2>4. ASSUME NEW h \in Hosts, NEW inst \in BOOLEAN, Routed(h, inst)  PROVE SocketInv'
    <3>1. /\ pc = "loop" /\ pc' = "dial" /\ UNCHANGED <<sock, attempt>>
          /\ open' = open \ {sock}
      BY <2>4, Zenon DEF Routed
    <3> QED  BY <2>1, <3>1, Zenon DEF Active
  <2>5. CASE /\ UNCHANGED <<sock, open, attempt>>
             /\ (pc \in Active /\ pc' \in Active \cup {"failed"}) \/ UNCHANGED pc
    BY <2>5, Zenon DEF Active
  <2>6. CASE ResetSession
    <3>1. UNCHANGED <<sock, open, attempt>> /\ pc = "conn" /\ pc' \in {"ready", "failed"}
      BY <2>6, Zenon DEF ResetSession
    <3> QED  BY <3>1, <2>5, Zenon DEF Active
  <2>7. CASE \E a \in Answers : Prelogin(a)
    <3>1. UNCHANGED <<sock, open, attempt>> /\ pc = "prelogin" /\ pc' \in {"login", "handshake"}
      BY <2>7, Zenon DEF Prelogin
    <3> QED  BY <3>1, <2>5, Zenon DEF Active
  <2>8. CASE StrictHandshake \/ HandshakeWrite \/ HandshakeRead \/ HandshakeDone
             \/ SendToken \/ Accepted \/ UNCHANGED vars
             \/ \E b \in BOOLEAN : SendLogin(b)
    BY <2>5, <2>8, Zenon DEF StrictHandshake, HandshakeWrite, HandshakeRead,
       HandshakeDone, SendToken, Accepted, SendLogin, callVars, vars, Active
  <2> QED  BY <2>2, <2>3, <2>4, <2>6, <2>7, <2>8, Zenon DEF Next, Progress
<1>3. SocketInv => OneSocketPerAttempt
  BY DEF SocketInv, OneSocketPerAttempt, TypeOK, Active
<1> QED  BY <1>1, <1>2, <1>3, TypeCorrect, PTL DEF Spec

\* The name in the TLSConfig, if there is one.
NameInv ==
    p.tlsName = IF cfg.enc = "disabled" THEN None
                ELSE IF cfg.certName THEN Given
                ELSE IF attempt = 2 /\ hops = 0 THEN Home ELSE p.host

\* The name a certificate is checked against follows the routing (connect
\* after loginAckStruct), and without a TLSConfig it is the dialled server's.
THEOREM NameIsCurrent == Spec => []TlsNameFollowsRouting
<1>1. Init => NameInv
  BY DEF Init, HomeParams, Params, NameInv
<1>2. ASSUME TypeOK, NameInv, [Next]_vars
      PROVE  NameInv'
  <2> USE <1>2 DEF NameInv
  <2>1. CASE StepFails \/ Refused
    <3>1. /\ UNCHANGED cfg
          /\ \/ UNCHANGED <<p, attempt, hops>>
             \/ attempt' = 2 /\ hops' = 0 /\ p' = PartnerParams
      BY <2>1, Zenon DEF StepFails, Refused, Fail
    <3>2. PartnerParams.tlsName = IF cfg.enc = "disabled" THEN None
                                  ELSE IF cfg.certName THEN Given ELSE Home
      BY Zenon DEF PartnerParams, Params
    <3> QED  BY <3>1, <3>2, Zenon
  <2>2. ASSUME NEW b \in BOOLEAN, Dial(b)  PROVE NameInv'
    <3>1. /\ UNCHANGED <<cfg, attempt, hops>>
          /\ p'.tlsName = p.tlsName /\ p'.host = p.host
      BY <2>2, Zenon DEF Dial, TypeOK
    <3> QED  BY <3>1, Zenon
  <2>3. ASSUME NEW h \in Hosts, NEW inst \in BOOLEAN, Routed(h, inst)
        PROVE  NameInv'
    <3>1. /\ UNCHANGED <<cfg, attempt>> /\ hops' = hops + 1 /\ hops' # 0
          /\ p'.tlsName = (IF cfg.certName \/ p.tlsName = None THEN p.tlsName ELSE h)
          /\ p'.host = h
      BY <2>3 DEF Routed, TypeOK
    <3>2. p.host # None /\ Home # None /\ Given # None
      BY DEF TypeOK
    <3> QED  BY <3>1, <3>2, Zenon
  <2>4. CASE UNCHANGED <<cfg, p, attempt, hops>>
    BY <2>4, Zenon
  <2> QED  BY <2>1, <2>2, <2>3, <2>4, Zenon DEF Next, Progress, StrictHandshake,
       Prelogin, HandshakeWrite, HandshakeRead, HandshakeDone, SendLogin,
       SendToken, Accepted, ResetSession, callVars, vars
<1>3. TypeOK /\ NameInv => TlsNameFollowsRouting
  <2>1. TypeOK => p.host # None /\ Home # None /\ Given # None
    BY DEF TypeOK
  <2> QED  BY <2>1, Zenon DEF NameInv, TlsNameFollowsRouting, CheckedName
<1> QED  BY <1>1, <1>2, <1>3, TypeCorrect, PTL DEF Spec

\* The binding is renewed by every TLS handshake, also after routing; what is
\* left of an earlier server is never used over TLS.
BindingInv ==
    /\ ~cfg.epa => cbt = 0
    /\ pc = "prelogin" /\ cfg.enc = "strict" => cbt \in {0, sock}
    /\ BindingOverTls

\* A channel binding used over TLS is that of the TLS connection in use,
\* however often connect is routed on (connect, initiate_connection).
THEOREM BindingIsCurrent == Spec => []BindingOverTls
<1>1. Init => BindingInv
  BY Zenon DEF Init, BindingInv, BindingOverTls
<1>2. ASSUME EncInv, BindingInv, [Next]_vars  PROVE BindingInv'
  <2> USE <1>2 DEF BindingInv, BindingOverTls
  <2>1. CASE StepFails \/ Refused
    BY <2>1, Zenon DEF StepFails, Refused, Fail
  <2>2. ASSUME NEW b \in BOOLEAN, Dial(b)  PROVE BindingInv'
    BY <2>2, Zenon DEF Dial
  <2>3. CASE StrictHandshake
    BY <2>3, Zenon DEF StrictHandshake, Binding
  <2>4. ASSUME NEW a \in Answers, Prelogin(a)  PROVE BindingInv'
    <3>1. /\ pc = "prelogin" /\ pc' \in {"login", "handshake"}
          /\ UNCHANGED <<cfg, cbt, sock>>
      BY <2>4, Zenon DEF Prelogin
    <3>2. cfg.enc # "strict" => transport' = "conn"
      BY <2>4, <3>1, Zenon DEF Prelogin, Flush, EncInv, Stage
    <3> QED  BY <3>1, <3>2, Zenon
  <2>5. CASE HandshakeDone
    BY <2>5, Zenon DEF HandshakeDone, Binding
  <2>6. CASE UNCHANGED <<cfg, cbt, sock>>
             /\ (pc' \in {"handshake", "loop", "conn", "ready", "failed", "dial"}
                  \/ UNCHANGED <<pc, transport>>)
    BY <2>6, Zenon
  <2>7. CASE SendToken
    BY <2>7, Zenon DEF SendToken
  <2>8. CASE HandshakeWrite \/ HandshakeRead
    BY <2>8, <2>6, Zenon DEF HandshakeWrite, HandshakeRead, callVars
  <2>9. CASE Accepted \/ ResetSession \/ UNCHANGED vars
    BY <2>9, <2>6, Zenon DEF Accepted, ResetSession, vars, callVars, netVars
  <2>10. ASSUME NEW h \in Hosts, NEW inst \in BOOLEAN, Routed(h, inst)  PROVE BindingInv'
    BY <2>10, <2>6, Zenon DEF Routed
  <2>11. ASSUME NEW several \in BOOLEAN, SendLogin(several)  PROVE BindingInv'
    BY <2>11, <2>6, Zenon DEF SendLogin
  <2> QED  BY <2>1, <2>2, <2>3, <2>4, <2>5, <2>7, <2>8, <2>9, <2>10, <2>11, Zenon
           DEF Next, Progress
<1>3. BindingInv => BindingOverTls
  BY Zenon DEF BindingInv
<1> QED  BY <1>1, <1>2, <1>3, EncInvariant, PTL DEF Spec

-----------------------------------------------------------------------------
(* The handshake does not wait for itself.                                  *)

\* The reads that a list of calls begins with.
Leading(calls) == {i \in 1..Len(calls) : \A j \in 1..i : calls[j] = "r"}

\* Of the calls after a read there is one read fewer to come.
LEMMA RecordsNext ==
    ASSUME NEW calls \in Seq({"w", "r"}), calls # <<>>, Head(calls) = "r"
    PROVE  /\ Records(calls) \in Nat /\ Records(calls) > 0
           /\ Records(Tail(calls)) = Records(calls) - 1
<1> DEFINE A == Leading(calls)
           B == Leading(Tail(calls))
           f == [i \in B |-> i + 1]
<1>1. /\ Len(calls) \in Nat \ {0} /\ Len(Tail(calls)) = Len(calls) - 1
      /\ calls[1] = "r" /\ Tail(calls) \in Seq({"w", "r"})
      /\ \A i \in 1..(Len(calls) - 1) : Tail(calls)[i] = calls[i + 1]
  OBVIOUS
<1>2. IsFiniteSet(A) /\ IsFiniteSet(B)
  <2>1. IsFiniteSet(1..Len(calls)) /\ IsFiniteSet(1..Len(Tail(calls)))
    BY <1>1, FS_Interval
  <2> QED  BY <2>1, FS_Subset, Zenon DEF Leading
<1>3. 1 \in A
  BY <1>1 DEF Leading
<1>4. \A i \in B : i + 1 \in A \ {1}
  <2> SUFFICES ASSUME NEW i \in B  PROVE i + 1 \in A \ {1}
    OBVIOUS
  <2>1. i \in 1..(Len(calls) - 1) /\ \A j \in 1..i : Tail(calls)[j] = "r"
    BY <1>1 DEF Leading
  <2>2. \A j \in 1..(i + 1) : calls[j] = "r"
    <3> SUFFICES ASSUME NEW j \in 1..(i + 1)  PROVE calls[j] = "r"
      OBVIOUS
    <3>1. CASE j = 1
      BY <1>1, <3>1
    <3>2. CASE j # 1
      <4>1. j - 1 \in 1..i /\ j - 1 \in 1..(Len(calls) - 1) /\ (j - 1) + 1 = j
        BY <1>1, <2>1, <3>2
      <4>2. calls[(j - 1) + 1] = "r"
        BY <1>1, <2>1, <4>1, Zenon
      <4> QED  BY <4>1, <4>2, Zenon
    <3> QED  BY <3>1, <3>2
  <2>3. i + 1 \in 1..Len(calls) /\ i + 1 # 1
    BY <1>1, <2>1
  <2> QED  BY <2>2, <2>3 DEF Leading
<1>5. \A k \in A \ {1} : k - 1 \in B /\ (k - 1) + 1 = k
  <2> SUFFICES ASSUME NEW k \in A \ {1}  PROVE k - 1 \in B /\ (k - 1) + 1 = k
    OBVIOUS
  <2>1. k \in 2..Len(calls) /\ \A j \in 1..k : calls[j] = "r"
    BY <1>1 DEF Leading
  <2>2. \A j \in 1..(k - 1) : Tail(calls)[j] = "r"
    <3> SUFFICES ASSUME NEW j \in 1..(k - 1)  PROVE Tail(calls)[j] = "r"
      OBVIOUS
    <3>1. j \in 1..(Len(calls) - 1) /\ j + 1 \in 1..k
      BY <1>1, <2>1
    <3> QED  BY <1>1, <2>1, <3>1, Zenon
  <2>3. k - 1 \in 1..Len(Tail(calls)) /\ (k - 1) + 1 = k
    BY <1>1, <2>1
  <2> QED  BY <2>2, <2>3 DEF Leading
<1>6. \A i \in B : i \in Nat
  BY <1>1 DEF Leading
<1>7. Cardinality(A \ {1}) = Cardinality(B)
  <2> HIDE DEF A, B
  <2>1. f \in [B -> A \ {1}]
    BY <1>4
  <2>2. \A i, j \in B : f[i] = f[j] => i = j
    BY <1>6
  <2>3. \A k \in A \ {1} : \E i \in B : f[i] = k
    BY <1>5
  <2> HIDE DEF f
  <2>4. f \in Bijection(B, A \ {1})
    BY <2>1, <2>2, <2>3, Fun_IsBij, Zenon
  <2>5. ExistsBijection(B, A \ {1})
    BY <2>4, Fun_ExistsBij, Zenon
  <2> QED  BY <1>2, <2>5, FS_Bijection, Zenon
<1>8. Cardinality(A \ {1}) = Cardinality(A) - 1
  BY <1>2, <1>3, FS_RemoveElement, Zenon
<1>9. Records(calls) = Cardinality(A) /\ Records(Tail(calls)) = Cardinality(B)
  BY Zenon DEF Records, Leading
<1>10. Records(calls) \in Nat /\ Records(Tail(calls)) \in Nat
  BY <1>1, RecordsTyped, Zenon
<1> HIDE DEF A, B
<1> QED  BY <1>7, <1>8, <1>9, <1>10

\* What a Read of tlsHandshakeConn finds: the answer to what it sends first,
\* the rest of the message it reads, or a message that has come.
Available == IF pending THEN Records(todo) ELSE IF cont THEN left ELSE inbox

\* A Read does not wait for an answer to something that was not sent, nor
\* fail at the end of a message that has been read (tlsHandshakeConn.Read
\* sends the pending packet and begins a new message just then).
ReadIsAnswered ==
    pc = "handshake" /\ todo # <<>> /\ Head(todo) = "r" => Available > 0

\* A read that sends nothing reads on, in a message with as many records as
\* are read before the next write.
FlightInv ==
    pc = "handshake" /\ todo # <<>> /\ Head(todo) = "r" /\ ~pending
      => cont /\ left = Records(todo)

\* In every handshake that the client begins, however many calls its flights
\* take, every Read finds what it reads.  With fairness of connect and of the
\* server this is why connect returns.
THEOREM ReadsAreAnswered ==
    ASSUME \A s \in Scripts : s # <<>> => Head(s) = "w"
    PROVE  Spec => []ReadIsAnswered
<1>1. Init => FlightInv
  BY DEF Init, FlightInv
<1>2. TypeOK /\ FlightInv /\ [Next]_vars => FlightInv'
  <2> SUFFICES ASSUME TypeOK, FlightInv, [Next]_vars  PROVE FlightInv'
    BY Zenon
  <2>1. CASE HandshakeWrite
    BY <2>1, Zenon DEF HandshakeWrite, FlightInv
  <2>2. CASE HandshakeRead
    <3>1. todo \in Seq({"w", "r"}) /\ todo # <<>> /\ Head(todo) = "r"
      BY <2>2, Zenon DEF HandshakeRead, TypeOK
    <3>2. Records(todo) \in Nat /\ Records(Tail(todo)) = Records(todo) - 1
      BY <3>1, RecordsNext, Zenon
    <3>3. cont' /\ todo' = Tail(todo)
      BY <2>2, Zenon DEF HandshakeRead
    <3>4. left' = Records(todo) - 1
      <4>1. CASE pending
        BY <2>2, <4>1, Zenon DEF HandshakeRead
      <4>2. CASE ~pending
        <5>1. cont /\ left = Records(todo)
          BY <2>2, <4>2, Zenon DEF HandshakeRead, FlightInv
        <5> QED  BY <2>2, <4>2, <5>1, Zenon DEF HandshakeRead
      <4> QED  BY <4>1, <4>2, Zenon
    <3>5. left' = Records(Tail(todo))
      BY <3>2, <3>4, Zenon
    <3>6. Records(todo)' = Records(Tail(todo))
      BY <3>3, Zenon DEF Records
    <3> QED  BY <3>3, <3>5, <3>6, Zenon DEF FlightInv
  <2>3. ASSUME NEW a \in Answers, Prelogin(a)  PROVE FlightInv'
    <3>1. CASE pc' # "handshake"
      BY <3>1, Zenon DEF FlightInv
    <3>2. CASE pc' = "handshake"
      <4>1. todo' \in Scripts
        BY <2>3, <3>2 DEF Prelogin
      <4>2. todo' # <<>> => Head(todo') # "r"
        BY <4>1
      <4> QED  BY <4>2, Zenon DEF FlightInv
    <3> QED  BY <3>1, <3>2, Zenon
  <2>4. CASE pc' # "handshake"
    BY <2>4, Zenon DEF FlightInv
  <2>5. CASE UNCHANGED <<pc, hsVars>>
    BY <2>5 DEF FlightInv, hsVars, Records
  <2>6. ASSUME NEW b \in BOOLEAN, Dial(b) \/ SendLogin(b)  PROVE pc' # "handshake"
    BY <2>6 DEF Dial, SendLogin
  <2>7. ASSUME NEW h \in Hosts, NEW b \in BOOLEAN, Routed(h, b)  PROVE pc' # "handshake"
    BY <2>7 DEF Routed
  <2>8. ASSUME StrictHandshake \/ HandshakeDone \/ Accepted \/ ResetSession
               \/ StepFails \/ Refused
        PROVE  pc' # "handshake"
    BY <2>8 DEF StrictHandshake, HandshakeDone, Accepted, ResetSession, StepFails, Refused, Fail
  <2>9. ASSUME SendToken \/ UNCHANGED vars  PROVE UNCHANGED <<pc, hsVars>>
    BY <2>9 DEF SendToken, vars, callVars
  <2> QED  BY <2>1, <2>2, <2>3, <2>4, <2>5, <2>6, <2>7, <2>8, <2>9, Zenon DEF Next, Progress
<1>3. TypeOK /\ FlightInv => ReadIsAnswered
  <2> SUFFICES ASSUME TypeOK, FlightInv,
                      pc = "handshake", todo # <<>>, Head(todo) = "r"
               PROVE  Available > 0
    BY Zenon DEF ReadIsAnswered
  <2>1. Records(todo) > 0
    BY RecordsNext, Zenon DEF TypeOK
  <2>2. Available = Records(todo)
    BY Zenon DEF Available, FlightInv
  <2> QED  BY <2>1, <2>2, Zenon
<1> QED  BY <1>1, <1>2, <1>3, TypeCorrect, PTL DEF Spec
=============================================================================
