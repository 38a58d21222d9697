------------------------------ MODULE MCLogin ------------------------------
(* Login for TLC: three servers, the connection strings that differ in what *)
(* connect does, and the two shapes of a TLS handshake.                     *)
EXTENDS Login

Plain == [enc |-> "off", auth |-> "sql", partner |-> FALSE, spn |-> FALSE,
          partnerSpn |-> FALSE, certName |-> FALSE, inst |-> FALSE,
          epa |-> FALSE, initSQL |-> FALSE]

\* Every way to encrypt and to log in; every way to name the servers; both
\* options that change what happens around the handshake.
MCConfigs ==
    {[Plain EXCEPT !.enc = e, !.auth = a, !.partner = b] :
        e \in {"strict", "required", "off", "disabled"},
        a \in {"sql", "sspi", "adal"}, b \in BOOLEAN}
    \cup {[Plain EXCEPT !.auth = "sspi", !.partner = TRUE, !.spn = s,
                        !.partnerSpn = t, !.certName = c, !.inst = c] :
        s, t, c \in BOOLEAN}
    \cup {[Plain EXCEPT !.enc = e, !.auth = "sspi", !.epa = TRUE,
                        !.initSQL = TRUE] :
        e \in {"strict", "off"}}
    \cup {[Plain EXCEPT !.enc = "disabled", !.partner = TRUE, !.certName = TRUE]}

\* TLS 1.3 ends with a client flight, TLS 1.2 with a server flight; a flight
\* may take several calls.
MCScripts == {<<"w", "r", "w">>, <<"w", "r", "r", "w", "w", "r">>}
=============================================================================
