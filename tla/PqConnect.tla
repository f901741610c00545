------------------------------ MODULE PqConnect ------------------------------
(***************************************************************************)
(* Establishing and closing a connection: Driver.fit and the connectors,    *)
(* Connection.connect, _establish and close (driver/pq3.py), the socket and *)
(* SSL part of protocol/client3.py, and the Negotiation and Closing          *)
(* transactions of protocol/xact3.py.  The servers behind the socket          *)
(* factories are external: each has an SSL answer and what it does with a      *)
(* startup message on a plain and on a secured socket.                         *)
(***************************************************************************)
EXTENDS Integers, Sequences, FiniteSets, SequencesExt

CONSTANTS
  Modes,        \* sslmode values: subset of allow, prefer, require, disable
  ServerKinds,  \* servers: up, the answer to NegotiateSSL, whether the handshake
                \* works, what is done with a startup on a plain or secured socket
  MaxHosts      \* bound: addresses a host name resolves to

ASSUME ConnectBounds ==
  /\ Modes \subseteq {"allow", "prefer", "require", "disable"}
  /\ \A k \in ServerKinds :
       /\ {k.up, k.handshake} \subseteq BOOLEAN /\ k.ssl \in {"S", "N", "other", "reset"}
       /\ {k.plain, k.crypted} \subseteq
            {"trust", "password", "badpassword", "scram", "rejected", "hangup", "silent"}
  /\ MaxHosts \in Nat \ {0}

VARIABLES
  cConn,    \* Connection: new, trying, initializing, open, failed, raised, closed
  cMode,    \* connector.sslmode
  cServers, \* the server each socket factory reaches
  cTodo,    \* socket_factories still to try: pairs of ssl and a factory
  cSkip,    \* can_skip
  cTry,     \* the client3.Connection being tried
  cWire,    \* messages the server has sent it
  cLog      \* attempts made, for the properties

connectVars == <<cConn, cMode, cServers, cTodo, cSkip, cTry, cWire, cLog>>

\* Driver.fit: the connector for the keywords given, or an error.
Fit(unix, host, port) ==
  IF unix THEN IF host # "unset" \/ port THEN "TypeError" ELSE "unix"
  ELSE IF host = "unset" \/ ~port THEN "TypeError"
  ELSE CASE host = "v6" -> "ip6" [] host = "v4" -> "ip4" [] OTHER -> "host"

\* socket_factory_sequence: one factory, or one for each address of a host name.
Factories(kind, n) == IF kind = "host" THEN [i \in 1..n |-> i] ELSE <<1>>

AttemptKinds_trying(mode) ==
  [allow |-> <<"none", "must">>, prefer |-> <<"try", "none">>,
   require |-> <<"try">>, disable |-> <<"none">>][mode]
\* The attempts of _establish on one address.  ssl is "none" (no negotiation),
\* "try" (may be refused) or "must".
AttemptKinds(mode) ==
  [allow |-> <<"none", "must">>, prefer |-> <<"try", "none">>,
   require |-> <<"must">>, disable |-> <<"none">>][mode]
Attempts(mode, fs) ==
  LET kinds == AttemptKinds(mode)
  IN FlattenSeq([i \in 1..Len(fs) |-> [j \in 1..Len(kinds) |-> <<kinds[j], fs[i]>>]])

\* Messages of a server: authentication ok, a request for a password, one the
\* driver cannot answer, an error; then two parameters, the key and Ready.
Accepted == <<"AuthOK", "Option", "Key", "Option", "Ready">>
Conversation(w) ==
  [ trust |-> Accepted, password |-> <<"AuthPassword">>, badpassword |-> <<"AuthPassword">>,
    scram |-> <<"AuthOther">>, rejected |-> <<"Error">>, hangup |-> <<>>,
    silent |-> <<"AuthOK", "Ready">> ][w]
AfterPassword(w) == IF w = "password" THEN Accepted ELSE <<"Error">>

\* One message of Negotiation.put_messages: errors and asynchronous messages are
\* taken first, the rest drives the generator state_machine.
Negotiate(a, m) ==
  LET b    == [a EXCEPT !.n = @ + 1]
      go(pc) == [b EXCEPT !.pc = pc]
      fails  == [b EXCEPT !.pc = "done", !.fatal = TRUE]
  IN CASE a.pc \in {"done", "send"}                 -> a
       [] a.pc \notin {"done", "send"} /\ m = "Error"  -> fails
       [] a.pc \notin {"done", "send"} /\ m = "Option" -> [b EXCEPT !.options = @ + 1]
       [] a.pc = "auth" /\ m = "AuthPassword"       -> go("send")
       [] a.pc \in {"auth", "authok"} /\ m = "AuthOK" -> go("kill")
       [] a.pc = "kill" /\ m = "Key"                -> go("ready")
       [] a.pc = "ready" /\ m = "Ready"             -> go("done")
       [] OTHER                                     -> fails

NewTry(ssl, f) ==
  [ ssl |-> ssl, f |-> f, phase |-> "socket", did |-> "unset", secured |-> FALSE,
    pc |-> "auth", options |-> 0, fatal |-> FALSE, exception |-> FALSE, n |-> 0 ]
NoTry == NewTry("none", 0)
Server == cServers[cTry.f]
Welcome == IF cTry.secured THEN Server.crypted ELSE Server.plain

Ended(t) == [t EXCEPT !.phase = "ended"]
Fatal(t) == [Ended(t) EXCEPT !.fatal = TRUE]
WithException(t) == [Fatal(t) EXCEPT !.exception = TRUE]

\* Connection.connect on a new object; on one that failed or was closed it
\* raises, and on an open one it returns: no state changes.
Connect ==
  /\ cConn = "new"
  /\ \E kind \in {Fit(u, h, p) : u \in BOOLEAN, h \in {"unset", "v4", "v6", "name"}, p \in BOOLEAN} :
       /\ kind # "TypeError"
       /\ cTodo' = Attempts(cMode, Factories(kind, Len(cServers)))
       /\ cLog' = [cLog EXCEPT !.hosts = ToSet(Factories(kind, Len(cServers)))]
  /\ cConn' = "trying"
  /\ UNCHANGED <<cMode, cServers, cSkip, cTry, cWire>>

CanSkip_kept == cSkip
CanSkip == FALSE
\* The loop of _establish: an attempt known to fail is skipped, the next is a
\* new client3.Connection; with none left, could_not_connect.
NextAttempt ==
  /\ cConn = "trying" /\ cTry = NoTry
  /\ IF cTodo = <<>> THEN cConn' = "failed" /\ UNCHANGED <<cTodo, cSkip, cTry>>
     ELSE /\ cTodo' = Tail(cTodo) /\ cSkip' = CanSkip /\ UNCHANGED cConn
          /\ cTry' = IF cSkip THEN NoTry ELSE NewTry(Head(cTodo)[1], Head(cTodo)[2])
  /\ UNCHANGED <<cMode, cServers, cWire, cLog>>

\* client3.Connection.connect: the socket, then SSL when asked for.
OpenSocket ==
  /\ cConn = "trying" /\ cTry # NoTry /\ cTry.phase = "socket"
  /\ cTry' = IF ~Server.up THEN WithException(cTry)
             ELSE [cTry EXCEPT !.phase = IF cTry.ssl = "none" THEN "startup" ELSE "ssl"]
  /\ cLog' = [cLog EXCEPT !.tried = Append(@, <<cTry.ssl, cTry.f>>)]
  /\ UNCHANGED <<cConn, cMode, cServers, cTodo, cSkip, cWire>>

\* negotiate_ssl and socket_factory.secure.  A reset is raised out of
\* _establish; any exception of the handshake marks the attempt.
NegotiateSsl ==
  /\ cTry.phase = "ssl" /\ Server.ssl # "reset"
  /\ LET t == [cTry EXCEPT !.did = CASE Server.ssl = "S" -> "yes" [] Server.ssl = "N" -> "no"
                                     [] OTHER -> "none"]
     IN cTry' = CASE t.did = "none" -> Fatal(t)
                  [] t.did = "no" -> IF t.ssl = "must" THEN Fatal(t)
                                     ELSE [t EXCEPT !.phase = "startup"]
                  [] t.did = "yes" -> IF Server.handshake
                                      THEN [t EXCEPT !.phase = "startup", !.secured = TRUE]
                                      ELSE WithException(t)
  /\ UNCHANGED <<cConn, cMode, cServers, cTodo, cSkip, cWire, cLog>>
NegotiationReset ==
  /\ cTry.phase = "ssl" /\ Server.ssl = "reset"
  /\ cConn' = "raised" /\ cTry' = NoTry
  /\ UNCHANGED <<cMode, cServers, cTodo, cSkip, cWire, cLog>>

\* The startup message or the password is written, and the server answers.
SendStartup ==
  /\ cTry.phase = "startup"
  /\ cTry' = [cTry EXCEPT !.phase = "receive"]
  /\ cWire' = Conversation(Welcome)
  /\ UNCHANGED <<cConn, cMode, cServers, cTodo, cSkip, cLog>>
SendPassword ==
  /\ cTry.phase = "receive" /\ cTry.pc = "send"
  /\ cTry' = [cTry EXCEPT !.pc = "authok"]
  /\ cWire' = cWire \o AfterPassword(Welcome)
  /\ cLog' = [cLog EXCEPT !.passwords = @ \cup {cTry.secured}]
  /\ UNCHANGED <<cConn, cMode, cServers, cTodo, cSkip>>

\* Negotiation.put_messages on a chunk; the rest of the chunk stays unread.
ReceiveGreeting ==
  /\ cTry.phase = "receive" /\ cTry.pc \notin {"send", "done"} /\ cWire # <<>>
  /\ \E k \in 1..Len(cWire) :
       LET t == FoldLeft(Negotiate, [cTry EXCEPT !.n = 0], SubSeq(cWire, 1, k))
       IN /\ cTry' = [(IF t.pc = "done" THEN Ended(t) ELSE t) EXCEPT !.n = 0]
          /\ cWire' = SubSeq(cWire, t.n + 1, Len(cWire))
  /\ UNCHANGED <<cConn, cMode, cServers, cTodo, cSkip, cLog>>
GreetingEof ==
  /\ cTry.phase = "receive" /\ cTry.pc \notin {"send", "done"} /\ cWire = <<>>
  /\ cTry' = Fatal(cTry)
  /\ UNCHANGED <<cConn, cMode, cServers, cTodo, cSkip, cWire, cLog>>

\* The end of an attempt: the first success is the connection; after a failure
\* the loop decides whether the other attempt on the same host is pointless.
AttemptEnds ==
  /\ cTry.phase = "ended"
  /\ IF ~cTry.fatal
     THEN cConn' = "initializing" /\ UNCHANGED <<cTry, cSkip>>
     ELSE /\ UNCHANGED cConn /\ cTry' = NoTry
          /\ cSkip' = \/ cMode = "prefer" /\ cTry.ssl = "try"
                         /\ (cTry.did = "no" \/ cTry.exception)
                      \/ cMode = "allow" /\ cTry.ssl = "none" /\ cTry.exception
  /\ cTry.fatal \/ cConn = "trying"
  /\ cWire' = <<>>
  /\ UNCHANGED <<cMode, cServers, cTodo, cLog>>

\* The startup queries of _establish: any failure closes the connection.
Initialize ==
  /\ cConn = "initializing"
  /\ \E ok \in BOOLEAN : cConn' = IF ok THEN "open" ELSE "closed"
  /\ UNCHANGED <<cMode, cServers, cTodo, cSkip, cTry, cWire, cLog>>

\* Connection.close: the Closing transaction is fatal once sent, so nothing is
\* pushed after it.
Close ==
  /\ cConn = "open" /\ cConn' = "closed"
  /\ UNCHANGED <<cMode, cServers, cTodo, cSkip, cTry, cWire, cLog>>

\* The servers and the mode are chosen before anything happens.
ConnectInit ==
  /\ cConn = "setup" /\ cMode = "disable" /\ cServers = <<>> /\ cTodo = <<>>
  /\ cSkip = FALSE /\ cTry = NoTry /\ cWire = <<>>
  /\ cLog = [tried |-> <<>>, hosts |-> {}, passwords |-> {}]
Environment ==
  /\ cConn = "setup" /\ cConn' = "new"
  /\ \E n \in 1..MaxHosts : cServers' \in [1..n -> ServerKinds]
  /\ cMode' \in Modes
  /\ UNCHANGED <<cTodo, cSkip, cTry, cWire, cLog>>

ConnectNext ==
  \/ Environment \/ Connect \/ NextAttempt \/ OpenSocket \/ NegotiateSsl \/ NegotiationReset
  \/ SendStartup \/ SendPassword \/ ReceiveGreeting \/ GreetingEof \/ AttemptEnds
  \/ Initialize \/ Close
ConnectSpec == ConnectInit /\ [][ConnectNext]_connectVars

ConnectTypeOK ==
  /\ cConn \in {"setup", "new", "trying", "initializing", "open", "failed", "raised", "closed"}
  /\ cTry.phase \in {"socket", "ssl", "startup", "receive", "ended"}
  /\ cTry.pc \in {"auth", "send", "authok", "kill", "ready", "done"}
  /\ cSkip \in BOOLEAN

\* A connection is open only on a server that accepted this user on this kind of
\* socket and announced its parameters before Ready, however the greeting was
\* cut into chunks; with sslmode require neither it nor the password ever uses a
\* socket that is not secured, and with disable none is, across every retry.
\* could_not_connect is raised only after every host was tried, and a server
\* that could not be reached was not tried a second time.
OpenedAsAsked ==
  /\ cConn \in {"initializing", "open"} =>
       Welcome \in {"trust", "password"} /\ cTry.options = 2
  /\ cMode = "require" /\ cConn \in {"initializing", "open"} => cTry.secured
  /\ cMode = "require" => FALSE \notin cLog.passwords
  /\ cMode = "disable" => TRUE \notin cLog.passwords /\ ~cTry.secured
  /\ cConn = "failed" => cLog.hosts = {p[2] : p \in ToSet(cLog.tried)}
  /\ \A f \in cLog.hosts :
       ~cServers[f].up => \A i, j \in DOMAIN cLog.tried : cLog.tried[i][2] = f /\ cLog.tried[j][2] = f => i = j
=============================================================================
