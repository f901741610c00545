----------------------------- MODULE MCDriver -----------------------------
(***************************************************************************)
(* The components of the driver, and the vector programs, for TLC.  They share no *)
(* variable: the run puts their specifications side by side, and a behaviour is one *)
(* of the component chosen at the start.  The states of every component are explored, and their sum,   *)
(* not their product.                                                                 *)
(***************************************************************************)
EXTENDS PqWire, PqConnect, PqSession, PqFetch, PqScroll, PqCopy, PqLocks, PqNotify,
        PqControl, PqDbapi, PqFrames, PqElements, PqParams, PqErrorTable, PqErrors, Vectors

VARIABLE part  \* the component that moves

NoSuchState == <<"00", "000">>  \* of no class of exceptions.py

Parts == { "wire", "connect", "session", "fetch", "scroll", "copy", "locks", "notify", "control",
           "dbapi", "frames", "elements", "params", "errors", "vectors" }
Moves(name) == part = name /\ UNCHANGED part

\* The components that do not move have one initial state.
DriverInit ==
  /\ part \in Parts
  /\ part # "wire" => wOptimized = FALSE
  /\ part # "notify" => nTimeout = "none"
  /\ part # "control" => kDir = "void"
  /\ part # "errors" => eMessage = [kind |-> "notice", sql |-> NoSuchState]
  /\ WireInit /\ ConnectInit /\ SessionInit /\ FetchInit /\ ScrollInit /\ CopyInit /\ LocksInit
  /\ NotifyInit /\ ControlInit /\ DbapiInit /\ FramesInit /\ ElementsInit /\ ParamsInit
  /\ ErrorsInit /\ VectorsInit
\* One component moves and the others stay.
DriverNext ==
  \/ /\ Moves("wire") /\ WireNext
     /\ UNCHANGED <<connectVars, sessionVars, fetchVars, scrollVars, copyVars, lockVars, notifyVars, controlVars,
                    dbapiVars, framesVars, elementsVars, paramsVars, errorVars, vectorVars>>
  \/ /\ Moves("connect") /\ ConnectNext
     /\ UNCHANGED <<wireVars, sessionVars, fetchVars, scrollVars, copyVars, lockVars, notifyVars, controlVars,
                    dbapiVars, framesVars, elementsVars, paramsVars, errorVars, vectorVars>>
  \/ /\ Moves("session") /\ SessionNext
     /\ UNCHANGED <<wireVars, connectVars, fetchVars, scrollVars, copyVars, lockVars, notifyVars, controlVars,
                    dbapiVars, framesVars, elementsVars, paramsVars, errorVars, vectorVars>>
  \/ /\ Moves("fetch") /\ FetchNext
     /\ UNCHANGED <<wireVars, connectVars, sessionVars, scrollVars, copyVars, lockVars, notifyVars, controlVars,
                    dbapiVars, framesVars, elementsVars, paramsVars, errorVars, vectorVars>>
  \/ /\ Moves("scroll") /\ ScrollNext
     /\ UNCHANGED <<wireVars, connectVars, sessionVars, fetchVars, copyVars, lockVars, notifyVars, controlVars,
                    dbapiVars, framesVars, elementsVars, paramsVars, errorVars, vectorVars>>
  \/ /\ Moves("copy") /\ CopyNext
     /\ UNCHANGED <<wireVars, connectVars, sessionVars, fetchVars, scrollVars, lockVars, notifyVars, controlVars,
                    dbapiVars, framesVars, elementsVars, paramsVars, errorVars, vectorVars>>
  \/ /\ Moves("locks") /\ LocksNext
     /\ UNCHANGED <<wireVars, connectVars, sessionVars, fetchVars, scrollVars, copyVars, notifyVars, controlVars,
                    dbapiVars, framesVars, elementsVars, paramsVars, errorVars, vectorVars>>
  \/ /\ Moves("notify") /\ NotifyNext
     /\ UNCHANGED <<wireVars, connectVars, sessionVars, fetchVars, scrollVars, copyVars, lockVars, controlVars,
                    dbapiVars, framesVars, elementsVars, paramsVars, errorVars, vectorVars>>
  \/ /\ Moves("control") /\ ControlNext
     /\ UNCHANGED <<wireVars, connectVars, sessionVars, fetchVars, scrollVars, copyVars, lockVars, notifyVars,
                    dbapiVars, framesVars, elementsVars, paramsVars, errorVars, vectorVars>>
  \/ /\ Moves("dbapi") /\ DbapiNext
     /\ UNCHANGED <<wireVars, connectVars, sessionVars, fetchVars, scrollVars, copyVars, lockVars, notifyVars,
                    controlVars, framesVars, elementsVars, paramsVars, errorVars, vectorVars>>
  \/ /\ Moves("frames") /\ FramesNext
     /\ UNCHANGED <<wireVars, connectVars, sessionVars, fetchVars, scrollVars, copyVars, lockVars, notifyVars,
                    controlVars, dbapiVars, elementsVars, paramsVars, errorVars, vectorVars>>
  \/ /\ Moves("elements") /\ ElementsNext
     /\ UNCHANGED <<wireVars, connectVars, sessionVars, fetchVars, scrollVars, copyVars, lockVars, notifyVars,
                    controlVars, dbapiVars, framesVars, paramsVars, errorVars, vectorVars>>
  \/ /\ Moves("params") /\ ParamsNext
     /\ UNCHANGED <<wireVars, connectVars, sessionVars, fetchVars, scrollVars, copyVars, lockVars, notifyVars,
                    controlVars, dbapiVars, framesVars, elementsVars, errorVars, vectorVars>>
  \/ /\ Moves("errors") /\ ErrorsNext
     /\ UNCHANGED <<wireVars, connectVars, sessionVars, fetchVars, scrollVars, copyVars, lockVars, notifyVars,
                    controlVars, dbapiVars, framesVars, elementsVars, paramsVars, vectorVars>>
  \/ /\ Moves("vectors") /\ VectorsNext
     /\ UNCHANGED <<wireVars, connectVars, sessionVars, fetchVars, scrollVars, copyVars, lockVars, notifyVars,
                    controlVars, dbapiVars, framesVars, elementsVars, paramsVars, errorVars>>
DriverSpec == DriverInit /\ [][DriverNext]_<<part, wireVars, connectVars, sessionVars, fetchVars, scrollVars, copyVars, lockVars,
                                           notifyVars, controlVars, dbapiVars, framesVars, elementsVars, paramsVars, errorVars, vectorVars>>

\* The states of the component that moves have the types its definitions count on.
DriverTypeOK ==
  CASE part = "wire" -> WireTypeOK [] part = "connect" -> ConnectTypeOK
    [] part = "session" -> SessionTypeOK [] part = "fetch" -> FetchTypeOK
    [] part = "scroll" -> ScrollTypeOK [] part = "copy" -> CopyTypeOK
    [] part = "locks" -> LocksTypeOK [] part = "notify" -> NotifyTypeOK
    [] part = "control" -> ControlTypeOK [] part = "dbapi" -> DbapiTypeOK
    [] part = "frames" -> FramesTypeOK [] part = "elements" -> ElementsTypeOK
    [] part = "params" -> ParamsTypeOK [] part = "errors" -> ErrorsTypeOK
    [] part = "vectors" -> VectorsTypeOK

-----------------------------------------------------------------------------
(* The instances *)
WireScripts == {<<"Q">>, <<"P", "L", "D", "S">>, <<"B", "E", "S">>}

ServerKind(ssl, handshake, plain, crypted) ==
  [up |-> TRUE, ssl |-> ssl, handshake |-> handshake, plain |-> plain, crypted |-> crypted]
Tempers ==
  { ServerKind("S", TRUE, "trust", "password"), ServerKind("S", FALSE, "trust", "trust"),
    ServerKind("S", TRUE, "rejected", "badpassword"), ServerKind("S", TRUE, "password", "scram"),
    ServerKind("S", TRUE, "hangup", "silent"), ServerKind("N", TRUE, "password", "rejected"),
    ServerKind("N", TRUE, "badpassword", "rejected"), ServerKind("other", TRUE, "silent", "rejected"),
    ServerKind("reset", TRUE, "trust", "rejected"),
    [ServerKind("N", TRUE, "trust", "rejected") EXCEPT !.up = FALSE] }

SeekOffsets == -3..5

CopyRows(n) == [data |-> TRUE, body |-> n]
CopyNotice(n) == [data |-> FALSE, body |-> n]
CopySource == <<CopyRows(0), CopyRows(1), CopyNotice(0), CopyRows(0)>>

LockObject(n, session, mode, ids) == [name |-> n, session |-> session, mode |-> mode, ids |-> ids]
LockObjects ==
  { LockObject("a", 1, "exclusive", <<1, 2>>), LockObject("b", 2, "exclusive", <<2, 1>>),
    LockObject("c", 2, "share", <<1>>), LockObject("d", 1, "share", <<2>>) }

FrameBodies == <<0, 3, 2>>

\* Messages: every class, with empty, NULL and binary values among them.
TextA == <<65>>
TextAB == <<65, 66>>
TextNone == <<>>
OfClass(cls) == [cls |-> cls]
WithData(cls, d) == [cls |-> cls, data |-> d]
Column(n) == [name |-> n, rel |-> 70000, col |-> 3, type |-> 23, len |-> 4, mod |-> 0, format |-> 1]
SomeAtts == <<NullAtt, Att(TextNone), Att(<<0, 255>>)>>
ServerMsgs ==
  {OfClass(cls) : cls \in DOMAIN EmptyFromServer}
  \cup {WithData("Complete", TextAB), WithData("CopyData", TextNone), WithData("bytes", TextAB), WithData("bytes", <<0>>)}
  \cup {[cls |-> k, atts |-> a] : k \in {"Tuple", "tuple"}, a \in {<<>>, SomeAtts}}
  \cup {[cls |-> k, fields |-> f] : k \in {"Notice", "Error"}, f \in {<<>>, <<<<83, TextA>>, <<67, TextNone>>>>}}
  \cup {[cls |-> k, format |-> 1, formats |-> f] : k \in {"CopyToBegin", "CopyFromBegin"}, f \in {<<>>, <<0, 1>>}}
  \cup {[cls |-> "FunctionResult", result |-> r] : r \in {NullAtt, Att(TextNone), Att(TextAB)}}
  \cup { [cls |-> "AttributeTypes", types |-> <<>>], [cls |-> "AttributeTypes", types |-> <<23, 70000>>],
         [cls |-> "TupleDescriptor", cols |-> <<>>],
         [cls |-> "TupleDescriptor", cols |-> <<Column(TextA), Column(TextNone)>>],
         [cls |-> "Notify", pid |-> 300, channel |-> TextA, payload |-> TextNone],
         [cls |-> "ShowOption", name |-> TextA, value |-> TextNone], [cls |-> "Ready", state |-> 84],
         [cls |-> "KillInformation", pid |-> 1, key |-> 16777217],
         [cls |-> "Authentication", request |-> 5, salt |-> <<0, 1, 2, 3>>] }
ClientMsgs ==
  {OfClass(cls) : cls \in DOMAIN EmptyFromClient}
  \cup { WithData("Password", TextA), WithData("Query", TextNone), WithData("CopyFail", TextA),
         WithData("CopyData", TextAB), WithData("bytes", TextAB), WithData("bytes", TextNone) }
  \cup {WithData(k, d) : k \in {"DescribeStatement", "DescribePortal", "CloseStatement", "ClosePortal"},
                         d \in {TextNone, TextA}}
  \cup { [cls |-> "Parse", name |-> TextNone, statement |-> TextAB, argtypes |-> <<23>>],
         [cls |-> "Bind", name |-> TextNone, statement |-> TextA, aformats |-> <<<<0, 1>>, <<0, 0>>>>,
          arguments |-> <<NullAtt, Att(TextNone)>>, rformats |-> <<<<0, 1>>>>],
         [cls |-> "Bind", name |-> TextA, statement |-> TextNone, aformats |-> <<>>, arguments |-> <<>>,
          rformats |-> <<>>],
         [cls |-> "Execute", name |-> TextA, max |-> 255],
         [cls |-> "Function", oid |-> 9, aformats |-> <<<<0, 1>>>>, arguments |-> <<Att(TextAB)>>,
          rformat |-> <<0, 1>>] }
OpeningMsgs ==
  { OfClass("NegotiateSSL"), [cls |-> "CancelRequest", pid |-> 7, key |-> 65536],
    [cls |-> "Startup", options |-> <<>>],
    [cls |-> "Startup", options |-> <<<<TextA, TextAB>>, <<TextAB, TextNone>>>>] }

\* Sources of parameters that contradict each other.
Envs ==
  { NoParams, [PGHOST |-> "he", PGDATABASE |-> "de"],
    [PGHOST |-> "he", PGHOSTADDR |-> "ae", PGREQUIRESSL |-> "1"],
    [PGSERVICE |-> "svc", PGHOST |-> "he", PGUSER |-> "ue"],
    [PGSERVICE |-> "svc", PGSYSCONFDIR |-> "global file"],
    [PGSERVICE |-> "svc", PGSERVICEFILE |-> "env file", PGSYSCONFDIR |-> "global file"],
    [PGSERVICE |-> "ldapsvc"], [PGPASSWORD |-> "pe", PGPASSFILE |-> "gone"],
    [PGPASSFILE |-> "gone", PGSSLMODE |-> "allow"],
    [PGSERVICE |-> "rest", PGSYSCONFDIR |-> "global file"] }
Bases ==
  {NoParams, [host |-> "hb"], [user |-> "ub", database |-> "db"], [host |-> "hb", port |-> "1"]}
CommandLines ==
  { <<>>, <<Item("host", "ho"), Item("settings.tz", "to")>>, <<Item("prompt_password", "True")>>,
    <<Item("host", "ho"), Word("pq_iri", [host |-> "hi", database |-> "di"])>>,
    <<Word("pq_iri", [host |-> "hi"]), Item("user", "uo")>> }
Services ==
  "user file" :> ( "svc" :> <<<<"hostaddr", "hs">>, <<"dbname", "ds">>, <<"tz", "ts">>>>
                   @@ "ldapsvc" :> <<<<"ldap", "url">>>> )
  @@ "other file" :> ("svc" :> <<<<"user", "us">>>>)
  @@ "global file" :> ("svc" :> <<<<"host", "hg">>>> @@ "rest" :> <<<<"pg_service", "svc">>, <<"password", "pg">>>>)
PassLine(h, d, u, w) == [host |-> h, port |-> "*", database |-> d, user |-> u, word |-> w]
Passes ==
  "home" :> << PassLine("hb", "*", "*", "w1"), PassLine("*", "de", "me", "w2"),
               PassLine("localhost", "me", "me", "w3"), PassLine("hi", "di", "*", "w4"),
               PassLine("*", "*", "ue", "w5") >>

\* Every state of the classes, one more of each family, and one of no family.
Declared == {CodeAttribute[n] : n \in ClassNames} \cup {PgCodes[n] : n \in DOMAIN PgCodes}
SomeStates == Declared \cup {<<s[1], "ZZZ">> : s \in Declared} \cup {NoSuchState}

\* Eight numbers: every pattern of two values, which is all a network can tell
\* apart.  More: blocks that interleave, repeat and reverse each other.
TwoValues == [1..8 -> {0, 1}]
SomeBlocks == { <<8, 7, 6, 5, 4, 3, 2, 1>>, <<2, 9, 4, 11, 6, 13, 8, 15>>, <<5, 5, 5, 5, 1, 1, 12, 12>>,
                <<20, 3, 19, 4, 18, 5, 17, 6>> }
FilledArrays ==
  TwoValues \cup {a \o b : a, b \in SomeBlocks}
  \cup {a \o b \o c \o d : a, b \in SomeBlocks, c, d \in {<<8, 7, 6, 5, 4, 3, 2, 1>>, <<2, 9, 4, 11, 6, 13, 8, 15>>}}
=============================================================================
