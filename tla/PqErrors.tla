------------------------------ MODULE PqErrors ------------------------------
(***************************************************************************)
(* From an SQL state to an except clause: map_errors_and_warnings and      *)
(* code_lookup of exceptions.py, the raising of errors and the emitting of *)
(* notices in pq3.py, and the clauses of the billing test that catch what  *)
(* was raised.                                                             *)
(*                                                                         *)
(* The classes come as a parameter.  The loop goes through the dictionary  *)
(* of the module in any order, which is what Python promises below 3.7,    *)
(* and only through the classes that the one lookup of the behaviour can   *)
(* find: entries of other codes are not read.                              *)
(***************************************************************************)
EXTENDS Naturals, Sequences

CONSTANTS
  Super,      \* a class |-> the classes it is a subclass of, itself included
  CodeOf,     \* a class |-> its SQL state
  PgCode,     \* the classes that have one |-> pg_code
  SqlStates   \* the states that messages carry

VARIABLES
  eMessage,   \* the message: a kind and an SQL state
  eTodo,      \* objs the loop has not seen
  eMap,       \* code_to_error or code_to_warning
  eClass,     \* the class raised or emitted
  eClause     \* thread |-> its except clause that takes the exception, 0: none does

errorVars == <<eMessage, eTodo, eMap, eClass, eClause>>

Classes == DOMAIN Super
issubclass(c, d) == d \in Super[c]

\* severity "WARNING" is looked up, any other severity is a plain Message.
Kinds == {"error", "warning", "notice"}
BareClass == [error |-> "Error", warning |-> "Warning"]
OfKind(kind) == {c \in Classes : issubclass(c, BareClass[kind])}
Root(sql) == <<sql[1], "000">>
WithCode(kind, code) == {c \in OfKind(kind) : CodeOf[c] = code}
WithPgCode(kind, code) == {c \in OfKind(kind) \cap DOMAIN PgCode : PgCode[c] = code}
Reached(kind, code) == WithCode(kind, code) \cup WithPgCode(kind, code)

\* Where classes share a code, one of them is above the others.
ASSUME TableAssumption ==
  /\ Super \in [Classes -> SUBSET Classes]
  /\ \A c \in Classes : issubclass(c, c)
  /\ \A c \in Classes, d \in Classes : issubclass(c, d) /\ issubclass(d, c) => c = d
  /\ \A c \in Classes : \A d \in Super[c] : Super[d] \subseteq Super[c]
  /\ {"Error", "Warning"} \subseteq Classes
  /\ "nothing" \notin Classes
  /\ DOMAIN CodeOf = Classes
  /\ SqlStates \subseteq STRING \X STRING
MostGeneral(S) == {c \in S : \A d \in S : issubclass(d, c)}
ASSUME GeneralAssumption ==
  \A kind \in DOMAIN BareClass : \A d \in Classes :
    WithCode(kind, CodeOf[d]) # {} => MostGeneral(WithCode(kind, CodeOf[d])) # {}
\* A pg_code is the code of no class, and its class has its codes to itself.
ASSUME PgCodeAssumption ==
  \A c \in DOMAIN PgCode :
    /\ c \in Classes
    /\ \A d \in Classes : CodeOf[d] # PgCode[c] /\ (CodeOf[d] = CodeOf[c] => d = c)
    /\ \A d \in DOMAIN PgCode : PgCode[d] = PgCode[c] => d = c

-----------------------------------------------------------------------------
(* exceptions.py *)

\* Mutant: issubclass(obj, cur_obj).
Replaces_flipped(cur, obj) == issubclass(obj, cur)
\* issubclass(cur_obj, obj): the class at the code is not the most general one.
Replaces(cur, obj) == issubclass(cur, obj)

\* container[code] = obj and container[obj.pg_code] = obj
Placed(container, codes, obj) ==
  [k \in DOMAIN container \cup codes |-> IF k \in codes THEN obj ELSE container[k]]
CodesOf(obj) == {CodeOf[obj]} \cup (IF obj \in DOMAIN PgCode THEN {PgCode[obj]} ELSE {})

\* The class at the root of a state is above every class of the family.
ASSUME FamilyAssumption ==
  \A kind \in DOMAIN BareClass : \A c \in OfKind(kind) : \A sql \in CodesOf(c) :
    \A d \in MostGeneral(Reached(kind, Root(sql))) : issubclass(c, d)

\* map_errors_and_warnings: one turn of the loop.
MapOne ==
  \E obj \in eTodo :
    /\ eTodo' = eTodo \ {obj}
    /\ eMap' = IF CodeOf[obj] \notin DOMAIN eMap \/ Replaces(eMap[CodeOf[obj]], obj)
               THEN Placed(eMap, CodesOf(obj), obj) ELSE eMap
    /\ UNCHANGED <<eMessage, eClass, eClause>>

code_lookup(default, container, sql) ==
  IF sql \in DOMAIN container THEN container[sql]
  ELSE IF Root(sql) \in DOMAIN container THEN container[Root(sql)] ELSE default

-----------------------------------------------------------------------------
(* pq3.py, TypeIO *)

\* raise_client_error and raise_server_error; emit_client_message and
\* emit_server_message.
Looked ==
  IF eMessage.kind = "notice" THEN "Message"
  ELSE code_lookup(BareClass[eMessage.kind], eMap, eMessage.sql)
RaiseOrEmit ==
  /\ eTodo = {} /\ eClass = "nothing"
  /\ eClass' = Looked
  /\ UNCHANGED <<eMessage, eTodo, eMap, eClause>>

-----------------------------------------------------------------------------
(* pg_cluster_backend.py.  ConnectionResetError is Python's own. *)

Stopped == {"QueryCanceledError", "AdminShutdownError", "CrashShutdownError", "ServerNotReadyError"}
\* The except clauses of worker_func and of cluster_specific_execute.
Clauses ==
  [ worker |-> << {"DeadlockError"}, {"ReadOnlyTransactionError"}, Stopped,
                  {"ClientCannotConnectError", "ProtocolError", "ConnectionFailureError"} >>,
    main |-> << Stopped, {"ClientCannotConnectError"} >> ]

Catches(clause, class) == \E c \in clause : issubclass(class, c)
FirstClause(clauses, class) ==
  LET taken == {i \in DOMAIN clauses : Catches(clauses[i], class)}
  IN IF taken = {} THEN 0 ELSE CHOOSE i \in taken : \A j \in taken : i <= j
Handle ==
  /\ eMessage.kind = "error" /\ eClass # "nothing" /\ eClause = <<>>
  /\ eClause' = [thread \in DOMAIN Clauses |-> FirstClause(Clauses[thread], eClass)]
  /\ UNCHANGED <<eMessage, eTodo, eMap, eClass>>

ErrorsInit ==
  /\ eMessage \in [kind : Kinds, sql : SqlStates]
  /\ eTodo = IF eMessage.kind = "notice" THEN {}
             ELSE Reached(eMessage.kind, eMessage.sql) \cup Reached(eMessage.kind, Root(eMessage.sql))
  /\ eMap = <<>> /\ eClass = "nothing" /\ eClause = <<>>
ErrorsNext == MapOne \/ RaiseOrEmit \/ Handle
ErrorsSpec == ErrorsInit /\ [][ErrorsNext]_errorVars

-----------------------------------------------------------------------------
(* Properties *)

ErrorsTypeOK ==
  /\ eMessage \in [kind : Kinds, sql : SqlStates]
  /\ eTodo \subseteq Classes
  /\ \A k \in DOMAIN eMap : eMap[k] \in Classes /\ k \in CodesOf(eMap[k])
  /\ eClass \in Classes \cup {"nothing", "Message"}

\* What exceptions.py promises for a state: the class declared for it, the most
\* general one if there are several; without one the class of its first two
\* characters; without one Error or Warning.
Promised(kind, sql) ==
  IF Reached(kind, sql) # {} THEN MostGeneral(Reached(kind, sql))
  ELSE IF Reached(kind, Root(sql)) # {} THEN MostGeneral(Reached(kind, Root(sql)))
  ELSE {BareClass[kind]}

\* The two lookups of exceptions.py give the class that is promised, whatever the
\* order in which the dictionary of the module gave the classes to the loop.
LookupAppropriate ==
  eClass # "nothing" /\ eMessage.kind # "notice" => eClass \in Promised(eMessage.kind, eMessage.sql)

\* A clause that names the class of a whole family of states (TRError for 40xxx)
\* catches every state of the family, those with a class of their own and those
\* the driver has never heard of.
FamilyCaught ==
  eClass # "nothing" /\ eMessage.kind # "notice" =>
    \A d \in Promised(eMessage.kind, Root(eMessage.sql)) : issubclass(eClass, d)

\* The states that the threads of the billing test survive, and the clause that
\* takes each, through the table, the lookup and the order of the clauses.
Survived ==
  [ worker |-> { <<<<"40", "P01">>, 1>>, <<<<"25", "006">>, 2>>, <<<<"57", "014">>, 3>>,
                 <<<<"57", "P01">>, 3>>, <<<<"57", "P02">>, 3>>, <<<<"57", "P03">>, 3>>,
                 <<<<"08", "001">>, 4>>, <<<<"08", "P01">>, 4>>, <<<<"08", "006">>, 4>> },
    main |-> { <<<<"57", "014">>, 1>>, <<<<"57", "P01">>, 1>>, <<<<"57", "P02">>, 1>>,
               <<<<"57", "P03">>, 1>>, <<<<"08", "001">>, 2>> } ]
\* A worker takes a deadlock, a read-only transaction, a shutdown and a lost
\* connection to its clause for each, and any other error of a server ends its
\* thread; the main thread survives only shutdowns and a refused connection.
HandledAsModelled ==
  eClause # <<>> =>
    \A thread \in DOMAIN Clauses :
      IF \E i \in 1 .. 4 : <<eMessage.sql, i>> \in Survived[thread]
      THEN <<eMessage.sql, eClause[thread]>> \in Survived[thread]
      ELSE eClause[thread] = 0

\* What was raised is the class that the module promises, it is caught as its
\* family, and each thread of the test takes it to the clause it has for it: the
\* way of an error from its state on the wire to the handler, as one property.
ErrorsAsPromised == LookupAppropriate /\ FamilyCaught /\ HandledAsModelled
=============================================================================
