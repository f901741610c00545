------------------------------ MODULE PqProofs ------------------------------
(***************************************************************************)
(* Proofs about the driver: the lookup of error classes, the transactions  *)
(* and the settings cache of a connection, and the scrollable cursor.      *)
(***************************************************************************)
EXTENDS PqErrors, PqSession, TLAPS, NaturalsInduction, WellFoundedInduction

(* The lookup of error classes.                                            *)

LookedUp == eMessage.kind # "notice"
\* The objs that the lookup can reach, and those the loop has seen.
Relevant == Reached(eMessage.kind, eMessage.sql) \cup Reached(eMessage.kind, Root(eMessage.sql))
Seen == Relevant \ eTodo
IsGeneral(c) == c \in MostGeneral(WithCode(eMessage.kind, CodeOf[c]))
\* What the container holds are classes that were seen, each at a code of its
\* own; no code of a class that was seen is free; and the most general class of
\* a code stays where it was put.
HoldsSeen == \A k \in DOMAIN eMap : eMap[k] \in Seen /\ k \in CodesOf(eMap[k])
NoneForgotten == \A c \in Seen : CodeOf[c] \in DOMAIN eMap
GeneralStays == \A c \in Seen : IsGeneral(c) => \A k \in CodesOf(c) : k \in DOMAIN eMap /\ eMap[k] = c
MapInv ==
  /\ eMessage \in [kind : Kinds, sql : SqlStates]
  /\ LookedUp => eTodo \subseteq Relevant /\ HoldsSeen /\ NoneForgotten /\ GeneralStays
  /\ ~LookedUp => eTodo = {}
  /\ eClass # "nothing" => eTodo = {}
ErrorsInv == MapInv /\ LookupAppropriate

\* Classes that share a code with a class that has a pg_code are that class.
LEMMA PgCodeApart ==
  ASSUME NEW c \in Classes, NEW d \in Classes, NEW k, k \in CodesOf(c), k \in CodesOf(d), c # d
  PROVE  k = CodeOf[c] /\ k = CodeOf[d]
BY PgCodeAssumption DEF CodesOf

\* One turn of the loop keeps the invariant.
LEMMA MapOneKeeps ==
  ASSUME MapInv, LookedUp, NEW obj \in eTodo, eTodo' = eTodo \ {obj}, UNCHANGED eMessage,
         eMap' = IF CodeOf[obj] \notin DOMAIN eMap \/ Replaces(eMap[CodeOf[obj]], obj)
                 THEN Placed(eMap, CodesOf(obj), obj) ELSE eMap
  PROVE  (HoldsSeen /\ NoneForgotten /\ GeneralStays)'
<1> DEFINE k0 == CodeOf[obj]
           stores == k0 \notin DOMAIN eMap \/ Replaces(eMap[k0], obj)
<1>1. /\ HoldsSeen /\ NoneForgotten /\ GeneralStays
      /\ obj \in Relevant /\ obj \notin Seen /\ Seen' = Seen \cup {obj} /\ Relevant' = Relevant
      /\ \A c : IsGeneral(c)' <=> IsGeneral(c)
  BY DEF MapInv, LookedUp, Seen, Relevant, IsGeneral
<1>2. Relevant \subseteq OfKind(eMessage.kind) /\ Relevant \subseteq Classes
  BY DEF Relevant, Reached, WithCode, WithPgCode, OfKind
<1>3. \A c \in Relevant : c \in WithCode(eMessage.kind, CodeOf[c])
  BY <1>2 DEF WithCode
<1>4. k0 \in CodesOf(obj)
  BY DEF CodesOf
<1>5. CASE stores
  <2>1. /\ DOMAIN eMap' = DOMAIN eMap \cup CodesOf(obj)
        /\ \A k \in CodesOf(obj) : eMap'[k] = obj
        /\ \A k \in DOMAIN eMap \ CodesOf(obj) : eMap'[k] = eMap[k]
    BY <1>5 DEF Placed
  <2>2. HoldsSeen'
    BY <1>1, <2>1 DEF HoldsSeen, CodesOf
  <2>3. NoneForgotten'
    BY <1>1, <1>4, <2>1 DEF NoneForgotten
  <2>4. ASSUME NEW c \in Seen, IsGeneral(c), NEW k \in CodesOf(c) PROVE k \notin CodesOf(obj)
    <3>1. SUFFICES ASSUME k \in CodesOf(obj) PROVE FALSE
      OBVIOUS
    <3>2. c \in Classes /\ obj \in Classes /\ c # obj /\ c \in Relevant
      BY <1>1, <1>2 DEF Seen
    <3>3. k = CodeOf[c] /\ k = k0
      BY <2>4, <3>1, <3>2, PgCodeApart
    <3>4. k0 \in DOMAIN eMap /\ eMap[k0] = c
      BY <1>1, <2>4, <3>3 DEF GeneralStays
    <3>5. issubclass(c, obj)
      BY <1>5, <3>4 DEF Replaces
    <3>6. issubclass(obj, c)
      BY <1>1, <1>3, <2>4, <3>3 DEF IsGeneral, MostGeneral
    <3> QED
      BY <3>2, <3>5, <3>6, TableAssumption
  <2>5. GeneralStays'
    <3>1. SUFFICES ASSUME NEW c \in Seen', IsGeneral(c), NEW k \in CodesOf(c)
                   PROVE  k \in DOMAIN eMap' /\ eMap'[k] = c
      BY <1>1 DEF GeneralStays, CodesOf
    <3>2. CASE c = obj
      BY <2>1, <3>2
    <3>3. CASE c # obj
      <4>1. c \in Seen
        BY <1>1, <3>3
      <4>2. k \in DOMAIN eMap /\ eMap[k] = c
        BY <1>1, <3>1, <4>1 DEF GeneralStays
      <4> QED
        BY <2>1, <2>4, <3>1, <4>1, <4>2
    <3> QED
      BY <3>2, <3>3
  <2> QED
    BY <2>2, <2>3, <2>5
<1>6. CASE ~stores
  <2>1. eMap' = eMap /\ k0 \in DOMAIN eMap /\ ~issubclass(eMap[k0], obj)
    BY <1>6 DEF Replaces
  <2>2. HoldsSeen' /\ NoneForgotten'
    BY <1>1, <2>1 DEF HoldsSeen, NoneForgotten, CodesOf
  <2>3. ~IsGeneral(obj)
    <3>1. eMap[k0] \in Seen /\ k0 \in CodesOf(eMap[k0])
      BY <1>1, <2>1 DEF HoldsSeen
    <3>2. eMap[k0] # obj /\ eMap[k0] \in Classes /\ obj \in Classes /\ eMap[k0] \in Relevant
      BY <1>1, <1>2, <3>1 DEF Seen
    <3>3. CodeOf[eMap[k0]] = k0
      BY <1>4, <3>1, <3>2, PgCodeApart
    <3>4. eMap[k0] \in WithCode(eMessage.kind, k0)
      BY <1>3, <3>2, <3>3
    <3> QED
      BY <2>1, <3>4 DEF IsGeneral, MostGeneral
  <2>4. GeneralStays'
    BY <1>1, <2>1, <2>3 DEF GeneralStays, CodesOf
  <2> QED
    BY <2>2, <2>4
<1> QED
  BY <1>5, <1>6

\* When the loop is done, a code is mapped exactly if some class reaches it, and
\* then to the most general one.
LEMMA MapComplete ==
  ASSUME MapInv, LookedUp, eTodo = {}, NEW k \in {eMessage.sql, Root(eMessage.sql)}
  PROVE  /\ k \in DOMAIN eMap => eMap[k] \in MostGeneral(Reached(eMessage.kind, k))
         /\ k \notin DOMAIN eMap => Reached(eMessage.kind, k) = {}
<1> DEFINE kind == eMessage.kind
<1>1. /\ HoldsSeen /\ NoneForgotten /\ GeneralStays
      /\ Seen = Relevant /\ Reached(kind, k) \subseteq Relevant
      /\ kind \in DOMAIN BareClass
  BY DEF MapInv, LookedUp, Seen, Relevant, Kinds, BareClass
<1>2. Relevant \subseteq OfKind(kind) /\ Relevant \subseteq Classes
  BY DEF Relevant, Reached, WithCode, WithPgCode, OfKind
<1>3. \A c \in Relevant : k \in CodesOf(c) <=> c \in Reached(kind, k)
  BY <1>2 DEF CodesOf, Reached, WithCode, WithPgCode
<1>4. ASSUME NEW c \in WithPgCode(kind, k)
      PROVE  Reached(kind, k) = {c} /\ k \in DOMAIN eMap /\ eMap[k] = c /\ issubclass(c, c)
  <2>1. c \in Relevant /\ c \in Classes /\ c \in DOMAIN PgCode /\ PgCode[c] = k /\ k \in CodesOf(c)
    BY <1>1, <1>2, <1>4 DEF Reached, WithPgCode, CodesOf
  <2>2. WithCode(kind, CodeOf[c]) = {c}
    BY <1>2, <2>1, PgCodeAssumption DEF WithCode, OfKind
  <2>3. IsGeneral(c) /\ issubclass(c, c)
    BY <2>1, <2>2, TableAssumption DEF IsGeneral, MostGeneral
  <2>4. Reached(kind, k) = {c}
    BY <1>4, <2>1, PgCodeAssumption DEF Reached, WithCode, WithPgCode, OfKind
  <2> QED
    BY <1>1, <2>1, <2>3, <2>4 DEF GeneralStays
<1>5. ASSUME NEW c \in WithCode(kind, k), WithPgCode(kind, k) = {}
      PROVE  k \in DOMAIN eMap /\ eMap[k] \in MostGeneral(Reached(kind, k))
  <2>1. Reached(kind, k) = WithCode(kind, k) /\ CodeOf[c] = k /\ c \in Classes
    BY <1>5 DEF Reached, WithCode, OfKind
  <2>2. PICK g : g \in MostGeneral(WithCode(kind, k))
    BY <1>1, <1>5, <2>1, GeneralAssumption
  <2>3. g \in Relevant /\ CodeOf[g] = k /\ k \in CodesOf(g)
    BY <1>1, <2>1, <2>2 DEF MostGeneral, WithCode, CodesOf
  <2>4. IsGeneral(g)
    BY <2>2, <2>3 DEF IsGeneral
  <2> QED
    BY <1>1, <2>1, <2>2, <2>3, <2>4 DEF GeneralStays
<1>6. k \in DOMAIN eMap => Reached(kind, k) # {}
  BY <1>1, <1>3 DEF HoldsSeen
<1>7. CASE WithPgCode(kind, k) # {}
  BY <1>4, <1>7 DEF MostGeneral
<1>8. CASE WithPgCode(kind, k) = {}
  BY <1>5, <1>6, <1>8 DEF Reached
<1> QED
  BY <1>7, <1>8

LEMMA LookupStep == ErrorsInv /\ [ErrorsNext]_errorVars => ErrorsInv'
<1> SUFFICES ASSUME ErrorsInv, [ErrorsNext]_errorVars PROVE ErrorsInv'
  OBVIOUS
<1>1. CASE MapOne
  <2>1. PICK obj \in eTodo :
          /\ eTodo' = eTodo \ {obj}
          /\ eMap' = IF CodeOf[obj] \notin DOMAIN eMap \/ Replaces(eMap[CodeOf[obj]], obj)
                     THEN Placed(eMap, CodesOf(obj), obj) ELSE eMap
    BY <1>1 DEF MapOne
  <2>2. UNCHANGED <<eMessage, eClass, eClause>>
    BY <1>1 DEF MapOne
  <2>3. LookedUp /\ eClass = "nothing"
    BY <2>1 DEF ErrorsInv, MapInv
  <2>4. (HoldsSeen /\ NoneForgotten /\ GeneralStays)'
    BY <2>1, <2>2, <2>3, MapOneKeeps DEF ErrorsInv
  <2> QED
    BY <2>1, <2>2, <2>3, <2>4 DEF ErrorsInv, MapInv, LookedUp, Relevant, LookupAppropriate
<1>2. CASE RaiseOrEmit
  <2>1. MapInv'
    BY <1>2 DEF RaiseOrEmit, ErrorsInv, MapInv, LookedUp, Relevant, Seen, HoldsSeen, NoneForgotten,
                GeneralStays, IsGeneral
  <2>2. ASSUME LookedUp PROVE Looked \in Promised(eMessage.kind, eMessage.sql)
    BY <1>2, <2>2, MapComplete
       DEF RaiseOrEmit, ErrorsInv, LookedUp, Looked, code_lookup, Promised, MostGeneral
  <2>3. LookupAppropriate'
    BY <1>2, <2>2 DEF RaiseOrEmit, LookupAppropriate, LookedUp
  <2> QED
    BY <2>1, <2>3 DEF ErrorsInv
<1>3. CASE Handle \/ UNCHANGED errorVars
  BY <1>3 DEF Handle, errorVars, ErrorsInv, MapInv, LookedUp, Relevant, Seen, HoldsSeen, NoneForgotten,
              GeneralStays, IsGeneral, LookupAppropriate
<1> QED
  BY <1>1, <1>2, <1>3 DEF ErrorsNext

\* The lookups of exceptions.py give the class that the module promises for a
\* state, for every table of classes and every order in which they are mapped.
THEOREM LookupTheorem == ErrorsSpec => []LookupAppropriate
<1>1. ErrorsInit => ErrorsInv
  BY DEF ErrorsInit, ErrorsInv, MapInv, LookedUp, Relevant, Seen, HoldsSeen, NoneForgotten, GeneralStays,
         LookupAppropriate
<1>2. ErrorsInv => LookupAppropriate
  BY DEF ErrorsInv
<1> QED
  BY <1>1, <1>2, LookupStep, PTL DEF ErrorsSpec

\* An except clause on the class of a family catches every error of the family,
\* the states that no class declares included.
THEOREM FamilyTheorem == ErrorsSpec => []FamilyCaught
<1>1. ErrorsInit => ErrorsInv
  BY DEF ErrorsInit, ErrorsInv, MapInv, LookedUp, Relevant, Seen, HoldsSeen, NoneForgotten, GeneralStays,
         LookupAppropriate
<1>2. ErrorsInv => FamilyCaught
  <2> SUFFICES ASSUME ErrorsInv, eClass # "nothing", eMessage.kind # "notice",
                      NEW d \in Promised(eMessage.kind, Root(eMessage.sql))
               PROVE  issubclass(eClass, d)
    BY DEF FamilyCaught
  <2> DEFINE kind == eMessage.kind
             sql == eMessage.sql
  <2>1. eClass \in Promised(kind, sql) /\ kind \in DOMAIN BareClass
    BY DEF ErrorsInv, MapInv, LookupAppropriate, Kinds, BareClass
  <2>2. Root(Root(sql)) = Root(sql)
    BY DEF Root
  <2>3. \A code : Reached(kind, code) \subseteq OfKind(kind)
    BY DEF Reached, WithCode, WithPgCode
  <2>4. BareClass[kind] \in Classes /\ issubclass(BareClass[kind], BareClass[kind])
    BY <2>1, TableAssumption DEF BareClass
  <2>5. CASE Reached(kind, sql) # {} /\ Reached(kind, Root(sql)) # {}
    <3>1. eClass \in Reached(kind, sql) /\ d \in MostGeneral(Reached(kind, Root(sql)))
      BY <2>1, <2>5 DEF Promised, MostGeneral
    <3>2. eClass \in OfKind(kind) /\ sql \in CodesOf(eClass)
      BY <2>3, <3>1 DEF Reached, WithCode, WithPgCode, CodesOf
    <3> QED
      BY <2>1, <3>1, <3>2, FamilyAssumption
  <2>6. CASE Reached(kind, sql) = {} /\ Reached(kind, Root(sql)) # {}
    BY <2>1, <2>6 DEF Promised, MostGeneral
  <2>7. CASE Reached(kind, Root(sql)) = {}
    <3>1. d = BareClass[kind]
      BY <2>2, <2>7 DEF Promised
    <3>2. eClass \in OfKind(kind) \/ eClass = BareClass[kind]
      BY <2>1, <2>3, <2>7 DEF Promised, MostGeneral
    <3> QED
      BY <2>4, <3>1, <3>2 DEF OfKind
  <2> QED
    BY <2>5, <2>6, <2>7
<1> QED
  BY <1>1, <1>2, LookupStep, PTL DEF ErrorsSpec

-----------------------------------------------------------------------------
(* Transactions and settings of a session.                                 *)

Saves == [id : Nat, vals : [Keys -> 0..1], work : SUBSET Nat]
Servers == [st : {"I", "T", "E", "lost"}, vals : [Keys -> 0..1], work : SUBSET Nat, saves : Seq(Saves)]
Frames == [ kind : {"xact", "settings"}, type : {"block", "savepoint", "none"},
            state : {"open", "committed", "aborted"}, items : SUBSET Nat, called : BOOLEAN,
            key : Keys, stored : -1..1, pre : 0..1, trusted : BOOLEAN ]
Typed ==
  /\ sSrv \in Servers /\ sCache \in [Keys -> -1..1] /\ sFrames \in Seq(Frames)
  /\ sExc \in {"none", "error", "base"}
  /\ sLog \in [based : BOOLEAN, stale : BOOLEAN, written : Nat, sets : Nat]

\* A failed command fails the block, and changes nothing else.
LEMMA RefusedEffect ==
  ASSUME NEW srv \in Servers
  PROVE  /\ RefusedBy(srv).srv \in Servers /\ RefusedBy(srv).ok = FALSE
         /\ RefusedBy(srv).srv.st = IF srv.st = "T" THEN "E" ELSE srv.st
         /\ RefusedBy(srv).srv.vals = srv.vals /\ RefusedBy(srv).srv.work = srv.work
         /\ RefusedBy(srv).srv.saves = srv.saves
BY DEF RefusedBy, Servers

\* The end of a block leaves nothing of it on the server but its rows.
LEMMA IdledEffect ==
  ASSUME NEW srv \in Servers
  PROVE  /\ Idled(srv) \in Servers /\ Idled(srv).st = "I" /\ Idled(srv).saves = <<>>
         /\ Idled(srv).vals = srv.vals /\ Idled(srv).work = srv.work
<1>1. <<>> \in Seq(Saves)
  OBVIOUS
<1> QED
  BY <1>1 DEF Idled, Servers

LEMMA BackEffect ==
  ASSUME NEW srv \in Servers, NEW save \in Saves
  PROVE  /\ BackTo(srv, save) \in Servers /\ BackTo(srv, save).st = srv.st
         /\ BackTo(srv, save).saves = srv.saves
         /\ BackTo(srv, save).vals = save.vals /\ BackTo(srv, save).work = save.work
BY DEF BackTo, Servers, Saves

LEMMA AbortedEffect ==
  ASSUME NEW srv \in Servers
  PROVE  /\ Aborted(srv) \in Servers
         /\ srv.saves = <<>> => Aborted(srv) = srv
         /\ srv.saves # <<>> => /\ Aborted(srv).st = "I" /\ Aborted(srv).saves = <<>>
                                /\ Aborted(srv).vals = srv.saves[1].vals
                                /\ Aborted(srv).work = srv.saves[1].work
<1>1. CASE srv.saves = <<>>
  BY <1>1 DEF Aborted
<1>2. CASE srv.saves # <<>>
  <2>1. srv.saves[1] \in Saves
    BY <1>2 DEF Servers
  <2> QED
    BY <1>2, <2>1, BackEffect, IdledEffect DEF Aborted
<1> QED
  BY <1>1, <1>2

\* The commands of Transaction and Settings on a well-formed session.
LEMMA BeginEffect ==
  ASSUME NEW srv \in Servers
  PROVE  /\ Begin(srv).srv \in Servers /\ Begin(srv).ok \in BOOLEAN
         /\ Begin(srv).ok <=> srv.st = "I"
         /\ Begin(srv).srv.vals = srv.vals
         /\ Begin(srv).ok => /\ Begin(srv).srv.st = "T" /\ Begin(srv).srv.work = {}
                             /\ Begin(srv).srv.saves = <<[id |-> 0, vals |-> srv.vals, work |-> {}]>>
         /\ ~Begin(srv).ok => Begin(srv) = RefusedBy(srv)
<1>1. CASE srv.st = "I"
  <2>1. [id |-> 0, vals |-> srv.vals, work |-> {}] \in Saves
    BY DEF Saves, Servers
  <2>2. <<[id |-> 0, vals |-> srv.vals, work |-> {}]>> \in Seq(Saves)
    BY <2>1
  <2>3. Begin(srv) = [srv |-> [st |-> "T", vals |-> srv.vals, work |-> {},
                               saves |-> <<[id |-> 0, vals |-> srv.vals, work |-> {}]>>], ok |-> TRUE]
    BY <1>1 DEF Begin, Does, Servers
  <2>4. Begin(srv).srv \in Servers
    BY <1>1, <2>2, <2>3 DEF Servers
  <2> QED
    BY <1>1, <2>3, <2>4
<1>2. CASE srv.st # "I"
  BY <1>2, RefusedEffect DEF Begin
<1> QED
  BY <1>1, <1>2

LEMMA SavepointEffect ==
  ASSUME NEW srv \in Servers, NEW id \in Nat
  PROVE  /\ Savepoint(srv, id).srv \in Servers /\ Savepoint(srv, id).ok \in BOOLEAN
         /\ Savepoint(srv, id).ok <=> srv.st = "T"
         /\ Savepoint(srv, id).srv.vals = srv.vals /\ Savepoint(srv, id).srv.work = srv.work
         /\ Savepoint(srv, id).ok =>
              /\ Savepoint(srv, id).srv.st = "T"
              /\ Savepoint(srv, id).srv.saves =
                   Append(srv.saves, [id |-> id, vals |-> srv.vals, work |-> srv.work])
         /\ ~Savepoint(srv, id).ok => Savepoint(srv, id) = RefusedBy(srv)
<1> DEFINE save == [id |-> id, vals |-> srv.vals, work |-> srv.work]
<1>1. CASE srv.st = "T"
  <2>1. save \in Saves /\ Append(srv.saves, save) \in Seq(Saves)
    BY DEF Saves, Servers
  <2>2. Savepoint(srv, id) = [srv |-> [st |-> "T", vals |-> srv.vals, work |-> srv.work,
                                       saves |-> Append(srv.saves, save)], ok |-> TRUE]
    BY <1>1 DEF Savepoint, Does, Servers
  <2> QED
    BY <1>1, <2>1, <2>2 DEF Servers
<1>2. CASE srv.st # "T"
  BY <1>2, RefusedEffect DEF Savepoint
<1> QED
  BY <1>1, <1>2

LEMMA CommitEffect ==
  ASSUME NEW srv \in Servers
  PROVE  /\ CommitBlock(srv).srv \in Servers /\ CommitBlock(srv).ok \in BOOLEAN
         /\ srv.st = "lost" => CommitBlock(srv) = RefusedBy(srv)
         /\ srv.st = "E" => CommitBlock(srv) = Does(Aborted(srv))
         /\ srv.st \in {"I", "T"} => CommitBlock(srv) = Does(Idled(srv))
<1>1. srv.st \in {"I", "T", "E", "lost"}
  BY DEF Servers
<1>2. Does(Idled(srv)).srv \in Servers /\ Does(Aborted(srv)).srv \in Servers
  BY AbortedEffect, IdledEffect DEF Does
<1>3. RefusedBy(srv).srv \in Servers /\ RefusedBy(srv).ok \in BOOLEAN
  BY RefusedEffect
<1> QED
  BY <1>1, <1>2, <1>3 DEF CommitBlock, Does

LEMMA AbortEffect ==
  ASSUME NEW srv \in Servers
  PROVE  /\ AbortBlock(srv).srv \in Servers /\ AbortBlock(srv).ok \in BOOLEAN
         /\ srv.st = "lost" => AbortBlock(srv) = RefusedBy(srv)
         /\ srv.st # "lost" => AbortBlock(srv) = Does(Aborted(srv))
<1>1. Does(Aborted(srv)).srv \in Servers
  BY AbortedEffect DEF Does
<1>2. RefusedBy(srv).srv \in Servers /\ RefusedBy(srv).ok \in BOOLEAN
  BY RefusedEffect
<1> QED
  BY <1>1, <1>2 DEF AbortBlock, Does

\* A set of naturals has a least member, a bounded one a greatest.
LEMMA Smallest ==
  ASSUME NEW T \in SUBSET Nat, T # {}
  PROVE  \E x \in T : \A y \in T : x <= y
<1>1. IsWellFoundedOn(OpToRel(<, Nat), Nat)
  BY NatLessThanWellFounded
<1>2. PICK x \in T : \A y \in T : ~(<<y, x>> \in OpToRel(<, Nat))
  BY <1>1, WFMin
<1>3. ASSUME NEW y \in T PROVE x <= y
  <2>1. x \in Nat /\ y \in Nat
    OBVIOUS
  <2>2. y < x => <<y, x>> \in OpToRel(<, Nat)
    BY <2>1, Zenon DEF OpToRel
  <2>3. ~(y < x)
    BY <1>2, <2>2
  <2> QED
    BY <2>1, <2>3
<1> QED
  BY <1>3

LEMMA Largest ==
  ASSUME NEW n \in Nat, NEW T \in SUBSET (0..n), T # {}
  PROVE  \E x \in T : \A y \in T : y <= x
<1> DEFINE below == {n - i : i \in T}
<1>1. below \in SUBSET Nat /\ below # {}
  <2>1. \A i \in T : i \in 0..n /\ n - i \in Nat
    OBVIOUS
  <2> QED
    BY <2>1
<1>2. PICK m \in below : \A y \in below : m <= y
  BY <1>1, Smallest
<1>3. PICK x \in T : m = n - x
  BY <1>2
<1>4. \A y \in T : n - y \in below
  OBVIOUS
<1>5. \A y \in T : y <= x
  BY <1>2, <1>3, <1>4
<1> QED
  BY <1>5

\* The newest savepoint of an id, if there is one.
LEMMA NewestSaved ==
  ASSUME NEW srv \in Servers, NEW id, Saved(srv, id) # {}
  PROVE  /\ Newest(srv, id) \in Saved(srv, id)
         /\ Newest(srv, id) \in 2..Len(srv.saves) /\ srv.saves[Newest(srv, id)].id = id
         /\ \A j \in Saved(srv, id) : j <= Newest(srv, id)
<1>1. Saved(srv, id) \subseteq 2..Len(srv.saves) /\ Len(srv.saves) \in Nat
  BY DEF Saved, Servers
<1>2. Saved(srv, id) \subseteq 0..Len(srv.saves)
  BY <1>1
<1>3. \E i \in Saved(srv, id) : \A j \in Saved(srv, id) : j <= i
  BY <1>1, <1>2, Largest
<1>4. Newest(srv, id) \in Saved(srv, id) /\ \A j \in Saved(srv, id) : j <= Newest(srv, id)
  BY <1>3 DEF Newest
<1> QED
  BY <1>1, <1>4 DEF Saved

LEMMA ReleaseEffect ==
  ASSUME NEW srv \in Servers, NEW id
  PROVE  /\ ReleaseTo(srv, id).srv \in Servers /\ ReleaseTo(srv, id).ok \in BOOLEAN
         /\ ReleaseTo(srv, id).ok <=> srv.st = "T" /\ Saved(srv, id) # {}
         /\ ReleaseTo(srv, id).srv.vals = srv.vals /\ ReleaseTo(srv, id).srv.work = srv.work
         /\ ReleaseTo(srv, id).ok =>
              /\ ReleaseTo(srv, id).srv.st = "T"
              /\ ReleaseTo(srv, id).srv.saves = SubSeq(srv.saves, 1, Newest(srv, id) - 1)
         /\ ~ReleaseTo(srv, id).ok => ReleaseTo(srv, id) = RefusedBy(srv)
<1>1. CASE srv.st = "T" /\ Saved(srv, id) # {}
  <2>1. Newest(srv, id) \in 2..Len(srv.saves)
    BY <1>1, NewestSaved
  <2>2. PICK left \in Seq(Saves) : left = SubSeq(srv.saves, 1, Newest(srv, id) - 1)
    <3>1. SubSeq(srv.saves, 1, Newest(srv, id) - 1) \in Seq(Saves)
      BY <2>1 DEF Servers
    <3> QED
      BY <3>1
  <2>3. ReleaseTo(srv, id) = Does([srv EXCEPT !.saves = left])
    BY <1>1, <2>2 DEF ReleaseTo
  <2>4. /\ ReleaseTo(srv, id).srv \in Servers /\ ReleaseTo(srv, id).srv.st = srv.st
        /\ ReleaseTo(srv, id).srv.vals = srv.vals /\ ReleaseTo(srv, id).srv.work = srv.work
        /\ ReleaseTo(srv, id).srv.saves = left
    BY <2>3 DEF Does, Servers
  <2>5. ReleaseTo(srv, id).ok = TRUE
    BY <2>3 DEF Does
  <2> QED
    BY <1>1, <2>2, <2>4, <2>5
<1>2. CASE ~(srv.st = "T" /\ Saved(srv, id) # {})
  BY <1>2, RefusedEffect DEF ReleaseTo
<1> QED
  BY <1>1, <1>2

LEMMA RollbackEffect ==
  ASSUME NEW srv \in Servers, NEW id
  PROVE  /\ RollbackTo(srv, id).srv \in Servers /\ RollbackTo(srv, id).ok \in BOOLEAN
         /\ RollbackTo(srv, id).ok <=> srv.st \in {"T", "E"} /\ Saved(srv, id) # {}
         /\ RollbackTo(srv, id).ok =>
              /\ RollbackTo(srv, id).srv.st = "T"
              /\ RollbackTo(srv, id).srv.vals = srv.saves[Newest(srv, id)].vals
              /\ RollbackTo(srv, id).srv.work = srv.saves[Newest(srv, id)].work
              /\ RollbackTo(srv, id).srv.saves = SubSeq(srv.saves, 1, Newest(srv, id) - 1)
         /\ ~RollbackTo(srv, id).ok => RollbackTo(srv, id) = RefusedBy(srv)
<1>1. CASE srv.st \in {"T", "E"} /\ Saved(srv, id) # {}
  <2> DEFINE n == Newest(srv, id)
  <2>1. n \in 2..Len(srv.saves) /\ srv.saves[n] \in Saves
    BY <1>1, NewestSaved DEF Servers
  <2>2. PICK left \in Seq(Saves) : left = SubSeq(srv.saves, 1, n - 1)
    <3>1. SubSeq(srv.saves, 1, n - 1) \in Seq(Saves)
      BY <2>1 DEF Servers
    <3> QED
      BY <3>1
  <2>3. PICK back \in Servers : /\ back = BackTo(srv, srv.saves[n]) /\ back.saves = srv.saves
                                /\ back.vals = srv.saves[n].vals /\ back.work = srv.saves[n].work
    BY <2>1, BackEffect
  <2>4. PICK after : after = [back EXCEPT !.st = "T", !.saves = left]
    OBVIOUS
  <2>5. RollbackTo(srv, id) = Does(after)
    BY <1>1, <2>2, <2>3, <2>4 DEF RollbackTo
  <2>6. /\ after \in Servers /\ after.st = "T" /\ after.saves = left
        /\ after.vals = back.vals /\ after.work = back.work
    BY <2>4 DEF Servers
  <2>7. RollbackTo(srv, id).srv = after /\ RollbackTo(srv, id).ok = TRUE
    BY <2>5 DEF Does
  <2> QED
    BY <1>1, <2>2, <2>3, <2>6, <2>7
<1>2. CASE ~(srv.st \in {"T", "E"} /\ Saved(srv, id) # {})
  BY <1>2, RefusedEffect DEF RollbackTo
<1> QED
  BY <1>1, <1>2

LEMMA SetEffect ==
  ASSUME NEW srv \in Servers, NEW k \in Keys, NEW v \in 0..1
  PROVE  /\ SetTo(srv, k, v).srv \in Servers /\ SetTo(srv, k, v).ok \in BOOLEAN
         /\ SetTo(srv, k, v).ok <=> srv.st \in {"I", "T"}
         /\ SetTo(srv, k, v).ok =>
              /\ SetTo(srv, k, v).srv.vals = [srv.vals EXCEPT ![k] = v]
              /\ SetTo(srv, k, v).srv.st = srv.st /\ SetTo(srv, k, v).srv.work = srv.work
              /\ SetTo(srv, k, v).srv.saves = srv.saves
         /\ ~SetTo(srv, k, v).ok => SetTo(srv, k, v) = RefusedBy(srv)
<1>1. CASE srv.st \in {"I", "T"}
  <2>1. SetTo(srv, k, v) = Does([srv EXCEPT !.vals[k] = v])
    BY <1>1 DEF SetTo, Servers
  <2>2. [srv.vals EXCEPT ![k] = v] \in [Keys -> 0..1]
    BY DEF Servers
  <2> QED
    BY <1>1, <2>1, <2>2 DEF Does, Servers
<1>2. CASE srv.st \notin {"I", "T"}
  BY <1>2, RefusedEffect DEF SetTo
<1> QED
  BY <1>1, <1>2

\* A command other than BEGIN opens no block, and a lost session stays lost.
InBlock(srv) == srv.st \in {"T", "E"}
Sound(srv) == InBlock(srv) <=> srv.saves # <<>>
Steady(srv, srv2) ==
  /\ srv2 \in Servers /\ Sound(srv2)
  /\ InBlock(srv2) => InBlock(srv)
  /\ srv.st = "lost" => srv2 = srv

LEMMA CommandsSteady ==
  ASSUME NEW srv \in Servers, Sound(srv)
  PROVE  /\ Steady(srv, srv) /\ Steady(srv, RefusedBy(srv).srv)
         /\ Steady(srv, CommitBlock(srv).srv) /\ ~InBlock(CommitBlock(srv).srv)
         /\ Steady(srv, AbortBlock(srv).srv) /\ ~InBlock(AbortBlock(srv).srv)
         /\ \A id \in Nat : /\ Steady(srv, Savepoint(srv, id).srv)
                            /\ Steady(srv, ReleaseTo(srv, id).srv)
                            /\ Steady(srv, RollbackTo(srv, id).srv)
         /\ \A k \in Keys, v \in 0..1 : Steady(srv, SetTo(srv, k, v).srv)
<1>1. srv.st \in {"I", "T", "E", "lost"} /\ srv.saves \in Seq(Saves)
  BY DEF Servers
<1>2. Steady(srv, srv)
  BY DEF Steady
<1>3. Steady(srv, RefusedBy(srv).srv)
  <2>1. srv.st = "lost" => RefusedBy(srv).srv = srv
    BY DEF RefusedBy, Servers
  <2> QED
    BY <1>1, <2>1, RefusedEffect DEF Steady, Sound, InBlock
<1>4. Steady(srv, CommitBlock(srv).srv) /\ ~InBlock(CommitBlock(srv).srv)
  <2>1. CASE srv.st = "lost"
    BY <1>3, <2>1, RefusedEffect, CommitEffect DEF InBlock
  <2>2. CASE srv.st = "E"
    BY <2>2, CommitEffect, AbortedEffect DEF Steady, Sound, InBlock, Does
  <2>3. CASE srv.st \in {"I", "T"}
    BY <2>3, CommitEffect, IdledEffect DEF Steady, Sound, InBlock, Does
  <2> QED
    BY <1>1, <2>1, <2>2, <2>3
<1>5. Steady(srv, AbortBlock(srv).srv) /\ ~InBlock(AbortBlock(srv).srv)
  <2>1. CASE srv.st = "lost"
    BY <1>3, <2>1, RefusedEffect, AbortEffect DEF InBlock
  <2>2. CASE srv.st # "lost"
    BY <1>1, <2>2, AbortEffect, AbortedEffect DEF Steady, Sound, InBlock, Does
  <2> QED
    BY <2>1, <2>2
<1>6. ASSUME NEW id \in Nat
      PROVE  /\ Steady(srv, Savepoint(srv, id).srv)
             /\ Steady(srv, ReleaseTo(srv, id).srv) /\ Steady(srv, RollbackTo(srv, id).srv)
  <2>1. Steady(srv, Savepoint(srv, id).srv)
    <3>1. CASE srv.st = "T"
      <4>1. Append(srv.saves, [id |-> id, vals |-> srv.vals, work |-> srv.work]) # <<>>
        BY <1>1
      <4> QED
        BY <3>1, <4>1, SavepointEffect DEF Steady, Sound, InBlock
    <3>2. CASE srv.st # "T"
      BY <1>3, <3>2, SavepointEffect
    <3> QED
      BY <3>1, <3>2
  <2>2. ASSUME Saved(srv, id) # {}
        PROVE  SubSeq(srv.saves, 1, Newest(srv, id) - 1) # <<>>
    <3>1. Newest(srv, id) \in 2..Len(srv.saves)
      BY <2>2, NewestSaved
    <3>2. Len(SubSeq(srv.saves, 1, Newest(srv, id) - 1)) = Newest(srv, id) - 1
      BY <1>1, <3>1
    <3> QED
      BY <3>1, <3>2
  <2>3. Steady(srv, ReleaseTo(srv, id).srv)
    <3>1. CASE srv.st = "T" /\ Saved(srv, id) # {}
      BY <2>2, <3>1, ReleaseEffect DEF Steady, Sound, InBlock
    <3>2. CASE ~(srv.st = "T" /\ Saved(srv, id) # {})
      BY <1>3, <3>2, ReleaseEffect
    <3> QED
      BY <3>1, <3>2
  <2>4. Steady(srv, RollbackTo(srv, id).srv)
    <3>1. CASE srv.st \in {"T", "E"} /\ Saved(srv, id) # {}
      BY <2>2, <3>1, RollbackEffect DEF Steady, Sound, InBlock
    <3>2. CASE ~(srv.st \in {"T", "E"} /\ Saved(srv, id) # {})
      BY <1>3, <3>2, RollbackEffect
    <3> QED
      BY <3>1, <3>2
  <2> QED
    BY <2>1, <2>3, <2>4
<1>7. ASSUME NEW k \in Keys, NEW v \in 0..1 PROVE Steady(srv, SetTo(srv, k, v).srv)
  <2>1. CASE srv.st \in {"I", "T"}
    <3>1. /\ SetTo(srv, k, v).srv \in Servers /\ SetTo(srv, k, v).srv.st = srv.st
          /\ SetTo(srv, k, v).srv.saves = srv.saves
      BY <2>1, SetEffect
    <3> QED
      BY <2>1, <3>1 DEF Steady, Sound, InBlock
  <2>2. CASE srv.st \notin {"I", "T"}
    BY <1>3, <2>2, SetEffect
  <2> QED
    BY <2>1, <2>2
<1> QED
  BY <1>2, <1>3, <1>4, <1>5, <1>6, <1>7

LEMMA ElementsOf ==
  ASSUME NEW S, NEW s \in Seq(S)
  PROVE  Len(s) \in Nat /\ DOMAIN s = 1..Len(s) /\ \A i \in 1..Len(s) : s[i] \in S
OBVIOUS

LEMMA Prefix ==
  ASSUME NEW S, NEW s \in Seq(S), NEW n \in 0..Len(s)
  PROVE  /\ SubSeq(s, 1, n) \in Seq(S) /\ Len(SubSeq(s, 1, n)) = n
         /\ \A i \in 1..n : SubSeq(s, 1, n)[i] = s[i]
OBVIOUS

\* The with blocks the program is in.
LEMMA FramesFacts ==
  ASSUME sFrames \in Seq(Frames), sFrames # <<>>
  PROVE  /\ Top = sFrames[Len(sFrames)] /\ Top \in Frames
         /\ Len(sFrames) \in Nat \ {0}
         /\ Len(Outer) = Len(sFrames) - 1
         /\ \A j \in 1..Len(Outer) : Outer[j] = sFrames[j]
         /\ \A j \in 1..Len(sFrames) : sFrames[j] \in Frames
<1>1. Len(sFrames) \in Nat \ {0} /\ \A j \in 1..Len(sFrames) : sFrames[j] \in Frames
  OBVIOUS
<1>2. Outer = SubSeq(sFrames, 1, Len(sFrames) - 1) /\ Top = sFrames[Len(sFrames)]
  BY DEF Outer, Top, Front, Last
<1>3. /\ Len(Outer) = Len(sFrames) - 1
      /\ \A j \in 1..Len(sFrames) - 1 : Outer[j] = sFrames[j]
  <2> DEFINE n == Len(sFrames) - 1
  <2>1. n \in 0..Len(sFrames)
    BY <1>1
  <2>2. Outer = SubSeq(sFrames, 1, n)
    BY <1>2
  <2> QED
    BY <2>1, <2>2, Prefix
<1> QED
  BY <1>1, <1>2, <1>3

LEMMA SequenceOf ==
  ASSUME NEW S, NEW n \in Nat, NEW f \in [1..n -> S]
  PROVE  f \in Seq(S) /\ Len(f) = n
OBVIOUS

\* What stays of a with block through every step.
Copies(f, g) ==
  /\ g.kind = f.kind /\ g.type = f.type /\ g.key = f.key /\ g.stored = f.stored
  /\ g.pre = f.pre /\ g.trusted = f.trusted
\* A frame whose rows, or whose marks, were changed.
LEMMA FrameItems ==
  ASSUME NEW f \in Frames, NEW items \in SUBSET Nat, NEW g, g = [f EXCEPT !.items = items]
  PROVE  /\ g \in Frames /\ Copies(f, g) /\ g.items = items
         /\ g.state = f.state /\ g.called = f.called
<1>1. g \in Frames
  BY DEF Frames
<1>2. Copies(f, g)
  BY DEF Frames, Copies
<1>3. g.items = items /\ g.state = f.state /\ g.called = f.called
  BY DEF Frames
<1> QED
  BY <1>1, <1>2, <1>3

Marked(f, state) == [f EXCEPT !.called = TRUE, !.state = state]
LEMMA FrameMarks ==
  ASSUME NEW f \in Frames, NEW state \in {"open", "committed", "aborted"}
  PROVE  /\ Marked(f, state) \in Frames /\ Copies(f, Marked(f, state))
         /\ Marked(f, state).items = f.items
         /\ Marked(f, state).state = state /\ Marked(f, state).called = TRUE
<1> DEFINE g == Marked(f, state)
<1>0. g = [f EXCEPT !.called = TRUE, !.state = state]
  BY DEF Marked
<1> HIDE DEF g
<1>1. g \in Frames
  BY <1>0 DEF Frames
<1>2. Copies(f, g)
  BY <1>0 DEF Frames, Copies
<1>3. g.items = f.items /\ g.state = state /\ g.called = TRUE
  BY <1>0 DEF Frames
<1> QED
  BY <1>1, <1>2, <1>3 DEF g

Left(raising) ==
  /\ sFrames' \in Seq(Frames) /\ Len(sFrames') = Len(sFrames) - 1
  /\ \A j \in 1..Len(sFrames') :
       /\ Copies(sFrames[j], sFrames'[j])
       /\ sFrames'[j].state = sFrames[j].state /\ sFrames'[j].called = sFrames[j].called
       /\ sFrames'[j].items = sFrames[j].items \ (IF raising THEN Top.items ELSE {})
LEMMA LeaveEffect ==
  ASSUME sFrames \in Seq(Frames), sFrames # <<>>, NEW raising \in BOOLEAN, Leave(raising)
  PROVE  Left(raising)
<1> DEFINE n == Len(sFrames) - 1
<1>1. /\ n \in Nat /\ Len(Outer) = n /\ Top \in Frames
      /\ \A j \in 1..n : Outer[j] = sFrames[j] /\ sFrames[j] \in Frames
  BY FramesFacts
<1>2. \A j \in 1..n : sFrames[j].items \ Top.items \in SUBSET Nat
  BY <1>1 DEF Frames
<1>3. sFrames' = [j \in 1..n |-> IF raising THEN [sFrames[j] EXCEPT !.items = @ \ Top.items]
                                 ELSE sFrames[j]]
  BY <1>1 DEF Leave
<1>4. ASSUME NEW j \in 1..n
      PROVE  /\ sFrames'[j] \in Frames /\ Copies(sFrames[j], sFrames'[j])
             /\ sFrames'[j].state = sFrames[j].state /\ sFrames'[j].called = sFrames[j].called
             /\ sFrames'[j].items = sFrames[j].items \ (IF raising THEN Top.items ELSE {})
  <2>1. sFrames'[j] = IF raising THEN [sFrames[j] EXCEPT !.items = @ \ Top.items] ELSE sFrames[j]
    BY <1>3
  <2>2. CASE raising
    <3>1. sFrames'[j] = [sFrames[j] EXCEPT !.items = sFrames[j].items \ Top.items]
      BY <2>1, <2>2
    <3>2. PICK f \in Frames, items \in SUBSET Nat : f = sFrames[j] /\ items = f.items \ Top.items
      BY <1>1, <1>2
    <3>3. PICK g : g = sFrames'[j]
      OBVIOUS
    <3>4. g = [f EXCEPT !.items = items]
      BY <3>1, <3>2, <3>3
    <3>5. g \in Frames /\ Copies(f, g) /\ g.items = items /\ g.state = f.state /\ g.called = f.called
      BY <3>4, FrameItems
    <3> QED
      BY <2>2, <3>2, <3>3, <3>5
  <2>3. CASE ~raising
    BY <1>1, <2>1, <2>3 DEF Copies
  <2> QED
    BY <2>2, <2>3
<1>5. sFrames' \in [1..n -> Frames]
  BY <1>3, <1>4
<1>6. sFrames' \in Seq(Frames) /\ Len(sFrames') = n
  BY <1>1, <1>5, SequenceOf
<1> QED
  BY <1>4, <1>6 DEF Left

Touched ==
  /\ sFrames' \in Seq(Frames) /\ Len(sFrames') = Len(sFrames)
  /\ \A j \in 1..Len(sFrames') :
       /\ Copies(sFrames[j], sFrames'[j])
       /\ sFrames'[j].called = TRUE /\ sFrames'[j].items = sFrames[j].items
\* commit and rollback of the frame i: every frame may count on it no longer.
LEMMA CalledFrames ==
  ASSUME sFrames \in Seq(Frames), NEW i \in 1..Len(sFrames),
         NEW state \in {"open", "committed", "aborted"},
         sFrames' = [j \in 1..Len(sFrames) |->
                       [sFrames[j] EXCEPT !.called = TRUE, !.state = IF i = j THEN state ELSE @]]
  PROVE  /\ Touched
         /\ \A j \in 1..Len(sFrames') : sFrames'[j].state = IF i = j THEN state ELSE sFrames[j].state
<1>1. Len(sFrames) \in Nat /\ \A j \in 1..Len(sFrames) : sFrames[j] \in Frames
  BY ElementsOf
<1>2. ASSUME NEW j \in 1..Len(sFrames)
      PROVE  /\ sFrames'[j] \in Frames /\ Copies(sFrames[j], sFrames'[j]) /\ sFrames'[j].called = TRUE
             /\ sFrames'[j].items = sFrames[j].items
             /\ sFrames'[j].state = IF i = j THEN state ELSE sFrames[j].state
  <2>1. sFrames'[j] = [sFrames[j] EXCEPT !.called = TRUE, !.state = IF i = j THEN state ELSE @]
    OBVIOUS
  <2>2. PICK f \in Frames, next \in {"open", "committed", "aborted"} :
          f = sFrames[j] /\ next = IF i = j THEN state ELSE f.state
    BY <1>1 DEF Frames
  <2>3. PICK g : g = sFrames'[j]
    OBVIOUS
  <2>4. g = Marked(f, next)
    BY <2>1, <2>2, <2>3 DEF Marked
  <2>5. g \in Frames /\ Copies(f, g) /\ g.items = f.items /\ g.state = next /\ g.called = TRUE
    BY <2>4, FrameMarks
  <2> QED
    BY <2>2, <2>3, <2>5
<1>3. sFrames' \in [1..Len(sFrames) -> Frames]
  BY <1>2
<1>4. sFrames' \in Seq(Frames) /\ Len(sFrames') = Len(sFrames)
  BY <1>1, <1>3, SequenceOf
<1> QED
  BY <1>2, <1>4 DEF Touched

\* The object of the with block decides what commit and rollback send.
LEMMA CommitOfEffect ==
  ASSUME sSrv \in Servers, Sound(sSrv), NEW f \in Frames, NEW i \in Nat
  PROVE  /\ Steady(sSrv, CommitOf(f, i).r.srv) /\ CommitOf(f, i).r.ok \in BOOLEAN
         /\ CommitOf(f, i).state \in {"open", "committed", "aborted"}
         /\ f.type = "block" /\ f.state = "open" => ~InBlock(CommitOf(f, i).r.srv)
         /\ f.state # "open" => CommitOf(f, i).r.srv = sSrv
<1>1. f.state \in {"open", "committed", "aborted"}
  BY DEF Frames
<1>2. CASE f.state = "committed"
  BY <1>2, CommandsSteady DEF CommitOf, Does
<1>3. CASE f.state = "aborted"
  BY <1>3, CommandsSteady DEF CommitOf
<1>4. CASE f.state = "open" /\ f.type = "block"
  <2>1. CommitOf(f, i).r = CommitBlock(sSrv) /\ CommitOf(f, i).state \in {"open", "committed"}
    BY <1>4 DEF CommitOf
  <2> QED
    BY <1>4, <2>1, CommandsSteady, CommitEffect
<1>5. CASE f.state = "open" /\ f.type # "block"
  <2>1. CommitOf(f, i).r = ReleaseTo(sSrv, i) /\ CommitOf(f, i).state \in {"open", "committed"}
    BY <1>5 DEF CommitOf
  <2> QED
    BY <1>5, <2>1, CommandsSteady, ReleaseEffect
<1> QED
  BY <1>1, <1>2, <1>3, <1>4, <1>5

LEMMA RollbackOfEffect ==
  ASSUME sSrv \in Servers, Sound(sSrv), NEW f \in Frames, NEW i \in Nat
  PROVE  /\ Steady(sSrv, RollbackOf(f, i).r.srv) /\ RollbackOf(f, i).r.ok \in BOOLEAN
         /\ RollbackOf(f, i).state \in {"open", "committed", "aborted"}
         /\ f.type = "block" /\ f.state = "open" => ~InBlock(RollbackOf(f, i).r.srv)
         /\ f.state # "open" => RollbackOf(f, i).r.srv = sSrv
<1>1. f.state \in {"open", "committed", "aborted"}
  BY DEF Frames
<1>2. CASE f.state = "aborted"
  BY <1>2, CommandsSteady DEF RollbackOf, Does
<1>3. CASE f.state = "committed"
  BY <1>3, CommandsSteady DEF RollbackOf
<1>4. CASE f.state = "open" /\ f.type = "block"
  <2>1. RollbackOf(f, i).r = AbortBlock(sSrv) /\ RollbackOf(f, i).state \in {"open", "aborted"}
    BY <1>4 DEF RollbackOf, UndoCommand
  <2> QED
    BY <1>4, <2>1, CommandsSteady, AbortEffect
<1>5. CASE f.state = "open" /\ f.type # "block"
  <2>1. RollbackOf(f, i).r = RollbackTo(sSrv, i) /\ RollbackOf(f, i).state \in {"open", "aborted"}
    BY <1>5 DEF RollbackOf, UndoCommand
  <2> QED
    BY <1>5, <2>1, CommandsSteady, RollbackEffect
<1> QED
  BY <1>1, <1>2, <1>3, <1>4, <1>5

-----------------------------------------------------------------------------
(* What every step keeps: the session and its blocks are well formed, the     *)
(* cache is honest, and a block of the server belongs to an open with block.  *)

Kept == \A i \in 1..Len(sFrames) : sFrames[i].kind = "settings" => sFrames[i].stored \in 0..1
OpensBlock(f) == f.kind = "xact" /\ f.type = "block" /\ f.state = "open"
Accounted ==
  /\ sExc = "base" => sLog.based
  /\ InBlock(sSrv) /\ ~sLog.based => \E i \in 1..Len(sFrames) : OpensBlock(sFrames[i])
Formed == Typed /\ Sound(sSrv) /\ Kept
SessInv == Formed /\ CacheHonest /\ Accounted

\* A command that is logged, or that leaves the settings alone, keeps the cache honest.
LEMMA ExecutesEffect ==
  ASSUME Typed, CacheHonest, NEW r, r.srv \in Servers, Executes(r),
         sSrv.st = "lost" => r.srv.st = "lost",
         sLog.stale \/ Stale(r) => sLog'.stale
  PROVE  sSrv' \in Servers /\ sCache' \in [Keys -> -1..1] /\ CacheHonest'
<1>1. sSrv' = r.srv /\ sCache' = Notify(sCache, sSrv, r.srv)
  BY DEF Executes
<1>2. /\ sSrv \in Servers /\ sCache \in [Keys -> -1..1]
      /\ sSrv.vals \in [Keys -> 0..1] /\ r.srv.vals \in [Keys -> 0..1]
  BY DEF Typed, Servers
<1>3. \A k \in Keys : sCache'[k] = IF k \in Reported /\ sSrv.vals[k] # r.srv.vals[k]
                                 THEN r.srv.vals[k] ELSE sCache[k]
  BY <1>1 DEF Notify
<1>4. sCache' \in [Keys -> -1..1]
  BY <1>1, <1>2 DEF Notify
<1>5. ASSUME NEW k \in Keys, sCache'[k] # Absent, sSrv'.st # "lost", k \in Reported \/ ~sLog'.stale
      PROVE  sCache'[k] = sSrv'.vals[k]
  <2>1. sSrv.st # "lost"
    BY <1>1, <1>5
  <2>2. CASE k \in Reported /\ sSrv.vals[k] # r.srv.vals[k]
    BY <1>1, <1>3, <2>2
  <2>3. CASE ~(k \in Reported /\ sSrv.vals[k] # r.srv.vals[k])
    <3>1. sCache'[k] = sCache[k] /\ sSrv.vals[k] = r.srv.vals[k]
      BY <1>3, <1>5, <2>3 DEF Stale
    <3>2. k \in Reported \/ ~sLog.stale
      BY <1>5
    <3>3. sCache[k] = sSrv.vals[k]
      BY <1>5, <2>1, <3>1, <3>2 DEF CacheHonest, closed
    <3> QED
      BY <1>1, <3>1, <3>3
  <2> QED
    BY <2>2, <2>3
<1> QED
  BY <1>1, <1>4, <1>5 DEF CacheHonest, closed

LEMMA LogsEffect ==
  ASSUME Typed, NEW r, Logs(r)
  PROVE  /\ sLog' \in [based : BOOLEAN, stale : BOOLEAN, written : Nat, sets : Nat]
         /\ sLog'.based = sLog.based /\ sLog'.written = sLog.written
         /\ sLog.stale \/ Stale(r) => sLog'.stale
<1>1. sLog' = [sLog EXCEPT !.stale = sLog.stale \/ Stale(r)] /\ (sLog.stale \/ Stale(r)) \in BOOLEAN
  BY DEF Logs
<1> QED
  BY <1>1 DEF Typed

LEMMA SetsEffect ==
  ASSUME Typed, Sets
  PROVE  /\ sLog' \in [based : BOOLEAN, stale : BOOLEAN, written : Nat, sets : Nat]
         /\ sLog'.based = sLog.based /\ sLog'.written = sLog.written /\ sLog'.stale = sLog.stale
BY DEF Typed, Sets

LEMMA RaisesEffect ==
  ASSUME Typed, NEW r, r.ok \in BOOLEAN, SessionRaises(r)
  PROVE  /\ sExc' \in {"none", "error", "base"} /\ (sExc' = "base" => sExc = "base")
         /\ r.ok => sExc' = sExc
         /\ ~r.ok => sExc' = "error"
BY DEF Typed, SessionRaises

\* Steps after which every open with block still is one.
LEMMA AccountedKept ==
  ASSUME Accounted, InBlock(sSrv') => InBlock(sSrv), sExc' = "base" => sExc = "base",
         sLog'.based = sLog.based, Len(sFrames) \in Nat, Len(sFrames') \in Nat,
         \A i \in 1..Len(sFrames) :
           OpensBlock(sFrames[i]) => \/ i \in 1..Len(sFrames') /\ OpensBlock(sFrames'[i])
                                    \/ ~InBlock(sSrv') \/ sLog.based
  PROVE  Accounted'
<1>1. sExc' = "base" => sLog'.based
  BY DEF Accounted
<1>2. ASSUME InBlock(sSrv'), ~sLog'.based
      PROVE  \E i \in 1..Len(sFrames') : OpensBlock(sFrames'[i])
  BY <1>2 DEF Accounted
<1> QED
  BY <1>1, <1>2 DEF Accounted, InBlock, OpensBlock

LEMMA AppendEffect ==
  ASSUME NEW S, NEW s \in Seq(S), NEW x \in S
  PROVE  /\ Append(s, x) \in Seq(S) /\ Len(Append(s, x)) = Len(s) + 1
         /\ \A i \in 1..Len(s) : Append(s, x)[i] = s[i]
         /\ Append(s, x)[Len(s) + 1] = x
OBVIOUS

LEMMA StartXactKeeps ==
  ASSUME SessInv, StartXact
  PROVE  SessInv'
<1>1. /\ Typed /\ Sound(sSrv) /\ Kept /\ CacheHonest /\ Accounted
      /\ sSrv \in Servers /\ sFrames \in Seq(Frames) /\ Len(sFrames) \in Nat
  BY ElementsOf DEF SessInv, Formed, Typed
<1>2. PICK configured, type, r, f :
        /\ configured \in BOOLEAN /\ type \in {"block", "savepoint"}
        /\ type = IF sSrv.st = "I" THEN "block" ELSE "savepoint"
        /\ r = IF type = "savepoint" /\ configured THEN [srv |-> sSrv, ok |-> FALSE]
               ELSE IF type = "block" THEN Begin(sSrv) ELSE Savepoint(sSrv, Len(sFrames) + 1)
        /\ f = Frame("xact", type, CHOOSE k \in Keys : TRUE)
        /\ Executes(r) /\ SessionRaises(r)
        /\ sFrames' = IF r.ok THEN Append(sFrames, f) ELSE sFrames
        /\ sLog' = IF r.ok /\ type = "block" THEN [sLog EXCEPT !.written = 0] ELSE sLog
  BY DEF StartXact
<1>3. f \in Frames /\ f.kind = "xact" /\ f.type = type /\ f.state = "open"
  <2>1. (CHOOSE k \in Keys : TRUE) \in Keys
    BY SessionBounds
  <2>2. sSrv.vals \in [Keys -> 0..1] /\ sLog.stale \in BOOLEAN /\ Absent \in -1..1
    BY <1>1 DEF Typed, Servers, Absent
  <2>3. sSrv.vals[CHOOSE k \in Keys : TRUE] \in 0..1
    BY <2>1, <2>2
  <2> QED
    BY <1>2, <2>1, <2>2, <2>3 DEF Frame, Frames
<1>4. /\ r.srv \in Servers /\ Sound(r.srv) /\ r.ok \in BOOLEAN /\ r.srv.vals = sSrv.vals
      /\ sSrv.st = "lost" => r.srv.st = "lost"
      /\ InBlock(r.srv) => InBlock(sSrv) \/ (type = "block" /\ r.ok)
  <2>1. CASE type = "savepoint" /\ configured
    BY <1>1, <1>2, <2>1
  <2>2. CASE type = "block"
    <3>1. r = Begin(sSrv) /\ sSrv.st = "I"
      BY <1>2, <2>2
    <3>2. r.srv.st = "T" /\ r.srv.saves = <<[id |-> 0, vals |-> sSrv.vals, work |-> {}]>> /\ r.ok
      BY <1>1, <3>1, BeginEffect
    <3> QED
      BY <1>1, <2>2, <3>1, <3>2, BeginEffect DEF Sound, InBlock
  <2>3. CASE type = "savepoint" /\ ~configured
    <3>1. r = Savepoint(sSrv, Len(sFrames) + 1) /\ Len(sFrames) + 1 \in Nat
      BY <1>1, <1>2, <2>3
    <3>2. Steady(sSrv, r.srv)
      BY <1>1, <3>1, CommandsSteady
    <3> QED
      BY <1>1, <3>1, <3>2, SavepointEffect DEF Steady
  <2> QED
    BY <1>2, <2>1, <2>2, <2>3
<1>5. /\ sLog' \in [based : BOOLEAN, stale : BOOLEAN, written : Nat, sets : Nat]
      /\ sLog'.based = sLog.based /\ sLog'.stale = sLog.stale
  BY <1>1, <1>2 DEF Typed
<1>6. sSrv' = r.srv /\ sSrv' \in Servers /\ sCache' \in [Keys -> -1..1] /\ CacheHonest'
  BY <1>1, <1>2, <1>4, <1>5, ExecutesEffect DEF Stale, Executes
<1>7. /\ sExc' \in {"none", "error", "base"} /\ (sExc' = "base" => sExc = "base")
  <2>1. Typed /\ r.ok \in BOOLEAN /\ SessionRaises(r)
    BY <1>1, <1>2, <1>4
  <2> QED
    BY <2>1, RaisesEffect
<1>8. /\ sFrames' \in Seq(Frames) /\ Len(sFrames') \in Nat
      /\ \A i \in 1..Len(sFrames) : i \in 1..Len(sFrames') /\ sFrames'[i] = sFrames[i]
      /\ \A i \in 1..Len(sFrames') : i \in 1..Len(sFrames) \/ sFrames'[i] = f
      /\ r.ok => Len(sFrames) + 1 \in 1..Len(sFrames') /\ sFrames'[Len(sFrames) + 1] = f
  <2>1. CASE r.ok
    <3>1. sFrames' = Append(sFrames, f)
      BY <1>2, <2>1
    <3> QED
      BY <1>1, <1>3, <3>1, AppendEffect
  <2>2. CASE ~r.ok
    BY <1>1, <1>2, <2>2
  <2> QED
    BY <2>1, <2>2
<1>9. Kept'
  BY <1>1, <1>3, <1>8 DEF Kept
<1>10. Accounted'
  <2>1. CASE type = "block" /\ r.ok
    <3>1. OpensBlock(sFrames'[Len(sFrames) + 1])
      BY <1>3, <1>8, <2>1 DEF OpensBlock
    <3>2. sExc' = "base" => sLog'.based
      BY <1>1, <1>5, <1>7 DEF Accounted
    <3> QED
      BY <1>8, <2>1, <3>1, <3>2 DEF Accounted, OpensBlock
  <2>2. CASE ~(type = "block" /\ r.ok)
    BY <1>1, <1>4, <1>5, <1>6, <1>7, <1>8, <2>2, AccountedKept
  <2> QED
    BY <2>1, <2>2
<1> QED
  BY <1>4, <1>5, <1>6, <1>7, <1>8, <1>9, <1>10 DEF SessInv, Formed, Typed, Sound, InBlock

\* What commit and rollback have in common, whatever they send.
LEMMA CalledKeeps ==
  ASSUME SessInv, NEW i \in Blocks, NEW d, Called(i, d), Steady(sSrv, d.r.srv), d.r.ok \in BOOLEAN,
         d.state \in {"open", "committed", "aborted"},
         sFrames[i].type = "block" /\ sFrames[i].state = "open" => ~InBlock(d.r.srv)
  PROVE  SessInv'
<1>1. /\ Typed /\ Sound(sSrv) /\ Kept /\ CacheHonest /\ Accounted
      /\ sSrv \in Servers /\ sFrames \in Seq(Frames) /\ Len(sFrames) \in Nat
      /\ i \in 1..Len(sFrames)
  BY ElementsOf DEF SessInv, Formed, Typed, Blocks
<1>2. /\ Executes(d.r) /\ SessionRaises(d.r) /\ Logs(d.r)
      /\ sFrames' = [j \in 1..Len(sFrames) |->
           [sFrames[j] EXCEPT !.called = TRUE, !.state = IF i = j THEN d.state ELSE @]]
  BY DEF Called
<1>3. d.r.srv \in Servers /\ Sound(d.r.srv) /\ (InBlock(d.r.srv) => InBlock(sSrv))
      /\ (sSrv.st = "lost" => d.r.srv.st = "lost")
  BY DEF Steady
<1>4. /\ sLog' \in [based : BOOLEAN, stale : BOOLEAN, written : Nat, sets : Nat]
      /\ sLog'.based = sLog.based /\ (sLog.stale \/ Stale(d.r) => sLog'.stale)
  BY <1>1, <1>2, LogsEffect
<1>5. sSrv' = d.r.srv /\ sSrv' \in Servers /\ sCache' \in [Keys -> -1..1] /\ CacheHonest'
  BY <1>1, <1>2, <1>3, <1>4, ExecutesEffect DEF Executes
<1>6. sExc' \in {"none", "error", "base"} /\ (sExc' = "base" => sExc = "base")
  <2>1. Typed /\ d.r.ok \in BOOLEAN /\ SessionRaises(d.r)
    BY <1>1, <1>2
  <2> QED
    BY <2>1, RaisesEffect
<1>7. /\ Touched
      /\ \A j \in 1..Len(sFrames') : sFrames'[j].state = IF i = j THEN d.state ELSE sFrames[j].state
  BY <1>1, <1>2, CalledFrames
<1>8. sFrames' \in Seq(Frames) /\ Len(sFrames') = Len(sFrames)
  BY <1>7 DEF Touched
<1>9. Kept'
  BY <1>1, <1>7 DEF Kept, Touched, Copies
<1>10. ASSUME NEW j \in 1..Len(sFrames), OpensBlock(sFrames[j])
       PROVE  \/ j \in 1..Len(sFrames') /\ OpensBlock(sFrames'[j])
              \/ ~InBlock(sSrv')
  <2>1. CASE i = j
    BY <1>5, <1>10, <2>1 DEF OpensBlock
  <2>2. CASE i # j
    BY <1>7, <1>8, <1>10, <2>2 DEF OpensBlock, Touched, Copies
  <2> QED
    BY <2>1, <2>2
<1>11. InBlock(sSrv') => InBlock(sSrv)
  BY <1>3, <1>5
<1>12. Accounted'
  BY <1>1, <1>4, <1>6, <1>8, <1>10, <1>11, AccountedKept
<1> QED
  BY <1>3, <1>4, <1>5, <1>6, <1>8, <1>9, <1>12 DEF SessInv, Formed, Typed, Sound, InBlock

LEMMA CallsKeep ==
  ASSUME SessInv, CommitCall \/ RollbackCall
  PROVE  SessInv'
<1>1. sSrv \in Servers /\ Sound(sSrv) /\ sFrames \in Seq(Frames)
  BY DEF SessInv, Formed, Typed
<1>2. ASSUME NEW i \in Blocks PROVE i \in Nat /\ sFrames[i] \in Frames
  BY <1>1, ElementsOf DEF Blocks
<1>3. CASE CommitCall
  <2>1. PICK i \in Blocks : Called(i, CommitOf(sFrames[i], i))
    BY <1>3 DEF CommitCall
  <2>2. PICK d : d = CommitOf(sFrames[i], i)
    OBVIOUS
  <2>3. /\ Steady(sSrv, d.r.srv) /\ d.r.ok \in BOOLEAN /\ d.state \in {"open", "committed", "aborted"}
        /\ sFrames[i].type = "block" /\ sFrames[i].state = "open" => ~InBlock(d.r.srv)
    BY <1>1, <1>2, <2>2, CommitOfEffect
  <2> QED
    BY <2>1, <2>2, <2>3, CalledKeeps
<1>4. CASE RollbackCall
  <2>1. PICK i \in Blocks : Called(i, RollbackOf(sFrames[i], i))
    BY <1>4 DEF RollbackCall
  <2>2. PICK d : d = RollbackOf(sFrames[i], i)
    OBVIOUS
  <2>3. /\ Steady(sSrv, d.r.srv) /\ d.r.ok \in BOOLEAN /\ d.state \in {"open", "committed", "aborted"}
        /\ sFrames[i].type = "block" /\ sFrames[i].state = "open" => ~InBlock(d.r.srv)
    BY <1>1, <1>2, <2>2, RollbackOfEffect
  <2> QED
    BY <2>1, <2>2, <2>3, CalledKeeps
<1> QED
  BY <1>3, <1>4

\* Leaving a with block: the others keep what the invariants speak of.
LEMMA LeftKeeps ==
  ASSUME Formed, Accounted, sFrames # <<>>, NEW raising \in BOOLEAN, Left(raising),
         InBlock(sSrv') => InBlock(sSrv), sExc' = "base" => sExc = "base",
         sLog'.based = sLog.based,
         OpensBlock(Top) => ~InBlock(sSrv') \/ sLog.based
  PROVE  sFrames' \in Seq(Frames) /\ Kept' /\ Accounted'
<1>1. /\ sFrames \in Seq(Frames) /\ Len(sFrames) \in Nat \ {0} /\ Top = sFrames[Len(sFrames)]
      /\ sFrames' \in Seq(Frames) /\ Len(sFrames') = Len(sFrames) - 1
  BY FramesFacts DEF Formed, Typed, Left
<1>2. \A j \in 1..Len(sFrames') :
        /\ j \in 1..Len(sFrames) /\ Copies(sFrames[j], sFrames'[j])
        /\ sFrames'[j].state = sFrames[j].state
  BY <1>1 DEF Left
<1>3. Kept'
  BY <1>1, <1>2 DEF Formed, Kept, Copies
<1>4. ASSUME NEW j \in 1..Len(sFrames), OpensBlock(sFrames[j])
      PROVE  \/ j \in 1..Len(sFrames') /\ OpensBlock(sFrames'[j])
             \/ ~InBlock(sSrv') \/ sLog.based
  <2>1. CASE j = Len(sFrames)
    BY <1>1, <1>4, <2>1
  <2>2. CASE j # Len(sFrames)
    <3>1. j \in 1..Len(sFrames')
      BY <1>1, <2>2
    <3> QED
      BY <1>2, <1>4, <3>1 DEF OpensBlock, Copies
  <2> QED
    BY <2>1, <2>2
<1>5. Accounted'
  BY <1>1, <1>4, AccountedKept
<1> QED
  BY <1>1, <1>3, <1>5

LEMMA ExitXactKeeps ==
  ASSUME SessInv, ExitXact
  PROVE  SessInv'
<1>1. /\ Formed /\ Typed /\ Sound(sSrv) /\ Kept /\ CacheHonest /\ Accounted
      /\ sSrv \in Servers /\ sFrames \in Seq(Frames) /\ sFrames # <<>>
      /\ Len(sFrames) \in Nat /\ Top \in Frames /\ sExc = "none"
  BY FramesFacts DEF SessInv, Formed, Typed, ExitXact, NoException
<1>2. PICK failed, fails, d, r :
        /\ failed \in BOOLEAN /\ fails \in BOOLEAN
        /\ failed <=> FailedBlock
        /\ fails => Top.state = "open" /\ Top.type = "block" /\ sSrv.st = "T"
        /\ d = IF failed THEN RollbackOf(Top, Len(sFrames)) ELSE CommitOf(Top, Len(sFrames))
        /\ r = IF fails THEN [srv |-> Aborted(sSrv), ok |-> FALSE] ELSE d.r
        /\ Executes(r) /\ Logs(r)
        /\ sExc' = IF failed \/ ~r.ok THEN "error" ELSE "none"
        /\ Leave(failed \/ ~r.ok)
  BY DEF ExitXact
<1>3. /\ Steady(sSrv, r.srv) /\ r.ok \in BOOLEAN
      /\ Top.type = "block" /\ Top.state = "open" => ~InBlock(r.srv)
  <2>1. CASE fails
    <3>1. r.srv = Aborted(sSrv) /\ r.ok = FALSE /\ sSrv.st = "T"
      BY <1>2, <2>1
    <3>2. AbortBlock(sSrv).srv = Aborted(sSrv)
      BY <1>1, <3>1, AbortEffect DEF Does
    <3> QED
      BY <1>1, <3>1, <3>2, CommandsSteady
  <2>2. CASE ~fails /\ failed
    <3>1. r = RollbackOf(Top, Len(sFrames)).r
      BY <1>2, <2>2
    <3> QED
      BY <1>1, <3>1, RollbackOfEffect
  <2>3. CASE ~fails /\ ~failed
    <3>1. r = CommitOf(Top, Len(sFrames)).r
      BY <1>2, <2>3
    <3> QED
      BY <1>1, <3>1, CommitOfEffect
  <2> QED
    BY <2>1, <2>2, <2>3
<1>4. r.srv \in Servers /\ Sound(r.srv) /\ (InBlock(r.srv) => InBlock(sSrv))
      /\ (sSrv.st = "lost" => r.srv.st = "lost")
  BY <1>3 DEF Steady
<1>5. /\ sLog' \in [based : BOOLEAN, stale : BOOLEAN, written : Nat, sets : Nat]
      /\ sLog'.based = sLog.based /\ (sLog.stale \/ Stale(r) => sLog'.stale)
  BY <1>1, <1>2, LogsEffect
<1>6. sSrv' = r.srv /\ sSrv' \in Servers /\ sCache' \in [Keys -> -1..1] /\ CacheHonest'
  BY <1>1, <1>2, <1>4, <1>5, ExecutesEffect DEF Executes
<1>7. sExc' \in {"none", "error", "base"} /\ (sExc' = "base" => sExc = "base")
  BY <1>2
<1>8. PICK raising \in BOOLEAN : Leave(raising)
  BY <1>2, <1>3
<1>9. Left(raising)
  BY <1>1, <1>8, LeaveEffect
<1>10. OpensBlock(Top) => ~InBlock(sSrv')
  BY <1>3, <1>6 DEF OpensBlock
<1>11. InBlock(sSrv') => InBlock(sSrv)
  BY <1>4, <1>6
<1>12. sFrames' \in Seq(Frames) /\ Kept' /\ Accounted'
  BY <1>1, <1>5, <1>7, <1>9, <1>10, <1>11, LeftKeeps
<1> QED
  BY <1>4, <1>5, <1>6, <1>7, <1>12 DEF SessInv, Formed, Typed, Sound, InBlock

LEMMA ExitXactRaisedKeeps ==
  ASSUME SessInv, ExitXactRaised
  PROVE  SessInv'
<1>1. /\ Formed /\ Typed /\ Sound(sSrv) /\ Kept /\ CacheHonest /\ Accounted
      /\ sSrv \in Servers /\ sFrames \in Seq(Frames) /\ sFrames # <<>>
      /\ Len(sFrames) \in Nat /\ Top \in Frames
  BY FramesFacts DEF SessInv, Formed, Typed, ExitXactRaised
<1>2. PICK r :
        /\ r = IF RollsBack THEN RollbackOf(Top, Len(sFrames)).r ELSE Does(sSrv)
        /\ Executes(r) /\ SessionRaises(r) /\ Logs(r)
  BY DEF ExitXactRaised
<1>3. /\ Steady(sSrv, r.srv) /\ r.ok \in BOOLEAN
      /\ OpensBlock(Top) => ~InBlock(r.srv) \/ sLog.based
  <2>1. CASE RollsBack
    <3>1. r = RollbackOf(Top, Len(sFrames)).r
      BY <1>2, <2>1
    <3> QED
      BY <1>1, <3>1, RollbackOfEffect DEF OpensBlock
  <2>2. CASE ~RollsBack
    <3>1. r.srv = sSrv /\ r.ok = TRUE
      BY <1>2, <2>2 DEF Does
    <3>2. sExc = "base" \/ sSrv.st = "lost"
      BY <1>1, <2>2 DEF RollsBack, closed, ExitXactRaised, Typed
    <3> QED
      BY <1>1, <3>1, <3>2, CommandsSteady DEF Accounted, InBlock
  <2> QED
    BY <2>1, <2>2
<1>4. r.srv \in Servers /\ Sound(r.srv) /\ (InBlock(r.srv) => InBlock(sSrv))
      /\ (sSrv.st = "lost" => r.srv.st = "lost")
  BY <1>3 DEF Steady
<1>5. /\ sLog' \in [based : BOOLEAN, stale : BOOLEAN, written : Nat, sets : Nat]
      /\ sLog'.based = sLog.based /\ (sLog.stale \/ Stale(r) => sLog'.stale)
  BY <1>1, <1>2, LogsEffect
<1>6. sSrv' = r.srv /\ sSrv' \in Servers /\ sCache' \in [Keys -> -1..1] /\ CacheHonest'
  BY <1>1, <1>2, <1>4, <1>5, ExecutesEffect DEF Executes
<1>7. sExc' \in {"none", "error", "base"} /\ (sExc' = "base" => sExc = "base")
  <2>1. Typed /\ r.ok \in BOOLEAN /\ SessionRaises(r)
    BY <1>1, <1>2, <1>3
  <2> QED
    BY <2>1, RaisesEffect
<1>8. Left(TRUE)
  BY <1>1, LeaveEffect DEF ExitXactRaised
<1>9. InBlock(sSrv') => InBlock(sSrv)
  BY <1>4, <1>6
<1>10. sFrames' \in Seq(Frames) /\ Kept' /\ Accounted'
  BY <1>1, <1>3, <1>5, <1>6, <1>7, <1>8, <1>9, LeftKeeps
<1> QED
  BY <1>4, <1>5, <1>6, <1>7, <1>10 DEF SessInv, Formed, Typed, Sound, InBlock

LEMMA QueryKeeps ==
  ASSUME SessInv, Query
  PROVE  SessInv'
<1>1. /\ Typed /\ Sound(sSrv) /\ Kept /\ CacheHonest /\ Accounted
      /\ sSrv \in Servers /\ sFrames \in Seq(Frames) /\ Len(sFrames) \in Nat
      /\ \A j \in 1..Len(sFrames) : sFrames[j] \in Frames
  BY ElementsOf DEF SessInv, Formed, Typed
<1>2. PICK ok, n, r :
        /\ ok \in BOOLEAN /\ n \in Nat
        /\ n = sLog.written + 1
        /\ r = IF ok /\ sSrv.st \in {"I", "T"} THEN Does([sSrv EXCEPT !.work = @ \cup {n}])
               ELSE RefusedBy(sSrv)
        /\ Executes(r) /\ SessionRaises(r)
        /\ sFrames' = IF r.ok THEN [j \in 1..Len(sFrames) |-> [sFrames[j] EXCEPT !.items = @ \cup {n}]]
                      ELSE sFrames
        /\ sLog' = IF r.ok THEN [sLog EXCEPT !.written = n] ELSE sLog
  <2>1. sLog.written + 1 \in Nat
    BY <1>1 DEF Typed
  <2> QED
    BY <2>1 DEF Query
<1>3. /\ Steady(sSrv, r.srv) /\ r.ok \in BOOLEAN /\ r.srv.vals = sSrv.vals
  <2>1. CASE ok /\ sSrv.st \in {"I", "T"}
    <3>1. r.srv = [sSrv EXCEPT !.work = @ \cup {n}] /\ r.ok = TRUE
      BY <1>2, <2>1 DEF Does
    <3>2. sSrv.work \cup {n} \in SUBSET Nat
      BY <1>1, <1>2 DEF Servers
    <3>3. r.srv \in Servers /\ r.srv.st = sSrv.st /\ r.srv.saves = sSrv.saves /\ r.srv.vals = sSrv.vals
      BY <1>1, <3>1, <3>2 DEF Servers
    <3> QED
      BY <1>1, <2>1, <3>1, <3>3 DEF Steady, Sound, InBlock
  <2>2. CASE ~(ok /\ sSrv.st \in {"I", "T"})
    <3>1. r = RefusedBy(sSrv)
      BY <1>2, <2>2
    <3> QED
      BY <1>1, <3>1, CommandsSteady, RefusedEffect
  <2> QED
    BY <2>1, <2>2
<1>4. r.srv \in Servers /\ Sound(r.srv) /\ (InBlock(r.srv) => InBlock(sSrv))
      /\ (sSrv.st = "lost" => r.srv.st = "lost")
  BY <1>3 DEF Steady
<1>5. /\ sLog' \in [based : BOOLEAN, stale : BOOLEAN, written : Nat, sets : Nat]
      /\ sLog'.based = sLog.based /\ sLog'.stale = sLog.stale
  BY <1>1, <1>2 DEF Typed
<1>6. sSrv' = r.srv /\ sSrv' \in Servers /\ sCache' \in [Keys -> -1..1] /\ CacheHonest'
  BY <1>1, <1>2, <1>3, <1>4, <1>5, ExecutesEffect DEF Executes, Stale
<1>7. sExc' \in {"none", "error", "base"} /\ (sExc' = "base" => sExc = "base")
  <2>1. Typed /\ r.ok \in BOOLEAN /\ SessionRaises(r)
    BY <1>1, <1>2, <1>3
  <2> QED
    BY <2>1, RaisesEffect
<1>8. /\ sFrames' \in Seq(Frames) /\ Len(sFrames') = Len(sFrames)
      /\ \A j \in 1..Len(sFrames) : /\ Copies(sFrames[j], sFrames'[j])
                                   /\ sFrames'[j].state = sFrames[j].state
  <2>1. CASE r.ok
    <3>1. ASSUME NEW j \in 1..Len(sFrames)
          PROVE  /\ sFrames'[j] \in Frames /\ Copies(sFrames[j], sFrames'[j])
                 /\ sFrames'[j].state = sFrames[j].state
      <4>1. sFrames'[j] = [sFrames[j] EXCEPT !.items = @ \cup {n}]
        BY <1>2, <2>1
      <4>2. PICK f \in Frames, items \in SUBSET Nat : f = sFrames[j] /\ items = f.items \cup {n}
        BY <1>1, <1>2 DEF Frames
      <4>3. PICK g : g = sFrames'[j]
        OBVIOUS
      <4>4. g = [f EXCEPT !.items = items]
        BY <4>1, <4>2, <4>3
      <4>5. g \in Frames /\ Copies(f, g) /\ g.state = f.state
        BY <4>4, FrameItems
      <4> QED
        BY <4>2, <4>3, <4>5
    <3>2. sFrames' \in [1..Len(sFrames) -> Frames]
      BY <1>2, <2>1, <3>1
    <3> QED
      BY <1>1, <3>1, <3>2, SequenceOf
  <2>2. CASE ~r.ok
    BY <1>1, <1>2, <2>2 DEF Copies
  <2> QED
    BY <2>1, <2>2
<1>9. Kept'
  BY <1>1, <1>8 DEF Kept, Copies
<1>10. InBlock(sSrv') => InBlock(sSrv)
  BY <1>4, <1>6
<1>11. \A j \in 1..Len(sFrames) :
         OpensBlock(sFrames[j]) => j \in 1..Len(sFrames') /\ OpensBlock(sFrames'[j])
  BY <1>8 DEF OpensBlock, Copies
<1>12. Accounted'
  BY <1>1, <1>5, <1>7, <1>8, <1>10, <1>11, AccountedKept
<1> QED
  BY <1>4, <1>5, <1>6, <1>7, <1>8, <1>9, <1>12 DEF SessInv, Formed, Typed, Sound, InBlock

\* An operation on one setting: what it caches is what the server has then.
LEMMA OneSetting ==
  ASSUME Typed, CacheHonest, NEW k \in Keys, NEW c \in -1..1, sSrv' \in Servers,
         sCache' = [sCache EXCEPT ![k] = c], c # Absent => c = sSrv'.vals[k],
         \A j \in Keys \ {k} : sSrv'.vals[j] = sSrv.vals[j],
         sSrv.st = "lost" => sSrv'.st = "lost", sLog'.stale = sLog.stale
  PROVE  sCache' \in [Keys -> -1..1] /\ CacheHonest'
<1>1. /\ sCache \in [Keys -> -1..1]
      /\ \A j \in Keys : sCache'[j] = IF j = k THEN c ELSE sCache[j]
  BY DEF Typed
<1>2. sCache' \in [Keys -> -1..1]
  BY <1>1
<1>3. ASSUME NEW j \in Keys, sCache'[j] # Absent, sSrv'.st # "lost", j \in Reported \/ ~sLog'.stale
      PROVE  sCache'[j] = sSrv'.vals[j]
  <2>1. CASE j = k
    BY <1>1, <1>3, <2>1
  <2>2. CASE j # k
    <3>1. sCache[j] = sSrv.vals[j]
      BY <1>1, <1>3, <2>2 DEF CacheHonest, closed
    <3> QED
      BY <1>1, <2>2, <3>1
  <2> QED
    BY <2>1, <2>2
<1> QED
  BY <1>2, <1>3 DEF CacheHonest, closed

LEMMA NoSetting ==
  ASSUME Typed, CacheHonest, sCache' = sCache, sSrv'.vals = sSrv.vals,
         sSrv.st = "lost" => sSrv'.st = "lost", sLog'.stale = sLog.stale
  PROVE  sCache' \in [Keys -> -1..1] /\ CacheHonest'
BY DEF Typed, CacheHonest, closed

\* set_config and RESET, and what is cached then: v or nothing.
LEMMA UpdateEffect ==
  ASSUME Typed, Sound(sSrv), CacheHonest, NEW k \in Keys, NEW v \in 0..1, NEW c \in {v, Absent}, NEW r,
         r = SetTo(sSrv, k, v), sSrv' = r.srv,
         sCache' = IF r.ok THEN [sCache EXCEPT ![k] = c] ELSE sCache, sLog'.stale = sLog.stale
  PROVE  /\ Steady(sSrv, sSrv') /\ r.ok \in BOOLEAN
         /\ sCache' \in [Keys -> -1..1] /\ CacheHonest'
<1>1. sSrv \in Servers /\ sSrv.vals \in [Keys -> 0..1] /\ c \in -1..1
  BY DEF Typed, Servers, Absent
<1>2. Steady(sSrv, sSrv') /\ r.ok \in BOOLEAN
  BY <1>1, CommandsSteady, SetEffect
<1>3. sSrv' \in Servers /\ (sSrv.st = "lost" => sSrv'.st = "lost")
  BY <1>2 DEF Steady
<1>4. CASE r.ok
  <2>1. sSrv'.vals = [sSrv.vals EXCEPT ![k] = v]
    BY <1>1, <1>4, SetEffect
  <2>2. sSrv'.vals[k] = v /\ \A j \in Keys \ {k} : sSrv'.vals[j] = sSrv.vals[j]
    BY <1>1, <2>1
  <2> QED
    BY <1>1, <1>2, <1>3, <1>4, <2>2, OneSetting
<1>5. CASE ~r.ok
  <2>1. sSrv'.vals = sSrv.vals
    BY <1>1, <1>5, SetEffect, RefusedEffect
  <2> QED
    BY <1>2, <1>3, <1>5, <2>1, NoSetting
<1> QED
  BY <1>2, <1>4, <1>5

\* A step that changes neither the blocks nor what excuses them.
LEMMA SameBlocks ==
  ASSUME SessInv, Steady(sSrv, sSrv'), UNCHANGED sFrames,
         sExc' \in {"none", "error", "base"}, sExc' = "base" => sExc = "base",
         sCache' \in [Keys -> -1..1], CacheHonest', sLog'.based = sLog.based,
         sLog' \in [based : BOOLEAN, stale : BOOLEAN, written : Nat, sets : Nat]
  PROVE  SessInv'
<1>1. sSrv' \in Servers /\ Sound(sSrv)' /\ (InBlock(sSrv') => InBlock(sSrv))
  BY DEF Steady, Sound, InBlock
<1>2. sFrames' \in Seq(Frames) /\ Kept' /\ Len(sFrames) \in Nat
  BY ElementsOf DEF SessInv, Formed, Typed, Kept
<1>3. Accounted'
  BY <1>1, <1>2, AccountedKept DEF SessInv
<1> QED
  BY <1>1, <1>2, <1>3 DEF SessInv, Formed, Typed

LEMMA SettingsKeep ==
  ASSUME SessInv, SetItem \/ GetItem \/ DelItem
  PROVE  SessInv'
<1>1. /\ Typed /\ Sound(sSrv) /\ CacheHonest /\ sSrv \in Servers
      /\ sSrv.vals \in [Keys -> 0..1] /\ sCache \in [Keys -> -1..1]
  BY DEF SessInv, Formed, Typed, Servers
<1>2. CASE SetItem
  <2>1. PICK k, v, r :
          /\ k \in Keys /\ v \in 0..1
          /\ r = IF sCache[k] = v THEN Does(sSrv) ELSE SetTo(sSrv, k, v)
          /\ sSrv' = r.srv /\ SessionRaises(r)
          /\ sCache' = IF r.ok THEN [sCache EXCEPT ![k] = v] ELSE sCache
    BY <1>2 DEF SetItem
  <2>2. /\ UNCHANGED sFrames
        /\ sLog' \in [based : BOOLEAN, stale : BOOLEAN, written : Nat, sets : Nat]
        /\ sLog'.based = sLog.based /\ sLog'.stale = sLog.stale
    BY <1>1, <1>2, SetsEffect DEF SetItem
  <2>3. /\ Steady(sSrv, sSrv') /\ r.ok \in BOOLEAN
        /\ sCache' \in [Keys -> -1..1] /\ CacheHonest'
    <3>1. CASE sCache[k] = v
      <4>1. sSrv' = sSrv /\ r.ok = TRUE /\ sCache' = sCache
        BY <1>1, <2>1, <3>1 DEF Does
      <4> QED
        BY <1>1, <2>2, <4>1, CommandsSteady, NoSetting
    <3>2. CASE sCache[k] # v
      <4>1. r = SetTo(sSrv, k, v) /\ v \in {v, Absent}
        BY <2>1, <3>2
      <4> QED
        BY <1>1, <2>1, <2>2, <4>1, UpdateEffect
    <3> QED
      BY <3>1, <3>2
  <2>4. sExc' \in {"none", "error", "base"} /\ (sExc' = "base" => sExc = "base")
    <3>1. Typed /\ r.ok \in BOOLEAN /\ SessionRaises(r)
      BY <1>1, <2>1, <2>3
    <3> QED
      BY <3>1, RaisesEffect
  <2> QED
    BY <2>2, <2>3, <2>4, SameBlocks
<1>3. CASE DelItem
  <2>1. PICK k, r :
          /\ k \in Keys
          /\ r = SetTo(sSrv, k, Default)
          /\ sSrv' = r.srv /\ SessionRaises(r)
          /\ sCache' = IF r.ok THEN [sCache EXCEPT ![k] = Absent] ELSE sCache
    BY <1>3 DEF DelItem
  <2>2. /\ UNCHANGED sFrames
        /\ sLog' \in [based : BOOLEAN, stale : BOOLEAN, written : Nat, sets : Nat]
        /\ sLog'.based = sLog.based /\ sLog'.stale = sLog.stale
    BY <1>1, <1>3, SetsEffect DEF DelItem
  <2>3. /\ Steady(sSrv, sSrv') /\ r.ok \in BOOLEAN
        /\ sCache' \in [Keys -> -1..1] /\ CacheHonest'
    <3>1. Default \in 0..1 /\ Absent \in {Default, Absent}
      BY DEF Default
    <3> QED
      BY <1>1, <2>1, <2>2, <3>1, UpdateEffect
  <2>4. sExc' \in {"none", "error", "base"} /\ (sExc' = "base" => sExc = "base")
    <3>1. Typed /\ r.ok \in BOOLEAN /\ SessionRaises(r)
      BY <1>1, <2>1, <2>3
    <3> QED
      BY <3>1, RaisesEffect
  <2> QED
    BY <2>2, <2>3, <2>4, SameBlocks
<1>4. CASE GetItem
  <2>1. PICK k, r :
          /\ k \in Keys
          /\ r = IF sSrv.st \in {"I", "T"} THEN Does(sSrv) ELSE RefusedBy(sSrv)
          /\ sSrv' = r.srv /\ SessionRaises(r)
          /\ sCache' = IF r.ok THEN [sCache EXCEPT ![k] = sSrv.vals[k]] ELSE sCache
    BY <1>4 DEF GetItem
  <2>2. UNCHANGED <<sFrames, sLog>>
    BY <1>4 DEF GetItem
  <2>3. /\ Steady(sSrv, sSrv') /\ r.ok \in BOOLEAN /\ sSrv'.vals = sSrv.vals
    BY <1>1, <2>1, CommandsSteady, RefusedEffect DEF Does
  <2>4. sSrv' \in Servers /\ (sSrv.st = "lost" => sSrv'.st = "lost")
    BY <2>3 DEF Steady
  <2>5. sCache' \in [Keys -> -1..1] /\ CacheHonest'
    <3>1. CASE r.ok
      <4>1. sSrv.vals[k] \in -1..1
        BY <2>1, <1>1
      <4> QED
        BY <1>1, <2>1, <2>2, <2>3, <2>4, <3>1, <4>1, OneSetting
    <3>2. CASE ~r.ok
      BY <1>1, <2>1, <2>2, <2>3, <2>4, <3>2, NoSetting
    <3> QED
      BY <3>1, <3>2
  <2>6. sExc' \in {"none", "error", "base"} /\ (sExc' = "base" => sExc = "base")
    <3>1. Typed /\ r.ok \in BOOLEAN /\ SessionRaises(r)
      BY <1>1, <2>1, <2>3
    <3> QED
      BY <3>1, RaisesEffect
  <2> QED
    BY <1>1, <2>2, <2>3, <2>5, <2>6, SameBlocks DEF Typed
<1> QED
  BY <1>2, <1>3, <1>4

LEMMA EnterSettingsKeeps ==
  ASSUME SessInv, EnterSettings
  PROVE  SessInv'
<1>1. /\ Typed /\ Sound(sSrv) /\ Kept /\ CacheHonest /\ Accounted
      /\ sSrv \in Servers /\ sFrames \in Seq(Frames) /\ Len(sFrames) \in Nat
      /\ sSrv.vals \in [Keys -> 0..1] /\ sCache \in [Keys -> -1..1]
  BY ElementsOf DEF SessInv, Formed, Typed, Servers
<1>2. PICK k, v, stored, r, f :
        /\ k \in Keys /\ v \in 0..1
        /\ stored = StoredValue(k) /\ r = SetTo(sSrv, k, v)
        /\ f = [Frame("settings", "none", k) EXCEPT !.stored = stored]
        /\ sSrv' = r.srv /\ SessionRaises(r)
        /\ sCache' = IF r.ok THEN [sCache EXCEPT ![k] = v] ELSE sCache
        /\ sFrames' = IF r.ok THEN Append(sFrames, f) ELSE sFrames
  BY DEF EnterSettings
<1>3. stored \in 0..1
  <2>1. sCache[k] \in -1..1 /\ sSrv.vals[k] \in 0..1
    BY <1>1, <1>2
  <2> QED
    BY <1>2, <2>1 DEF StoredValue, Absent
<1>4. f \in Frames /\ f.kind = "settings" /\ f.stored = stored
  <2>1. k \in Keys /\ sSrv.vals[k] \in 0..1 /\ sLog.stale \in BOOLEAN
    BY <1>1, <1>2 DEF Typed
  <2>2. f = [ kind |-> "settings", type |-> "none", state |-> "open", items |-> {}, called |-> FALSE,
              key |-> k, stored |-> stored, pre |-> sSrv.vals[k], trusted |-> ~sLog.stale ]
    BY <1>2 DEF Frame
  <2> QED
    BY <1>3, <2>1, <2>2 DEF Frames
<1>5. /\ sLog' \in [based : BOOLEAN, stale : BOOLEAN, written : Nat, sets : Nat]
      /\ sLog'.based = sLog.based /\ sLog'.stale = sLog.stale
  BY <1>1, SetsEffect DEF EnterSettings
<1>6. /\ Steady(sSrv, sSrv') /\ r.ok \in BOOLEAN
      /\ sCache' \in [Keys -> -1..1] /\ CacheHonest'
  <2>1. v \in {v, Absent}
    OBVIOUS
  <2> QED
    BY <1>1, <1>2, <1>5, <2>1, UpdateEffect
<1>7. sExc' \in {"none", "error", "base"} /\ (sExc' = "base" => sExc = "base")
  <2>1. Typed /\ r.ok \in BOOLEAN /\ SessionRaises(r)
    BY <1>1, <1>2, <1>6
  <2> QED
    BY <2>1, RaisesEffect
<1>8. /\ sFrames' \in Seq(Frames) /\ Len(sFrames') \in Nat
      /\ \A i \in 1..Len(sFrames) : i \in 1..Len(sFrames') /\ sFrames'[i] = sFrames[i]
      /\ \A i \in 1..Len(sFrames') : i \in 1..Len(sFrames) \/ sFrames'[i] = f
  <2>1. CASE r.ok
    <3>1. sFrames' = Append(sFrames, f)
      BY <1>2, <2>1
    <3> QED
      BY <1>1, <1>4, <3>1, AppendEffect
  <2>2. CASE ~r.ok
    BY <1>1, <1>2, <2>2
  <2> QED
    BY <1>6, <2>1, <2>2
<1>9. Kept'
  BY <1>1, <1>3, <1>4, <1>8 DEF Kept
<1>10. sSrv' \in Servers /\ Sound(sSrv)' /\ (InBlock(sSrv') => InBlock(sSrv))
  BY <1>6 DEF Steady, Sound, InBlock
<1>11. Accounted'
  BY <1>1, <1>5, <1>7, <1>8, <1>10, AccountedKept
<1> QED
  BY <1>5, <1>6, <1>7, <1>8, <1>9, <1>10, <1>11 DEF SessInv, Formed, Typed

LEMMA ExitSettingsKeeps ==
  ASSUME SessInv, ExitSettings
  PROVE  SessInv'
<1>1. /\ Formed /\ Typed /\ Sound(sSrv) /\ Kept /\ CacheHonest /\ Accounted
      /\ sSrv \in Servers /\ sFrames \in Seq(Frames) /\ sFrames # <<>>
      /\ Len(sFrames) \in Nat \ {0} /\ Top \in Frames /\ Top = sFrames[Len(sFrames)]
      /\ Top.kind = "settings"
  BY FramesFacts DEF SessInv, Formed, Typed, ExitSettings
<1>2. Top.key \in Keys /\ Top.stored \in 0..1
  BY <1>1 DEF Kept, Frames
<1>3. PICK r :
        /\ r = SetTo(sSrv, Top.key, Top.stored)
        /\ sSrv' = r.srv /\ SessionRaises(r)
        /\ sCache' = IF r.ok THEN [sCache EXCEPT ![Top.key] = Top.stored] ELSE sCache
        /\ Leave(sExc # "none" \/ ~r.ok)
  BY DEF ExitSettings
<1>4. UNCHANGED sLog
  BY DEF ExitSettings
<1>5. /\ Steady(sSrv, sSrv') /\ r.ok \in BOOLEAN
      /\ sCache' \in [Keys -> -1..1] /\ CacheHonest'
  <2>1. Top.stored \in {Top.stored, Absent}
    OBVIOUS
  <2> QED
    BY <1>1, <1>2, <1>3, <1>4, <2>1, UpdateEffect
<1>6. sExc' \in {"none", "error", "base"} /\ (sExc' = "base" => sExc = "base")
  <2>1. Typed /\ r.ok \in BOOLEAN /\ SessionRaises(r)
    BY <1>1, <1>3, <1>5
  <2> QED
    BY <2>1, RaisesEffect
<1>7. PICK raising \in BOOLEAN : Leave(raising)
  BY <1>3, <1>5
<1>8. Left(raising)
  BY <1>1, <1>7, LeaveEffect
<1>9. sSrv' \in Servers /\ Sound(sSrv)' /\ (InBlock(sSrv') => InBlock(sSrv))
  BY <1>5 DEF Steady, Sound, InBlock
<1>10. sFrames' \in Seq(Frames) /\ Kept' /\ Accounted'
  BY <1>1, <1>4, <1>6, <1>8, <1>9, LeftKeeps DEF OpensBlock
<1> QED
  BY <1>1, <1>4, <1>5, <1>6, <1>9, <1>10 DEF SessInv, Formed, Typed

\* reset() touches every frame, and changes the state of none.
LEMMA ResetFrames ==
  ASSUME sFrames \in Seq(Frames),
         sFrames' = [j \in 1..Len(sFrames) |-> [sFrames[j] EXCEPT !.called = TRUE]]
  PROVE  Touched /\ \A j \in 1..Len(sFrames') : sFrames'[j].state = sFrames[j].state
<1>1. Len(sFrames) \in Nat /\ \A j \in 1..Len(sFrames) : sFrames[j] \in Frames
  BY ElementsOf
<1>2. ASSUME NEW j \in 1..Len(sFrames)
      PROVE  /\ sFrames'[j] \in Frames /\ Copies(sFrames[j], sFrames'[j]) /\ sFrames'[j].called = TRUE
             /\ sFrames'[j].items = sFrames[j].items /\ sFrames'[j].state = sFrames[j].state
  <2>1. PICK f \in Frames : f = sFrames[j]
    BY <1>1
  <2>2. PICK g : g = [f EXCEPT !.called = TRUE]
    OBVIOUS
  <2>3. sFrames'[j] = g
    BY <2>1, <2>2
  <2>4. g \in Frames
    BY <2>2 DEF Frames
  <2>5. Copies(f, g) /\ g.called = TRUE /\ g.items = f.items /\ g.state = f.state
    BY <2>2 DEF Frames, Copies
  <2> QED
    BY <2>1, <2>3, <2>4, <2>5
<1>3. sFrames' \in [1..Len(sFrames) -> Frames]
  BY <1>2
<1>4. sFrames' \in Seq(Frames) /\ Len(sFrames') = Len(sFrames)
  BY <1>1, <1>3, SequenceOf
<1> QED
  BY <1>2, <1>4 DEF Touched

LEMMA ResetKeeps ==
  ASSUME SessInv, Reset
  PROVE  SessInv'
<1>1. /\ Typed /\ Sound(sSrv) /\ Kept /\ CacheHonest /\ Accounted
      /\ sSrv \in Servers /\ sFrames \in Seq(Frames) /\ Len(sFrames) \in Nat
  BY ElementsOf DEF SessInv, Formed, Typed
<1>2. PICK a, r :
        /\ a = AbortBlock(sSrv).srv
        /\ r = IF closed THEN RefusedBy(sSrv) ELSE Does([a EXCEPT !.vals = [k \in Keys |-> Default]])
        /\ Executes(r) /\ SessionRaises(r)
        /\ sLog' = [sLog EXCEPT !.stale = sLog.stale \/ Stale(r), !.sets = @ + 1]
  BY DEF Reset
<1>3. Steady(sSrv, r.srv) /\ r.ok \in BOOLEAN /\ ~InBlock(r.srv)
  <2>1. CASE closed
    <3>1. r = RefusedBy(sSrv)
      BY <1>2, <2>1
    <3> QED
      BY <1>1, <2>1, <3>1, CommandsSteady, RefusedEffect DEF closed, InBlock
  <2>2. CASE ~closed
    <3>1. Steady(sSrv, a) /\ ~InBlock(a)
      BY <1>1, <1>2, CommandsSteady
    <3>2. r.srv = [a EXCEPT !.vals = [k \in Keys |-> Default]] /\ r.ok = TRUE
      BY <1>2, <2>2 DEF Does
    <3>3. r.srv \in Servers /\ r.srv.st = a.st /\ r.srv.saves = a.saves
      BY <3>1, <3>2 DEF Steady, Servers, Default
    <3> QED
      BY <2>2, <3>1, <3>2, <3>3 DEF Steady, Sound, InBlock, closed
  <2> QED
    BY <2>1, <2>2
<1>4. r.srv \in Servers /\ Sound(r.srv) /\ (InBlock(r.srv) => InBlock(sSrv))
      /\ (sSrv.st = "lost" => r.srv.st = "lost")
  BY <1>3 DEF Steady
<1>5. /\ sLog' \in [based : BOOLEAN, stale : BOOLEAN, written : Nat, sets : Nat]
      /\ sLog'.based = sLog.based /\ (sLog.stale \/ Stale(r) => sLog'.stale)
  <2>1. (sLog.stale \/ Stale(r)) \in BOOLEAN /\ sLog.sets + 1 \in Nat
    BY <1>1 DEF Typed
  <2> QED
    BY <1>1, <1>2, <2>1 DEF Typed
<1>6. sSrv' = r.srv /\ sSrv' \in Servers /\ sCache' \in [Keys -> -1..1] /\ CacheHonest'
  BY <1>1, <1>2, <1>4, <1>5, ExecutesEffect DEF Executes
<1>7. sExc' \in {"none", "error", "base"} /\ (sExc' = "base" => sExc = "base")
  <2>1. Typed /\ r.ok \in BOOLEAN /\ SessionRaises(r)
    BY <1>1, <1>2, <1>3
  <2> QED
    BY <2>1, RaisesEffect
<1>8. Touched
  BY <1>1, ResetFrames DEF Reset
<1>9. sFrames' \in Seq(Frames) /\ Len(sFrames') = Len(sFrames)
  BY <1>8 DEF Touched
<1>10. Kept'
  BY <1>1, <1>8 DEF Kept, Touched, Copies
<1>11. ~InBlock(sSrv')
  BY <1>3, <1>6
<1>12. Accounted'
  BY <1>1, <1>5, <1>7, <1>11 DEF Accounted, InBlock
<1> QED
  BY <1>4, <1>5, <1>6, <1>7, <1>9, <1>10, <1>12 DEF SessInv, Formed, Typed, Sound, InBlock

\* Nothing is sent, or the connection is gone.
LEMMA OthersKeep ==
  ASSUME SessInv, Throw \/ Catch \/ SessionLost \/ UNCHANGED sessionVars
  PROVE  SessInv'
<1>1. /\ Formed /\ CacheHonest /\ Accounted /\ Typed /\ Sound(sSrv) /\ sSrv \in Servers
  BY DEF SessInv, Formed, Typed
<1>2. CASE Throw \/ Catch \/ UNCHANGED sessionVars
  <2>1. UNCHANGED <<sSrv, sCache, sFrames>> /\ sLog'.stale = sLog.stale
    BY <1>1, <1>2 DEF Throw, Catch, sessionVars, Typed
  <2>2. /\ sExc' \in {"none", "error", "base"}
        /\ sLog' \in [based : BOOLEAN, stale : BOOLEAN, written : Nat, sets : Nat]
        /\ (sExc' = "base" => sLog'.based) /\ (sLog.based => sLog'.based)
    <3>1. CASE Throw
      <4>1. sLog' = [sLog EXCEPT !.based = sLog.based \/ (sExc' = "base")] /\ sExc' \in {"error", "base"}
        BY <3>1 DEF Throw
      <4>2. (sLog.based \/ (sExc' = "base")) \in BOOLEAN
        BY <1>1 DEF Typed
      <4> QED
        BY <1>1, <4>1, <4>2 DEF Typed
    <3>2. CASE Catch \/ UNCHANGED sessionVars
      BY <1>1, <3>2 DEF Catch, sessionVars, Accounted, Typed
    <3> QED
      BY <1>2, <3>1, <3>2
  <2>3. Formed'
    BY <1>1, <2>1, <2>2 DEF Formed, Typed, Sound, InBlock, Kept
  <2>4. CacheHonest' /\ Accounted'
    BY <1>1, <2>1, <2>2 DEF CacheHonest, closed, Accounted, InBlock, OpensBlock
  <2> QED
    BY <2>3, <2>4 DEF SessInv
<1>3. CASE SessionLost
  <2>1. PICK a \in Servers : a = Aborted(sSrv) /\ a.saves = <<>>
    BY <1>1, AbortedEffect
  <2>2. sSrv' = [a EXCEPT !.st = "lost"]
    BY <1>3, <2>1 DEF SessionLost
  <2>3. sSrv' \in Servers /\ sSrv'.st = "lost" /\ sSrv'.saves = <<>>
    BY <2>1, <2>2 DEF Servers
  <2>4. UNCHANGED <<sCache, sFrames, sLog>> /\ sExc' = "error"
    BY <1>3 DEF SessionLost
  <2>5. Formed'
    BY <1>1, <2>3, <2>4 DEF Formed, Typed, Sound, InBlock, Kept
  <2>6. CacheHonest' /\ Accounted'
    BY <2>3, <2>4 DEF CacheHonest, closed, Accounted, InBlock
  <2> QED
    BY <2>5, <2>6 DEF SessInv
<1> QED
  BY <1>2, <1>3

LEMMA SessionStep == SessInv /\ [SessionNext]_sessionVars => SessInv'
BY StartXactKeeps, CallsKeep, ExitXactKeeps, ExitXactRaisedKeeps, QueryKeeps, SettingsKeep,
   EnterSettingsKeeps, ExitSettingsKeeps, ResetKeeps, OthersKeep DEF SessionNext

LEMMA SessionStart == SessionInit => SessInv
<1> SUFFICES ASSUME SessionInit PROVE SessInv
  OBVIOUS
<1>1. sFrames \in Seq(Frames) /\ sSrv.saves = <<>> /\ <<>> \in Seq(Saves)
  BY DEF SessionInit
<1>2. sSrv \in Servers
  BY <1>1 DEF SessionInit, Servers, Default
<1>3. sCache \in [Keys -> -1..1] /\ \A k \in Keys : sCache[k] = Absent
  BY DEF SessionInit, Absent
<1>4. Formed
  BY <1>1, <1>2, <1>3 DEF SessionInit, Formed, Typed, Sound, InBlock, Kept
<1> QED
  BY <1>3, <1>4 DEF SessInv, CacheHonest, Accounted, InBlock, SessionInit

\* Whatever was called and failed in the with blocks, outside all of them no
\* transaction is left open on the server, unless an exception that is no
\* Exception went through one.
THEOREM NothingLeftOpenTheorem == SessionSpec => []NothingLeftOpen
<1>1. SessInv => NothingLeftOpen
  <2> SUFFICES ASSUME SessInv, sFrames = <<>>, ~sLog.based PROVE sSrv.st \in {"I", "lost"}
    BY DEF NothingLeftOpen
  <2>1. sSrv.st \in {"I", "T", "E", "lost"}
    BY DEF SessInv, Formed, Typed, Servers
  <2>2. ~InBlock(sSrv)
    BY DEF SessInv, Accounted
  <2> QED
    BY <2>1, <2>2 DEF InBlock
<1> QED
  BY <1>1, SessionStart, SessionStep, PTL DEF SessionSpec

\* The settings cache is the server's after every command, whatever was rolled
\* back, reset or refused: for a reported setting always, for any other until a
\* rollback or reset() changed one.
THEOREM CacheTheorem == SessionSpec => []CacheHonest
<1>1. SessInv => CacheHonest
  BY DEF SessInv
<1> QED
  BY <1>1, SessionStart, SessionStep, PTL DEF SessionSpec

-----------------------------------------------------------------------------
(* What makes a with block atomic: its rows are not in the savepoint it would  *)
(* go back to, and those of the blocks around it that are not its own are.     *)

Live(i) == sFrames[i].kind = "xact" /\ ~sFrames[i].called
\* The saved state that a rollback of frame i goes back to.
Point(i) == IF sFrames[i].type = "block" THEN 1 ELSE Newest(sSrv, i)
CalledFirst ==
  \A i, j \in 1..Len(sFrames) : i < j /\ sFrames[j].called => sFrames[i].called
Numbered ==
  /\ sSrv.work \subseteq 1..sLog.written
  /\ \A q \in 1..Len(sSrv.saves) : sSrv.saves[q].work \subseteq 1..sLog.written
Trusted ==
  \A i \in 1..Len(sFrames) :
    sFrames[i].kind = "settings" /\ sFrames[i].trusted => sFrames[i].stored = sFrames[i].pre
Undoable(i) ==
  /\ sFrames[i].type # "block" => Saved(sSrv, i) # {}
  /\ \A q \in 1..Point(i) : sFrames[i].items \cap sSrv.saves[q].work = {}
Alive(i) ==
  /\ sFrames[i].state = "open" /\ sFrames[i].type \in {"block", "savepoint"} /\ sSrv.st # "I"
  /\ sSrv.st = "lost" => sFrames[i].items \cap sSrv.work = {}
  /\ sSrv.st = "T" => sFrames[i].items \subseteq sSrv.work
  /\ InBlock(sSrv) => Undoable(i)
Nested(i, j) ==
  Point(i) < Point(j) /\ sFrames[i].items \ sFrames[j].items \subseteq sSrv.saves[Point(j)].work
AllAlive == \A i \in 1..Len(sFrames) : Live(i) => Alive(i)
AllNested ==
  InBlock(sSrv) =>
    \A i, j \in 1..Len(sFrames) : i < j /\ Live(i) /\ Live(j) => Nested(i, j)
AtomInv == CalledFirst /\ Numbered /\ Trusted /\ AllAlive /\ AllNested

LEMMA NewestIs ==
  ASSUME NEW srv \in Servers, NEW id, NEW p \in Saved(srv, id), \A q \in Saved(srv, id) : q <= p
  PROVE  Newest(srv, id) = p
<1>1. Newest(srv, id) \in Saved(srv, id) /\ \A q \in Saved(srv, id) : q <= Newest(srv, id)
  BY NewestSaved
<1>2. p <= Newest(srv, id) /\ Newest(srv, id) <= p
  BY <1>1
<1>3. Newest(srv, id) \in Int /\ p \in Int
  BY <1>1 DEF Saved
<1> QED
  BY <1>2, <1>3

\* Where there is a block, every live frame has its point among the saved states.
LEMMA PointFacts ==
  ASSUME Formed, InBlock(sSrv), NEW i \in 1..Len(sFrames), Live(i), Alive(i)
  PROVE  /\ Point(i) \in 1..Len(sSrv.saves) /\ Len(sSrv.saves) \in Nat
         /\ sSrv.saves[Point(i)] \in Saves
         /\ sFrames[i].type = "block" => Point(i) = 1
         /\ sFrames[i].type # "block" => /\ Point(i) = Newest(sSrv, i) /\ Point(i) >= 2
                                         /\ Point(i) \in Saved(sSrv, i)
                                         /\ \A q \in Saved(sSrv, i) : q <= Point(i)
<1>1. /\ sSrv \in Servers /\ sSrv.saves \in Seq(Saves) /\ sSrv.saves # <<>>
      /\ Len(sSrv.saves) \in Nat \ {0}
      /\ \A q \in 1..Len(sSrv.saves) : sSrv.saves[q] \in Saves
  <2>1. sSrv \in Servers /\ sSrv.saves \in Seq(Saves) /\ sSrv.saves # <<>>
    BY DEF Formed, Typed, Sound, Servers
  <2> QED
    BY <2>1, ElementsOf
<1>2. CASE sFrames[i].type = "block"
  BY <1>1, <1>2 DEF Point
<1>3. CASE sFrames[i].type # "block"
  <2>1. Saved(sSrv, i) # {} /\ Point(i) = Newest(sSrv, i)
    BY <1>3 DEF Alive, Undoable, Point
  <2>2. /\ Newest(sSrv, i) \in Saved(sSrv, i) /\ Newest(sSrv, i) \in 2..Len(sSrv.saves)
        /\ \A q \in Saved(sSrv, i) : q <= Newest(sSrv, i)
    BY <1>1, <2>1, NewestSaved
  <2> QED
    BY <1>1, <1>3, <2>1, <2>2
<1> QED
  BY <1>2, <1>3

\* Dropping saved states behind the point of a frame leaves it its point.
LEMMA PointKept ==
  ASSUME Formed, sSrv' \in Servers, InBlock(sSrv), NEW i \in 1..Len(sFrames), Live(i), Alive(i),
         NEW m \in Nat, m = Len(sSrv'.saves), m <= Len(sSrv.saves), Point(i) <= m,
         \A q \in 1..m : sSrv'.saves[q] = sSrv.saves[q],
         sFrames'[i].type = sFrames[i].type
  PROVE  /\ Point(i)' = Point(i)
         /\ sFrames[i].type # "block" => Saved(sSrv, i)' # {}
<1>1. CASE sFrames[i].type = "block"
  BY <1>1 DEF Point
<1>2. CASE sFrames[i].type # "block"
  <2>1. /\ Point(i) = Newest(sSrv, i) /\ Point(i) >= 2 /\ Point(i) \in Saved(sSrv, i)
        /\ \A q \in Saved(sSrv, i) : q <= Point(i)
    BY <1>2, PointFacts
  <2>2. Saved(sSrv', i) = {q \in Saved(sSrv, i) : q <= m}
    <3>1. Len(sSrv.saves) \in Nat
      BY PointFacts
    <3>2. \A q \in 2..m : sSrv'.saves[q] = sSrv.saves[q]
      OBVIOUS
    <3>3. \A q : q \in 2..m <=> q \in 2..Len(sSrv.saves) /\ q <= m
      BY <3>1
    <3> QED
      BY <3>2, <3>3 DEF Saved
  <2>3. Point(i) \in Saved(sSrv', i) /\ \A q \in Saved(sSrv', i) : q <= Point(i)
    BY <2>1, <2>2
  <2>4. Newest(sSrv', i) = Point(i)
    BY <2>3, NewestIs
  <2>5. Point(i)' = Newest(sSrv', i) /\ Saved(sSrv, i)' = Saved(sSrv', i)
    BY <1>2 DEF Point, Saved, Newest
  <2> QED
    BY <2>3, <2>4, <2>5
<1> QED
  BY <1>1, <1>2

\* The frames that stay, with at most fewer rows than before.
Narrowed(X) ==
  /\ Len(sFrames') \in Nat /\ Len(sFrames') <= Len(sFrames)
  /\ \A j \in 1..Len(sFrames') :
       /\ Copies(sFrames[j], sFrames'[j])
       /\ sFrames'[j].state = sFrames[j].state /\ sFrames'[j].called = sFrames[j].called
       /\ sFrames'[j].items = sFrames[j].items \ X
\* The saved states that stay.
Shortened ==
  /\ Len(sSrv'.saves) <= Len(sSrv.saves)
  /\ \A q \in 1..Len(sSrv'.saves) : sSrv'.saves[q] = sSrv.saves[q]
\* What a live frame asks of the session after the step.
Suits(i, X) ==
  /\ sSrv'.st # "I"
  /\ InBlock(sSrv') => Point(i) <= Len(sSrv'.saves)
  /\ sSrv'.st = "lost" => (sFrames[i].items \ X) \cap sSrv'.work = {}
  /\ sSrv'.st = "T" => sFrames[i].items \ X \subseteq sSrv'.work

LEMMA Narrows ==
  ASSUME Formed, Formed', AtomInv, NEW X, Narrowed(X), Numbered',
         InBlock(sSrv') => InBlock(sSrv) /\ Shortened,
         \A i \in 1..Len(sFrames') : Live(i) => Suits(i, X)
  PROVE  AtomInv'
<1> DEFINE n == Len(sFrames')
<1>1. /\ n \in Nat /\ Len(sFrames) \in Nat /\ sSrv' \in Servers
      /\ \A i \in 1..n : i \in 1..Len(sFrames)
  <2>1. Len(sFrames) \in Nat
    BY ElementsOf DEF Formed, Typed
  <2> QED
    BY <2>1 DEF Narrowed, Formed, Typed
<1>2. \A i \in 1..n : /\ sFrames'[i].kind = sFrames[i].kind /\ sFrames'[i].type = sFrames[i].type
                      /\ sFrames'[i].state = sFrames[i].state /\ sFrames'[i].called = sFrames[i].called
                      /\ sFrames'[i].items = sFrames[i].items \ X
                      /\ sFrames'[i].trusted = sFrames[i].trusted
                      /\ sFrames'[i].stored = sFrames[i].stored /\ sFrames'[i].pre = sFrames[i].pre
  BY DEF Narrowed, Copies
<1>3. CalledFirst' /\ Trusted'
  BY <1>1, <1>2 DEF AtomInv, CalledFirst, Trusted
<1>4. ASSUME NEW i \in 1..n, Live(i)'
      PROVE  i \in 1..Len(sFrames) /\ Live(i) /\ Alive(i) /\ Suits(i, X)
  <2>1. i \in 1..Len(sFrames) /\ Live(i)
    BY <1>1, <1>2, <1>4 DEF Live
  <2> QED
    BY <1>4, <2>1 DEF AtomInv, AllAlive
<1>5. ASSUME NEW i \in 1..n, Live(i)', InBlock(sSrv')
      PROVE  /\ Point(i)' = Point(i) /\ Point(i) \in 1..Len(sSrv'.saves)
             /\ sSrv'.saves[Point(i)] = sSrv.saves[Point(i)]
             /\ sFrames'[i].type # "block" => Saved(sSrv, i)' # {}
  <2>1. i \in 1..Len(sFrames) /\ Live(i) /\ Alive(i) /\ Suits(i, X) /\ InBlock(sSrv) /\ Shortened
    BY <1>4, <1>5
  <2>2. sFrames'[i].type = sFrames[i].type
    BY <1>2
  <2>3. Point(i) \in 1..Len(sSrv.saves)
    BY <2>1, PointFacts
  <2>4. Len(sSrv'.saves) \in Nat
    BY <1>1, ElementsOf DEF Servers
  <2>5. Point(i) \in 1..Len(sSrv'.saves)
    BY <1>5, <2>1, <2>3, <2>4 DEF Suits
  <2>6. /\ Point(i)' = Point(i)
        /\ sFrames[i].type # "block" => Saved(sSrv, i)' # {}
    BY <1>1, <2>1, <2>2, <2>4, <2>5, PointKept DEF Shortened
  <2> QED
    BY <2>1, <2>2, <2>5, <2>6 DEF Shortened
<1>6. ASSUME NEW i \in 1..n, Live(i)'
      PROVE  Alive(i)'
  <2>1. i \in 1..Len(sFrames) /\ Live(i) /\ Alive(i) /\ Suits(i, X)
    BY <1>4, <1>6
  <2>2. /\ sFrames'[i].state = "open" /\ sFrames'[i].type \in {"block", "savepoint"} /\ sSrv'.st # "I"
        /\ sSrv'.st = "lost" => sFrames'[i].items \cap sSrv'.work = {}
        /\ sSrv'.st = "T" => sFrames'[i].items \subseteq sSrv'.work
    BY <1>2, <2>1 DEF Alive, Suits
  <2>3. ASSUME InBlock(sSrv')
        PROVE  \A q \in 1..Point(i)' : sFrames'[i].items \cap sSrv'.saves[q].work = {}
    <3>1. Undoable(i)
      BY <2>1, <2>3 DEF Alive
    <3>2. /\ Point(i)' = Point(i) /\ Point(i) \in 1..Len(sSrv'.saves) /\ Shortened
          /\ Len(sSrv'.saves) \in Nat
      BY <1>1, <1>5, <1>6, <2>3, ElementsOf DEF Servers
    <3>3. \A q \in 1..Point(i) : sSrv'.saves[q] = sSrv.saves[q]
      BY <3>2 DEF Shortened
    <3> QED
      BY <1>2, <3>1, <3>2, <3>3 DEF Undoable
  <2>4. InBlock(sSrv') => Undoable(i)'
    BY <1>5, <1>6, <2>3 DEF Undoable
  <2> QED
    BY <2>2, <2>4 DEF Alive, InBlock
<1>7. ASSUME NEW i \in 1..n, NEW j \in 1..n, i < j, Live(i)', Live(j)', InBlock(sSrv')
      PROVE  Nested(i, j)'
  <2>1. Nested(i, j)
    BY <1>4, <1>7 DEF AtomInv, AllNested
  <2>2. Point(i)' = Point(i) /\ Point(j)' = Point(j) /\ sSrv'.saves[Point(j)] = sSrv.saves[Point(j)]
    BY <1>5, <1>7
  <2>3. sFrames'[i].items \ sFrames'[j].items \subseteq sFrames[i].items \ sFrames[j].items
    BY <1>2
  <2> QED
    BY <2>1, <2>2, <2>3 DEF Nested
<1>8. AllAlive'
  BY <1>6 DEF AllAlive
<1>9. AllNested'
  BY <1>7 DEF AllNested, InBlock
<1> QED
  BY <1>3, <1>8, <1>9 DEF AtomInv

\* No live frame is left: what remains is the numbering of the rows.
LEMMA NoneLive ==
  ASSUME CalledFirst', Numbered', Trusted', \A i \in 1..Len(sFrames') : ~Live(i)'
  PROVE  AtomInv'
BY DEF AtomInv, AllAlive, AllNested

LEMMA FramesKept ==
  ASSUME Formed, UNCHANGED sFrames
  PROVE  Narrowed({})
<1>1. Len(sFrames) \in Nat
  BY ElementsOf DEF Formed, Typed
<1> QED
  BY <1>1 DEF Narrowed, Copies

LEMMA FramesLeft ==
  ASSUME Formed, sFrames # <<>>, NEW raising \in BOOLEAN, Left(raising)
  PROVE  Narrowed(IF raising THEN Top.items ELSE {})
<1>1. Len(sFrames) \in Nat \ {0}
  BY FramesFacts DEF Formed, Typed
<1>2. Len(sFrames') = Len(sFrames) - 1
  BY DEF Left
<1> QED
  BY <1>1, <1>2 DEF Narrowed, Left

\* Steps that neither write nor undo anything.
LEMMA QuietAtomic ==
  ASSUME Formed, Formed', AtomInv, NEW X, Narrowed(X),
         sSrv'.work = sSrv.work, sSrv'.saves = sSrv.saves,
         sSrv'.st = sSrv.st \/ (sSrv.st = "T" /\ sSrv'.st = "E"), sLog'.written = sLog.written
  PROVE  AtomInv'
<1>1. Numbered'
  BY DEF AtomInv, Numbered
<1>2. InBlock(sSrv') => InBlock(sSrv) /\ Shortened
  <2>1. Len(sSrv.saves) \in Nat
    BY ElementsOf DEF Formed, Typed, Servers
  <2> QED
    BY <2>1 DEF InBlock, Shortened
<1>3. ASSUME NEW i \in 1..Len(sFrames'), Live(i) PROVE Suits(i, X)
  <2>1. i \in 1..Len(sFrames) /\ Alive(i)
    <3>1. i \in 1..Len(sFrames)
      BY DEF Narrowed
    <3> QED
      BY <1>3, <3>1 DEF AtomInv, AllAlive
  <2>2. InBlock(sSrv') => Point(i) <= Len(sSrv'.saves)
    BY <1>2, <1>3, <2>1, PointFacts
  <2> QED
    BY <2>1, <2>2 DEF Suits, Alive
<1> QED
  BY <1>1, <1>2, <1>3, Narrows

\* Where a commit, a rollback or an abort leads to.
Recedes(srv, srv2) ==
  /\ srv2.work = srv.work \/ \E q \in 1..Len(srv.saves) : srv2.work = srv.saves[q].work
  /\ Len(srv2.saves) <= Len(srv.saves)
  /\ \A q \in 1..Len(srv2.saves) : srv2.saves[q] = srv.saves[q]

LEMMA CommandsRecede ==
  ASSUME NEW srv \in Servers
  PROVE  /\ Recedes(srv, srv) /\ Recedes(srv, RefusedBy(srv).srv) /\ Recedes(srv, Aborted(srv))
         /\ Recedes(srv, CommitBlock(srv).srv) /\ Recedes(srv, AbortBlock(srv).srv)
         /\ \A id : Recedes(srv, ReleaseTo(srv, id).srv) /\ Recedes(srv, RollbackTo(srv, id).srv)
<1>1. /\ srv.saves \in Seq(Saves) /\ Len(srv.saves) \in Nat /\ srv.st \in {"I", "T", "E", "lost"}
      /\ srv.saves # <<>> => 1 \in 1..Len(srv.saves)
  BY DEF Servers
<1>2. Recedes(srv, srv)
  BY <1>1 DEF Recedes
<1>3. Recedes(srv, RefusedBy(srv).srv)
  <2>1. PICK s : s = RefusedBy(srv).srv /\ s.work = srv.work /\ s.saves = srv.saves
    BY RefusedEffect
  <2> QED
    BY <1>1, <2>1 DEF Recedes
<1>4. \A s : s.saves = <<>> /\ s.work = srv.work => Recedes(srv, s)
  BY <1>1 DEF Recedes
<1>5. Recedes(srv, Aborted(srv))
  <2>1. CASE srv.saves = <<>>
    BY <1>2, <2>1, AbortedEffect
  <2>2. CASE srv.saves # <<>>
    <3>1. Aborted(srv).saves = <<>> /\ Aborted(srv).work = srv.saves[1].work
      BY <2>2, AbortedEffect
    <3>2. Len(Aborted(srv).saves) = 0
      BY <3>1
    <3> QED
      BY <1>1, <2>2, <3>1, <3>2 DEF Recedes
  <2> QED
    BY <2>1, <2>2
<1>6. Recedes(srv, CommitBlock(srv).srv) /\ Recedes(srv, AbortBlock(srv).srv)
  <2>1. Recedes(srv, Idled(srv))
    BY <1>4, IdledEffect
  <2> QED
    BY <1>1, <1>3, <1>5, <2>1, CommitEffect, AbortEffect DEF Does
<1>7. ASSUME NEW id
      PROVE  Recedes(srv, ReleaseTo(srv, id).srv) /\ Recedes(srv, RollbackTo(srv, id).srv)
  <2> DEFINE n == Newest(srv, id)
  <2>1. CASE Saved(srv, id) = {}
    BY <1>3, <2>1, ReleaseEffect, RollbackEffect
  <2>2. CASE Saved(srv, id) # {}
    <3>1. n \in 2..Len(srv.saves) /\ n - 1 \in 0..Len(srv.saves) /\ n \in 1..Len(srv.saves)
      <4>1. n \in 2..Len(srv.saves)
        BY <2>2, NewestSaved
      <4> QED
        BY <1>1, <4>1
    <3>2. /\ Len(SubSeq(srv.saves, 1, n - 1)) = n - 1
          /\ \A q \in 1..n - 1 : SubSeq(srv.saves, 1, n - 1)[q] = srv.saves[q]
      BY <1>1, <3>1, Prefix
    <3>3. n - 1 <= Len(srv.saves)
      BY <1>1, <3>1
    <3>4. Recedes(srv, ReleaseTo(srv, id).srv)
      <4>1. CASE ReleaseTo(srv, id).ok
        BY <3>2, <3>3, <4>1, ReleaseEffect DEF Recedes
      <4>2. CASE ~ReleaseTo(srv, id).ok
        BY <1>3, <4>2, ReleaseEffect
      <4> QED
        BY <4>1, <4>2
    <3>5. Recedes(srv, RollbackTo(srv, id).srv)
      <4>1. CASE RollbackTo(srv, id).ok
        BY <3>1, <3>2, <3>3, <4>1, RollbackEffect DEF Recedes
      <4>2. CASE ~RollbackTo(srv, id).ok
        BY <1>3, <4>2, RollbackEffect
      <4> QED
        BY <4>1, <4>2
    <3> QED
      BY <3>4, <3>5
  <2> QED
    BY <2>1, <2>2
<1> QED
  BY <1>2, <1>3, <1>5, <1>6, <1>7

LEMMA ObjectsRecede ==
  ASSUME sSrv \in Servers, NEW f \in Frames, NEW i
  PROVE  Recedes(sSrv, CommitOf(f, i).r.srv) /\ Recedes(sSrv, RollbackOf(f, i).r.srv)
<1>1. f.state \in {"open", "committed", "aborted"}
  BY DEF Frames
<1>2. CASE f.state = "open"
  <2>1. CommitOf(f, i).r = IF f.type = "block" THEN CommitBlock(sSrv) ELSE ReleaseTo(sSrv, i)
    BY <1>2 DEF CommitOf
  <2>2. RollbackOf(f, i).r = IF f.type = "block" THEN AbortBlock(sSrv) ELSE RollbackTo(sSrv, i)
    BY <1>2 DEF RollbackOf, UndoCommand
  <2> QED
    BY <2>1, <2>2, CommandsRecede
<1>3. CASE f.state # "open"
  <2>1. CommitOf(f, i).r.srv = sSrv /\ RollbackOf(f, i).r.srv = sSrv
    BY <1>1, <1>3 DEF CommitOf, RollbackOf, Does
  <2> QED
    BY <2>1, CommandsRecede
<1> QED
  BY <1>2, <1>3

LEMMA RecedesNumbered ==
  ASSUME Formed, Numbered, Recedes(sSrv, sSrv'), sLog'.written = sLog.written, sSrv' \in Servers
  PROVE  Numbered'
<1>1. Len(sSrv.saves) \in Nat /\ Len(sSrv'.saves) \in Nat
  BY ElementsOf DEF Formed, Typed, Servers
<1>2. \A q \in 1..Len(sSrv'.saves) : q \in 1..Len(sSrv.saves)
  BY <1>1 DEF Recedes
<1> QED
  BY <1>2 DEF Numbered, Recedes

\* What is called on a block, or reset(), leaves nothing to be promised.
LEMMA TouchedAtomic ==
  ASSUME Formed, Formed', AtomInv, Touched, Recedes(sSrv, sSrv'), sLog'.written = sLog.written
  PROVE  AtomInv'
<1>1. sSrv' \in Servers
  BY DEF Formed, Typed
<1>2. Numbered'
  BY <1>1, RecedesNumbered DEF AtomInv
<1>3. CalledFirst' /\ \A i \in 1..Len(sFrames') : ~Live(i)'
  BY DEF Touched, CalledFirst, Live
<1>4. Trusted'
  BY DEF Touched, Copies, AtomInv, Trusted
<1> QED
  BY <1>2, <1>3, <1>4, NoneLive

LEMMA CallsAtomic ==
  ASSUME SessInv, Formed', AtomInv, CommitCall \/ RollbackCall
  PROVE  AtomInv' /\ Len(sFrames') = Len(sFrames)
<1>1. /\ Formed /\ Typed /\ Sound(sSrv) /\ sSrv \in Servers /\ sFrames \in Seq(Frames)
  BY DEF SessInv, Formed, Typed
<1>2. PICK i, d : /\ i \in Blocks /\ Called(i, d)
                  /\ d = CommitOf(sFrames[i], i) \/ d = RollbackOf(sFrames[i], i)
  BY DEF CommitCall, RollbackCall
<1>3. i \in 1..Len(sFrames) /\ i \in Nat /\ sFrames[i] \in Frames
  BY <1>1, <1>2, ElementsOf DEF Blocks
<1>4. Recedes(sSrv, d.r.srv) /\ d.state \in {"open", "committed", "aborted"}
  BY <1>1, <1>2, <1>3, ObjectsRecede, CommitOfEffect, RollbackOfEffect
<1>5. sSrv' = d.r.srv
  BY <1>2 DEF Called, Executes
<1>6. sLog'.written = sLog.written
  BY <1>1, <1>2, LogsEffect DEF Called
<1>7. sFrames' = [j \in 1..Len(sFrames) |->
                    [sFrames[j] EXCEPT !.called = TRUE, !.state = IF i = j THEN d.state ELSE @]]
  BY <1>2 DEF Called
<1>8. Touched
  BY <1>1, <1>3, <1>4, <1>7, CalledFrames
<1> QED
  BY <1>1, <1>4, <1>5, <1>6, <1>8, TouchedAtomic DEF Touched

LEMMA ResetAtomic ==
  ASSUME SessInv, Formed', AtomInv, Reset
  PROVE  AtomInv' /\ Len(sFrames') = Len(sFrames)
<1>1. Formed /\ Typed /\ sSrv \in Servers /\ sFrames \in Seq(Frames)
  BY DEF SessInv, Formed, Typed
<1>2. PICK a, r :
        /\ a = AbortBlock(sSrv).srv
        /\ r = IF closed THEN RefusedBy(sSrv) ELSE Does([a EXCEPT !.vals = [k \in Keys |-> Default]])
        /\ Executes(r)
        /\ sLog' = [sLog EXCEPT !.stale = sLog.stale \/ Stale(r), !.sets = @ + 1]
  BY DEF Reset
<1>3. Recedes(sSrv, r.srv)
  <2>1. CASE closed
    BY <1>1, <1>2, <2>1, CommandsRecede
  <2>2. CASE ~closed
    <3>1. a \in Servers /\ Recedes(sSrv, a)
      BY <1>1, <1>2, AbortEffect, CommandsRecede
    <3>2. r.srv = [a EXCEPT !.vals = [k \in Keys |-> Default]]
      BY <1>2, <2>2 DEF Does
    <3>3. r.srv.work = a.work /\ r.srv.saves = a.saves
      BY <3>1, <3>2 DEF Servers
    <3> QED
      BY <3>1, <3>3 DEF Recedes
  <2> QED
    BY <2>1, <2>2
<1>4. sSrv' = r.srv /\ sLog'.written = sLog.written
  BY <1>1, <1>2 DEF Executes, Typed
<1>5. Touched
  BY <1>1, ResetFrames DEF Reset
<1> QED
  BY <1>1, <1>3, <1>4, <1>5, TouchedAtomic DEF Touched

\* The block that is left, when nobody else has ended it.
Undone(srv) ==
  /\ Top.items \cap srv.work = {}
  /\ Recedes(sSrv, srv) /\ srv.st \in {"I", "T"}
  /\ \A i \in 1..Len(sFrames) - 1 :
       Live(i) => /\ srv.st = "T" /\ Point(i) <= Len(srv.saves)
                  /\ sFrames[i].items \ Top.items \subseteq srv.work

LEMMA TopFacts ==
  ASSUME Formed, AtomInv, sFrames # <<>>, Top.kind = "xact", ~Top.called
  PROVE  LET n == Len(sFrames)
         IN /\ n \in Nat \ {0} /\ Top = sFrames[n] /\ Live(n) /\ Alive(n)
            /\ Top.state = "open" /\ Top.type \in {"block", "savepoint"}
            /\ sSrv.st \in {"T", "E", "lost"} /\ InBlock(sSrv) <=> sSrv.st # "lost"
            /\ InBlock(sSrv) => \A i \in 1..n - 1 : Live(i) => Nested(i, n) /\ Alive(i)
<1> DEFINE n == Len(sFrames)
<1>1. n \in Nat \ {0} /\ Top = sFrames[n] /\ sSrv.st \in {"I", "T", "E", "lost"}
  BY FramesFacts DEF Formed, Typed, Servers
<1>2. Live(n)
  BY <1>1 DEF Live
<1>3. Alive(n)
  BY <1>1, <1>2 DEF AtomInv, AllAlive
<1>4. ASSUME InBlock(sSrv), NEW i \in 1..n - 1, Live(i) PROVE Nested(i, n) /\ Alive(i)
  <2>1. i \in 1..n /\ n \in 1..n /\ i < n
    BY <1>1
  <2> QED
    BY <1>2, <1>4, <2>1 DEF AtomInv, AllNested, AllAlive
<1> QED
  BY <1>1, <1>2, <1>3, <1>4 DEF Alive, InBlock

LEMMA AbortUndoes ==
  ASSUME Formed, AtomInv, sFrames # <<>>, Top.kind = "xact", ~Top.called, Top.type = "block",
         InBlock(sSrv)
  PROVE  Undone(Aborted(sSrv)) /\ \A i \in 1..Len(sFrames) - 1 : ~Live(i)
<1> DEFINE n == Len(sFrames)
<1>1. /\ n \in Nat \ {0} /\ Top = sFrames[n] /\ Live(n) /\ Alive(n) /\ n \in 1..n
      /\ \A i \in 1..n - 1 : Live(i) => Nested(i, n) /\ Alive(i)
  BY TopFacts
<1>2. sSrv \in Servers /\ sSrv.saves # <<>> /\ Point(n) = 1
  BY <1>1 DEF Formed, Typed, Sound, Point
<1>3. \A i \in 1..n - 1 : ~Live(i)
  <2> SUFFICES ASSUME NEW i \in 1..n - 1, Live(i) PROVE FALSE
    OBVIOUS
  <2>1. Nested(i, n) /\ Alive(i) /\ i \in 1..n
    BY <1>1
  <2>2. Point(i) \in 1..Len(sSrv.saves) /\ Len(sSrv.saves) \in Nat
    BY <2>1, PointFacts
  <2>3. Point(i) < 1
    BY <1>2, <2>1 DEF Nested
  <2> QED
    BY <2>2, <2>3
<1>4. /\ Aborted(sSrv).st = "I" /\ Aborted(sSrv).work = sSrv.saves[1].work
      /\ Recedes(sSrv, Aborted(sSrv))
  BY <1>2, AbortedEffect, CommandsRecede
<1>5. Top.items \cap sSrv.saves[1].work = {}
  <2>1. 1 \in 1..Point(n)
    BY <1>2
  <2> QED
    BY <1>1, <2>1 DEF Alive, Undoable
<1> QED
  BY <1>3, <1>4, <1>5 DEF Undone

LEMMA SavepointUndoes ==
  ASSUME Formed, AtomInv, sFrames # <<>>, Top.kind = "xact", ~Top.called, Top.type # "block",
         InBlock(sSrv), NEW r, r = RollbackTo(sSrv, Len(sFrames))
  PROVE  r.ok /\ Undone(r.srv)
<1> DEFINE n == Len(sFrames)
<1>1. /\ n \in Nat \ {0} /\ Top = sFrames[n] /\ Live(n) /\ Alive(n) /\ n \in 1..n
      /\ \A i \in 1..n - 1 : Live(i) => Nested(i, n) /\ Alive(i)
  BY TopFacts
<1>2. sSrv \in Servers /\ sSrv.saves \in Seq(Saves)
  BY DEF Formed, Typed, Servers
<1>3. PICK p : /\ p = Point(n) /\ p = Newest(sSrv, n) /\ p \in 1..Len(sSrv.saves) /\ p >= 2
               /\ Saved(sSrv, n) # {} /\ Len(sSrv.saves) \in Nat
  BY <1>1, PointFacts
<1>4. /\ r.ok /\ r.srv.st = "T" /\ r.srv.work = sSrv.saves[p].work
      /\ r.srv.saves = SubSeq(sSrv.saves, 1, p - 1) /\ Recedes(sSrv, r.srv)
  BY <1>2, <1>3, RollbackEffect, CommandsRecede DEF InBlock
<1>5. Len(r.srv.saves) = p - 1
  <2>1. p - 1 \in 0..Len(sSrv.saves)
    BY <1>3
  <2> QED
    BY <1>2, <1>4, <2>1, Prefix
<1>6. Top.items \cap sSrv.saves[p].work = {}
  <2>1. p \in 1..Point(n)
    BY <1>3
  <2> QED
    BY <1>1, <1>3, <2>1 DEF Alive, Undoable
<1>7. ASSUME NEW i \in 1..n - 1, Live(i)
      PROVE  Point(i) <= p - 1 /\ sFrames[i].items \ Top.items \subseteq sSrv.saves[p].work
  <2>1. Nested(i, n) /\ Alive(i) /\ i \in 1..n
    BY <1>1, <1>7
  <2>2. Point(i) \in 1..Len(sSrv.saves)
    BY <1>7, <2>1, PointFacts
  <2> QED
    BY <1>1, <1>3, <2>1, <2>2 DEF Nested
<1> QED
  BY <1>4, <1>5, <1>6, <1>7 DEF Undone

\* The block was rolled back, and left with an error.
LEMMA UndoneAtomic ==
  ASSUME Formed, Formed', AtomInv, sFrames # <<>>, Left(TRUE), Undone(sSrv'),
         InBlock(sSrv), sLog'.written = sLog.written
  PROVE  AtomInv'
<1>1. Narrowed(Top.items)
  <2>1. Narrowed(IF TRUE THEN Top.items ELSE {})
    BY FramesLeft
  <2> QED
    BY <2>1
<1>2. sSrv' \in Servers /\ Len(sFrames') = Len(sFrames) - 1 /\ Len(sFrames) \in Nat \ {0}
  BY FramesFacts DEF Formed, Typed, Left
<1>3. Recedes(sSrv, sSrv')
  BY DEF Undone
<1>4. Numbered'
  BY <1>2, <1>3, RecedesNumbered DEF AtomInv
<1>5. InBlock(sSrv') => InBlock(sSrv) /\ Shortened
  BY <1>3 DEF Recedes, Shortened
<1>6. ASSUME NEW i \in 1..Len(sFrames'), Live(i) PROVE Suits(i, Top.items)
  <2>1. i \in 1..Len(sFrames) - 1
    BY <1>2
  <2>2. sSrv'.st = "T" /\ Point(i) <= Len(sSrv'.saves)
        /\ sFrames[i].items \ Top.items \subseteq sSrv'.work
    BY <1>6, <2>1 DEF Undone
  <2> QED
    BY <2>2 DEF Suits
<1> QED
  BY <1>1, <1>4, <1>5, <1>6, Narrows

\* An ended block is left: those around it are called as well.
LEMMA CalledTopAtomic ==
  ASSUME Formed, Formed', AtomInv, sFrames # <<>>, Top.called, NEW raising \in BOOLEAN, Left(raising),
         Recedes(sSrv, sSrv'), sLog'.written = sLog.written
  PROVE  AtomInv'
<1>1. /\ Top = sFrames[Len(sFrames)] /\ Len(sFrames) \in Nat \ {0} /\ sSrv' \in Servers
      /\ Len(sFrames') = Len(sFrames) - 1
  BY FramesFacts DEF Formed, Typed, Left
<1>2. ASSUME NEW i \in 1..Len(sFrames') PROVE sFrames'[i].called
  <2>1. i \in 1..Len(sFrames) /\ Len(sFrames) \in 1..Len(sFrames) /\ i < Len(sFrames)
    BY <1>1
  <2>2. sFrames[i].called
    BY <1>1, <2>1 DEF AtomInv, CalledFirst
  <2> QED
    BY <2>2 DEF Left
<1>3. CalledFirst' /\ \A i \in 1..Len(sFrames') : ~Live(i)'
  BY <1>2 DEF CalledFirst, Live
<1>4. Trusted'
  <2>1. \A i \in 1..Len(sFrames') : i \in 1..Len(sFrames)
    BY <1>1
  <2> QED
    BY <2>1 DEF Left, Copies, AtomInv, Trusted
<1>5. Numbered'
  BY <1>1, RecedesNumbered DEF AtomInv
<1> QED
  BY <1>3, <1>4, <1>5, NoneLive

\* RollbackOf of the block that is left, if nobody else has ended it.
LEMMA RollbackUndoes ==
  ASSUME Formed, AtomInv, sFrames # <<>>, Top.kind = "xact", ~Top.called, InBlock(sSrv),
         NEW r, r = RollbackOf(Top, Len(sFrames)).r
  PROVE  r.ok /\ Undone(r.srv)
<1>1. Top.state = "open" /\ sSrv \in Servers /\ sSrv.st # "lost"
  BY TopFacts DEF Formed, Typed, InBlock
<1>2. r = IF Top.type = "block" THEN AbortBlock(sSrv) ELSE RollbackTo(sSrv, Len(sFrames))
  BY <1>1 DEF RollbackOf, UndoCommand
<1>3. CASE Top.type = "block"
  BY <1>1, <1>2, <1>3, AbortUndoes, AbortEffect DEF Does
<1>4. CASE Top.type # "block"
  BY <1>2, <1>4, SavepointUndoes
<1> QED
  BY <1>3, <1>4

\* COMMIT or RELEASE of the block that is left.
LEMMA CommitKeeps ==
  ASSUME Formed, Formed', AtomInv, sFrames # <<>>, Top.kind = "xact", ~Top.called, sSrv.st = "T",
         NEW r, r = CommitOf(Top, Len(sFrames)).r, sSrv' = r.srv, r.ok => Left(FALSE),
         sLog'.written = sLog.written
  PROVE  r.ok /\ Top.items \subseteq sSrv'.work /\ AtomInv'
<1> DEFINE n == Len(sFrames)
<1>1. /\ n \in Nat \ {0} /\ Top = sFrames[n] /\ Live(n) /\ Alive(n) /\ n \in 1..n
      /\ Top.state = "open" /\ InBlock(sSrv) /\ sSrv \in Servers /\ sSrv' \in Servers
      /\ \A i \in 1..n - 1 : Live(i) => Nested(i, n) /\ Alive(i)
  BY TopFacts DEF Formed, Typed, InBlock
<1>2. r = IF Top.type = "block" THEN CommitBlock(sSrv) ELSE ReleaseTo(sSrv, n)
  BY <1>1 DEF CommitOf
<1>3. /\ r.ok /\ sSrv'.work = sSrv.work /\ Recedes(sSrv, sSrv') /\ sSrv'.st \in {"I", "T"}
      /\ \A i \in 1..n - 1 : Live(i) => sSrv'.st = "T" /\ Point(i) <= Len(sSrv'.saves)
  <2>1. CASE Top.type = "block"
    <3>1. r.ok /\ sSrv' = Idled(sSrv)
      BY <1>1, <1>2, <2>1, CommitEffect DEF Does
    <3>2. \A i \in 1..n - 1 : ~Live(i)
      BY <1>1, <2>1, AbortUndoes
    <3>3. Recedes(sSrv, sSrv')
      BY <1>1, <1>2, <2>1, CommandsRecede
    <3> QED
      BY <1>1, <3>1, <3>2, <3>3, IdledEffect
  <2>2. CASE Top.type # "block"
    <3>1. PICK p : /\ p = Point(n) /\ p = Newest(sSrv, n) /\ p \in 1..Len(sSrv.saves) /\ p >= 2
                   /\ Saved(sSrv, n) # {} /\ Len(sSrv.saves) \in Nat
      BY <1>1, <2>2, PointFacts
    <3>2. /\ r.ok /\ sSrv'.st = "T" /\ sSrv'.work = sSrv.work
          /\ sSrv'.saves = SubSeq(sSrv.saves, 1, p - 1) /\ Recedes(sSrv, sSrv')
      BY <1>1, <1>2, <2>2, <3>1, ReleaseEffect, CommandsRecede
    <3>3. Len(sSrv'.saves) = p - 1
      <4>1. p - 1 \in 0..Len(sSrv.saves) /\ sSrv.saves \in Seq(Saves)
        BY <1>1, <3>1 DEF Servers
      <4> QED
        BY <3>2, <4>1, Prefix
    <3>4. ASSUME NEW i \in 1..n - 1, Live(i) PROVE Point(i) <= p - 1
      <4>1. Nested(i, n) /\ Alive(i) /\ i \in 1..n
        BY <1>1, <3>4
      <4>2. Point(i) \in 1..Len(sSrv.saves)
        BY <1>1, <3>4, <4>1, PointFacts
      <4> QED
        BY <3>1, <4>1, <4>2 DEF Nested
    <3> QED
      BY <3>2, <3>3, <3>4
  <2> QED
    BY <2>1, <2>2
<1>4. Top.items \subseteq sSrv'.work
  BY <1>1, <1>3 DEF Alive
<1>5. Narrowed({}) /\ Len(sFrames') = n - 1
  <2>1. Left(FALSE) /\ FALSE \in BOOLEAN
    BY <1>3
  <2>2. Narrowed(IF FALSE THEN Top.items ELSE {})
    BY <2>1, FramesLeft
  <2> QED
    BY <2>1, <2>2 DEF Left
<1>6. Numbered'
  BY <1>1, <1>3, RecedesNumbered DEF AtomInv
<1>7. InBlock(sSrv') => InBlock(sSrv) /\ Shortened
  BY <1>1, <1>3 DEF Recedes, Shortened
<1>8. ASSUME NEW i \in 1..Len(sFrames'), Live(i) PROVE Suits(i, {})
  <2>1. i \in 1..n - 1
    BY <1>5
  <2>2. Alive(i) /\ sSrv'.st = "T" /\ Point(i) <= Len(sSrv'.saves)
    BY <1>1, <1>3, <1>8, <2>1
  <2>3. sFrames[i].items \subseteq sSrv'.work
    BY <1>3, <2>2 DEF Alive
  <2> QED
    BY <2>2, <2>3 DEF Suits
<1>9. AtomInv'
  BY <1>5, <1>6, <1>7, <1>8, Narrows
<1> QED
  BY <1>3, <1>4, <1>9

LEMMA ExitXactAtomic ==
  ASSUME SessInv, Formed', AtomInv, ExitXact
  PROVE  AtomInv' /\ XactEnds
<1>1. /\ Formed /\ Typed /\ Sound(sSrv) /\ sSrv \in Servers /\ sFrames \in Seq(Frames) /\ sFrames # <<>>
      /\ Len(sFrames) \in Nat /\ Top \in Frames /\ Top.kind = "xact"
  BY FramesFacts DEF SessInv, Formed, Typed, ExitXact
<1>2. PICK failed, fails, d, r :
        /\ failed \in BOOLEAN /\ fails \in BOOLEAN
        /\ failed <=> FailedBlock
        /\ fails => Top.state = "open" /\ Top.type = "block" /\ sSrv.st = "T"
        /\ d = IF failed THEN RollbackOf(Top, Len(sFrames)) ELSE CommitOf(Top, Len(sFrames))
        /\ r = IF fails THEN [srv |-> Aborted(sSrv), ok |-> FALSE] ELSE d.r
        /\ Executes(r) /\ Logs(r)
        /\ sExc' = IF failed \/ ~r.ok THEN "error" ELSE "none"
        /\ Leave(failed \/ ~r.ok)
  BY DEF ExitXact
<1>3. sSrv' = r.srv /\ sLog'.written = sLog.written
  BY <1>1, <1>2, LogsEffect DEF Executes
<1>4. r.ok \in BOOLEAN /\ Recedes(sSrv, sSrv')
  <2>1. CASE fails
    BY <1>1, <1>2, <1>3, <2>1, CommandsRecede
  <2>2. CASE ~fails
    BY <1>1, <1>2, <1>3, <2>2, ObjectsRecede, CommitOfEffect, RollbackOfEffect
  <2> QED
    BY <2>1, <2>2
<1>5. PICK raising \in BOOLEAN : raising = (failed \/ ~r.ok) /\ Left(raising)
  <2>1. PICK raising \in BOOLEAN : raising = (failed \/ ~r.ok)
    BY <1>2, <1>4
  <2>2. Left(raising)
    BY <1>1, <1>2, <2>1, LeaveEffect
  <2> QED
    BY <2>1, <2>2
<1>6. CASE Top.called
  BY <1>1, <1>3, <1>4, <1>5, <1>6, CalledTopAtomic DEF XactEnds
<1>7. CASE ~Top.called
  <2>1. /\ sSrv.st \in {"T", "E", "lost"} /\ Top.state = "open" /\ Alive(Len(sFrames))
        /\ Top = sFrames[Len(sFrames)]
    BY <1>1, <1>7, TopFacts
  <2>2. CASE failed
    <3>1. sSrv.st = "E" /\ InBlock(sSrv) /\ ~fails /\ r = RollbackOf(Top, Len(sFrames)).r
      BY <1>2, <2>2 DEF FailedBlock, InBlock
    <3>2. Undone(sSrv')
      BY <1>1, <1>3, <1>7, <3>1, RollbackUndoes
    <3>3. Left(TRUE) /\ sExc' = "error"
      BY <1>2, <1>5, <2>2
    <3>4. AtomInv'
      BY <1>1, <1>3, <3>1, <3>2, <3>3, UndoneAtomic
    <3> QED
      BY <3>2, <3>3, <3>4 DEF XactEnds, Undone
  <2>3. CASE fails
    <3>1. sSrv.st = "T" /\ InBlock(sSrv) /\ Top.type = "block" /\ sSrv' = Aborted(sSrv) /\ ~r.ok
      BY <1>2, <1>3, <2>3 DEF InBlock
    <3>2. Undone(sSrv')
      BY <1>1, <1>7, <3>1, AbortUndoes
    <3>3. Left(TRUE) /\ sExc' = "error"
      BY <1>2, <1>5, <3>1
    <3>4. AtomInv'
      BY <1>1, <1>3, <3>1, <3>2, <3>3, UndoneAtomic
    <3> QED
      BY <3>2, <3>3, <3>4 DEF XactEnds, Undone
  <2>4. CASE ~failed /\ ~fails /\ sSrv.st = "lost"
    <3>1. r = IF Top.type = "block" THEN CommitBlock(sSrv) ELSE ReleaseTo(sSrv, Len(sFrames))
      BY <1>2, <2>1, <2>4 DEF CommitOf
    <3>2. r = RefusedBy(sSrv)
      BY <1>1, <2>4, <3>1, CommitEffect, ReleaseEffect
    <3>3. ~r.ok /\ sSrv'.work = sSrv.work /\ sSrv'.saves = sSrv.saves /\ sSrv'.st = sSrv.st
      BY <1>1, <1>3, <2>4, <3>2, RefusedEffect
    <3>4. Left(TRUE) /\ sExc' = "error" /\ TRUE \in BOOLEAN
      BY <1>2, <1>5, <3>3
    <3>5. Narrowed(IF TRUE THEN Top.items ELSE {})
      BY <1>1, <3>4, FramesLeft
    <3>6. AtomInv'
      BY <1>1, <1>3, <3>3, <3>5, QuietAtomic
    <3> QED
      BY <2>1, <2>4, <3>3, <3>4, <3>6 DEF XactEnds, Alive
  <2>5. CASE ~failed /\ ~fails /\ sSrv.st # "lost"
    <3>1. sSrv.st = "T" /\ r = CommitOf(Top, Len(sFrames)).r
      BY <1>2, <2>1, <2>5 DEF FailedBlock
    <3>2. r.ok => Left(FALSE)
      BY <1>5, <2>5
    <3>3. r.ok /\ Top.items \subseteq sSrv'.work /\ AtomInv'
      BY <1>1, <1>3, <1>7, <3>1, <3>2, CommitKeeps
    <3> QED
      BY <1>2, <2>5, <3>3 DEF XactEnds
  <2> QED
    BY <1>2, <2>2, <2>3, <2>4, <2>5
<1> QED
  BY <1>6, <1>7

LEMMA ExitXactRaisedAtomic ==
  ASSUME SessInv, Formed', AtomInv, ExitXactRaised
  PROVE  AtomInv' /\ XactEnds
<1>1. /\ Formed /\ Typed /\ Sound(sSrv) /\ sSrv \in Servers /\ sFrames \in Seq(Frames) /\ sFrames # <<>>
      /\ Len(sFrames) \in Nat /\ Top \in Frames /\ Top.kind = "xact" /\ sExc \in {"error", "base"}
  BY FramesFacts DEF SessInv, Formed, Typed, ExitXactRaised
<1>2. PICK r :
        /\ r = IF RollsBack THEN RollbackOf(Top, Len(sFrames)).r ELSE Does(sSrv)
        /\ Executes(r) /\ SessionRaises(r) /\ Logs(r)
  BY DEF ExitXactRaised
<1>3. sSrv' = r.srv /\ sLog'.written = sLog.written
  BY <1>1, <1>2, LogsEffect DEF Executes
<1>4. Recedes(sSrv, sSrv')
  BY <1>1, <1>2, <1>3, ObjectsRecede, CommandsRecede DEF Does
<1>5. Left(TRUE)
  BY <1>1, LeaveEffect DEF ExitXactRaised
<1>6. CASE Top.called
  BY <1>1, <1>3, <1>4, <1>5, <1>6, CalledTopAtomic DEF XactEnds
<1>7. CASE ~Top.called /\ RollsBack
  <2>1. InBlock(sSrv)
    BY <1>1, <1>7, TopFacts DEF RollsBack, closed
  <2>2. Undone(sSrv') /\ r.ok
    BY <1>1, <1>2, <1>3, <1>7, <2>1, RollbackUndoes
  <2>3. AtomInv'
    BY <1>1, <1>3, <1>5, <2>1, <2>2, UndoneAtomic
  <2>4. sExc' = "error"
    BY <1>2, <1>7, <2>2 DEF SessionRaises, RollsBack
  <2> QED
    BY <2>2, <2>3, <2>4 DEF XactEnds, Undone
<1>8. CASE ~Top.called /\ ~RollsBack
  <2>1. sSrv' = sSrv /\ r.ok
    BY <1>2, <1>3, <1>8 DEF Does
  <2>2. sExc' = sExc /\ (sExc = "error" => sSrv.st = "lost")
    BY <1>1, <1>2, <1>8, <2>1 DEF SessionRaises, RollsBack, closed
  <2>3. Narrowed(IF TRUE THEN Top.items ELSE {})
    BY <1>1, <1>5, FramesLeft
  <2>4. AtomInv'
    BY <1>1, <1>3, <2>1, <2>3, QuietAtomic
  <2>5. Alive(Len(sFrames)) /\ Top = sFrames[Len(sFrames)]
    BY <1>1, <1>8, TopFacts
  <2> QED
    BY <1>1, <2>1, <2>2, <2>4, <2>5 DEF XactEnds, Alive
<1> QED
  BY <1>6, <1>7, <1>8

\* Steps that send nothing, or one command that neither writes nor undoes.
LEMMA SameFramesAtomic ==
  ASSUME SessInv, Formed', AtomInv, UNCHANGED sFrames,
         sSrv'.work = sSrv.work, sSrv'.saves = sSrv.saves,
         sSrv'.st = sSrv.st \/ (sSrv.st = "T" /\ sSrv'.st = "E"), sLog'.written = sLog.written
  PROVE  AtomInv'
BY FramesKept, QuietAtomic DEF SessInv

LEMMA RefusedQuiet ==
  ASSUME NEW srv \in Servers, NEW s, s = RefusedBy(srv).srv
  PROVE  s.work = srv.work /\ s.saves = srv.saves /\ (s.st = srv.st \/ (srv.st = "T" /\ s.st = "E"))
BY RefusedEffect

LEMMA SetQuiet ==
  ASSUME NEW srv \in Servers, NEW k \in Keys, NEW v \in 0..1, NEW s, s = SetTo(srv, k, v).srv
  PROVE  s.work = srv.work /\ s.saves = srv.saves /\ (s.st = srv.st \/ (srv.st = "T" /\ s.st = "E"))
<1>1. CASE SetTo(srv, k, v).ok
  BY <1>1, SetEffect
<1>2. CASE ~SetTo(srv, k, v).ok
  <2>1. s = RefusedBy(srv).srv
    BY <1>2, SetEffect
  <2> QED
    BY <2>1, RefusedQuiet
<1> QED
  BY <1>1, <1>2

LEMMA SetValue ==
  ASSUME NEW srv \in Servers, NEW k \in Keys, NEW v \in 0..1, SetTo(srv, k, v).ok
  PROVE  SetTo(srv, k, v).srv.vals[k] = v
<1>1. SetTo(srv, k, v).srv.vals = [srv.vals EXCEPT ![k] = v]
  BY SetEffect
<1> QED
  BY <1>1 DEF Servers

LEMMA SettingsAtomic ==
  ASSUME SessInv, Formed', AtomInv, SetItem \/ GetItem \/ DelItem
  PROVE  AtomInv' /\ UNCHANGED sFrames
<1>1. Typed /\ sSrv \in Servers /\ UNCHANGED sFrames
  BY DEF SessInv, Formed, Typed, SetItem, GetItem, DelItem
<1>2. CASE SetItem
  <2>1. PICK k, v : /\ k \in Keys /\ v \in 0..1
                    /\ sSrv' = sSrv \/ sSrv' = SetTo(sSrv, k, v).srv
    BY <1>2 DEF SetItem, Does
  <2>2. sLog'.written = sLog.written
    BY <1>1, <1>2, SetsEffect DEF SetItem
  <2> QED
    BY <1>1, <2>1, <2>2, SetQuiet, SameFramesAtomic
<1>3. CASE DelItem
  <2>1. PICK k, v : k \in Keys /\ v \in 0..1 /\ sSrv' = SetTo(sSrv, k, v).srv
    BY <1>3 DEF DelItem, Default
  <2>2. sLog'.written = sLog.written
    BY <1>1, <1>3, SetsEffect DEF DelItem
  <2> QED
    BY <1>1, <2>1, <2>2, SetQuiet, SameFramesAtomic
<1>4. CASE GetItem
  <2>1. sSrv' = sSrv \/ sSrv' = RefusedBy(sSrv).srv
    BY <1>4 DEF GetItem, Does
  <2>2. sLog'.written = sLog.written
    BY <1>4 DEF GetItem
  <2> QED
    BY <1>1, <2>1, <2>2, RefusedQuiet, SameFramesAtomic
<1> QED
  BY <1>1, <1>2, <1>3, <1>4

LEMMA OthersAtomic ==
  ASSUME SessInv, Formed', AtomInv, Throw \/ Catch \/ SessionLost \/ UNCHANGED sessionVars
  PROVE  AtomInv' /\ UNCHANGED sFrames
<1>1. Formed /\ Typed /\ Sound(sSrv) /\ sSrv \in Servers /\ UNCHANGED sFrames
  BY DEF SessInv, Formed, Typed, Throw, Catch, SessionLost, sessionVars
<1>2. CASE Throw \/ Catch \/ UNCHANGED sessionVars
  <2>1. sSrv' = sSrv /\ sLog'.written = sLog.written
    BY <1>1, <1>2 DEF Throw, Catch, sessionVars, Typed
  <2> QED
    BY <1>1, <2>1, SameFramesAtomic
<1>3. CASE SessionLost
  <2>1. PICK a \in Servers : /\ a = Aborted(sSrv) /\ Recedes(sSrv, a)
                             /\ InBlock(sSrv) => a.work = sSrv.saves[1].work
    BY <1>1, AbortedEffect, CommandsRecede DEF Sound
  <2>2. sSrv' = [a EXCEPT !.st = "lost"] /\ UNCHANGED sLog /\ sSrv.st # "lost"
    BY <1>3, <2>1 DEF SessionLost, closed
  <2>3. sSrv'.st = "lost" /\ sSrv'.work = a.work /\ sSrv'.saves = a.saves /\ sSrv' \in Servers
    BY <2>1, <2>2 DEF Servers
  <2>4. Numbered'
    <3>1. Recedes(sSrv, sSrv')
      BY <2>1, <2>3 DEF Recedes
    <3> QED
      BY <1>1, <2>2, <2>3, <3>1, RecedesNumbered DEF AtomInv
  <2>5. ASSUME NEW i \in 1..Len(sFrames'), Live(i) PROVE Suits(i, {})
    <3>1. i \in 1..Len(sFrames) /\ Alive(i)
      BY <1>1, <2>5 DEF AtomInv, AllAlive
    <3>2. InBlock(sSrv)
      BY <1>1, <2>2, <3>1 DEF Alive, InBlock, Servers
    <3>3. Point(i) \in 1..Len(sSrv.saves) /\ Len(sSrv.saves) \in Nat
      BY <1>1, <2>5, <3>1, <3>2, PointFacts
    <3>4. sFrames[i].items \cap sSrv.saves[1].work = {}
      <4>1. 1 \in 1..Point(i)
        BY <3>3
      <4> QED
        BY <3>1, <3>2, <4>1 DEF Alive, Undoable
    <3> QED
      BY <2>1, <2>3, <3>2, <3>4 DEF Suits, InBlock
  <2>6. Narrowed({})
    BY <1>1, FramesKept
  <2>7. ~InBlock(sSrv')
    BY <2>3 DEF InBlock
  <2> QED
    BY <1>1, <2>4, <2>5, <2>6, <2>7, Narrows
<1> QED
  BY <1>1, <1>2, <1>3

LEMMA ExitSettingsAtomic ==
  ASSUME SessInv, Formed', AtomInv, ExitSettings
  PROVE  AtomInv' /\ SettingsEnd
<1>1. /\ Formed /\ Typed /\ Sound(sSrv) /\ Kept /\ sSrv \in Servers /\ sFrames \in Seq(Frames) /\ sFrames # <<>>
      /\ Len(sFrames) \in Nat \ {0} /\ Top \in Frames /\ Top = sFrames[Len(sFrames)]
      /\ Top.kind = "settings" /\ sSrv.vals \in [Keys -> 0..1]
  BY FramesFacts DEF SessInv, Formed, Typed, ExitSettings, Servers
<1>2. Top.key \in Keys /\ Top.stored \in 0..1 /\ (Top.trusted => Top.stored = Top.pre)
  BY <1>1 DEF Kept, Frames, AtomInv, Trusted
<1>3. PICK r :
        /\ r = SetTo(sSrv, Top.key, Top.stored)
        /\ sSrv' = r.srv
        /\ Leave(sExc # "none" \/ ~r.ok)
  BY DEF ExitSettings
<1>4. sLog'.written = sLog.written
  BY DEF ExitSettings
<1>5. r.ok \in BOOLEAN
  BY <1>1, <1>2, <1>3, SetEffect
<1>6. PICK raising \in BOOLEAN : Leave(raising)
  BY <1>3, <1>5
<1>7. PICK X : Narrowed(X)
  BY <1>1, <1>6, LeaveEffect, FramesLeft
<1>8. sSrv'.work = sSrv.work /\ sSrv'.saves = sSrv.saves
      /\ (sSrv'.st = sSrv.st \/ (sSrv.st = "T" /\ sSrv'.st = "E"))
  BY <1>1, <1>2, <1>3, SetQuiet
<1>9. AtomInv'
  BY <1>1, <1>4, <1>7, <1>8, QuietAtomic
<1>10. PICK k, v : k \in Keys /\ v \in 0..1 /\ k = Top.key /\ v = Top.stored /\ r = SetTo(sSrv, k, v)
  BY <1>2, <1>3
<1>11. CASE r.ok
  <2>1. SetTo(sSrv, k, v).srv.vals[k] = v
    BY <1>1, <1>10, <1>11, SetValue
  <2> QED
    BY <1>2, <1>3, <1>9, <1>10, <2>1 DEF SettingsEnd
<1>12. CASE ~r.ok
  <2>1. sSrv.st \in {"E", "lost"} /\ r = RefusedBy(sSrv)
    <3>1. sSrv.st \in {"I", "T", "E", "lost"}
      BY <1>1 DEF Servers
    <3> QED
      BY <1>1, <1>10, <1>12, <3>1, SetEffect
  <2>2. sSrv'.st \in {"E", "lost"}
    BY <1>1, <1>3, <2>1, RefusedEffect
  <2> QED
    BY <1>9, <2>2 DEF SettingsEnd
<1> QED
  BY <1>5, <1>11, <1>12

\* The frames that stay when one is entered or a row is written.
Grown(X) ==
  /\ Len(sFrames) <= Len(sFrames')
  /\ \A j \in 1..Len(sFrames) :
       /\ Copies(sFrames[j], sFrames'[j])
       /\ sFrames'[j].state = sFrames[j].state /\ sFrames'[j].called = sFrames[j].called
       /\ sFrames'[j].items = sFrames[j].items \cup X
\* No frame there was has one of the new savepoints.
SavesGrow ==
  /\ Len(sSrv.saves) <= Len(sSrv'.saves)
  /\ \A q \in 1..Len(sSrv.saves) : sSrv'.saves[q] = sSrv.saves[q]
  /\ \A q \in 1..Len(sSrv'.saves) : q > Len(sSrv.saves) => sSrv'.saves[q].id > Len(sFrames)

LEMMA PointGrown ==
  ASSUME Formed, Formed', SavesGrow, NEW i \in 1..Len(sFrames), sFrames'[i].type = sFrames[i].type
  PROVE  Point(i)' = Point(i) /\ Saved(sSrv, i)' = Saved(sSrv, i)
<1>1. Len(sSrv.saves) \in Nat /\ Len(sSrv'.saves) \in Nat /\ Len(sFrames) \in Nat
  BY ElementsOf DEF Formed, Typed, Servers
<1>2. ASSUME NEW q PROVE q \in Saved(sSrv', i) <=> q \in Saved(sSrv, i)
  <2>1. q \in 2..Len(sSrv.saves) => q \in 2..Len(sSrv'.saves) /\ sSrv'.saves[q] = sSrv.saves[q]
    BY <1>1 DEF SavesGrow
  <2>2. q \in 2..Len(sSrv'.saves) /\ sSrv'.saves[q].id = i => q \in 2..Len(sSrv.saves)
    <3> SUFFICES ASSUME q \in 2..Len(sSrv'.saves), sSrv'.saves[q].id = i, q > Len(sSrv.saves)
                 PROVE  FALSE
      BY <1>1
    <3>1. i > Len(sFrames)
      BY <1>1 DEF SavesGrow
    <3> QED
      BY <1>1, <3>1
  <2> QED
    BY <2>1, <2>2 DEF Saved
<1>3. Saved(sSrv', i) = Saved(sSrv, i)
  BY <1>2
<1>4. Newest(sSrv', i) = Newest(sSrv, i)
  BY <1>3 DEF Newest
<1>5. Saved(sSrv, i)' = Saved(sSrv', i) /\ Newest(sSrv, i)' = Newest(sSrv', i)
  BY DEF Saved, Newest
<1> QED
  BY <1>3, <1>4, <1>5 DEF Point

LEMMA Grows ==
  ASSUME Formed, Formed', AtomInv, NEW X, Grown(X), SavesGrow, sSrv'.st = sSrv.st,
         sSrv.st \in {"I", "T"}, sSrv'.work = sSrv.work \cup X,
         \A q \in 1..Len(sSrv.saves) : X \cap sSrv.saves[q].work = {}
  PROVE  /\ CalledFirst' <=> \A i \in 1..Len(sFrames'), j \in 1..Len(sFrames') :
                               j > Len(sFrames) /\ i < j /\ sFrames'[j].called => sFrames'[i].called
         /\ \A i \in 1..Len(sFrames) :
              Live(i)' => /\ Alive(i)' /\ sSrv.st = "T" /\ Point(i)' \in 1..Len(sSrv.saves)
                          /\ sFrames'[i].items \subseteq sSrv'.work
         /\ \A i \in 1..Len(sFrames), j \in 1..Len(sFrames) :
              i < j /\ Live(i)' /\ Live(j)' => Nested(i, j)'
<1>1. Len(sFrames) \in Nat /\ Len(sFrames') \in Nat
  BY ElementsOf DEF Formed, Typed
<1>2. CalledFirst' <=> \A i \in 1..Len(sFrames'), j \in 1..Len(sFrames') :
                         j > Len(sFrames) /\ i < j /\ sFrames'[j].called => sFrames'[i].called
  <2>1. ASSUME NEW i \in 1..Len(sFrames'), NEW j \in 1..Len(sFrames'), j <= Len(sFrames), i < j,
               sFrames'[j].called
        PROVE  sFrames'[i].called
    <3>1. i \in 1..Len(sFrames) /\ j \in 1..Len(sFrames)
      BY <1>1, <2>1
    <3> QED
      BY <2>1, <3>1 DEF Grown, AtomInv, CalledFirst
  <2>2. \A j \in 1..Len(sFrames') : j > Len(sFrames) \/ j <= Len(sFrames)
    BY <1>1
  <2> QED
    BY <2>1, <2>2 DEF CalledFirst
<1>3. ASSUME NEW i \in 1..Len(sFrames), Live(i)'
      PROVE  /\ Live(i) /\ Alive(i) /\ sSrv.st = "T" /\ InBlock(sSrv)
             /\ Point(i)' = Point(i) /\ Saved(sSrv, i)' = Saved(sSrv, i)
             /\ Point(i) \in 1..Len(sSrv.saves)
  <2>1. Live(i) /\ sFrames'[i].type = sFrames[i].type
    BY <1>3 DEF Live, Grown, Copies
  <2>2. Alive(i) /\ sSrv.st = "T" /\ InBlock(sSrv)
    BY <2>1 DEF AtomInv, AllAlive, Alive, InBlock
  <2> QED
    BY <2>1, <2>2, PointGrown, PointFacts
<1>4. ASSUME NEW i \in 1..Len(sFrames), Live(i)'
      PROVE  Alive(i)' /\ sFrames'[i].items \subseteq sSrv'.work
  <2>1. /\ sFrames'[i].items = sFrames[i].items \cup X /\ sFrames'[i].type = sFrames[i].type
        /\ sFrames'[i].state = sFrames[i].state
    BY DEF Grown, Copies
  <2>2. sFrames'[i].items \subseteq sSrv'.work
    BY <1>3, <1>4, <2>1 DEF Alive
  <2>3. Undoable(i)
    BY <1>3, <1>4 DEF Alive
  <2>4. ASSUME NEW q \in 1..Point(i) PROVE sFrames'[i].items \cap sSrv'.saves[q].work = {}
    <3>1. q \in 1..Len(sSrv.saves)
      BY <1>3, <1>4
    <3>2. sSrv'.saves[q] = sSrv.saves[q] /\ X \cap sSrv.saves[q].work = {}
      BY <3>1 DEF SavesGrow
    <3> QED
      BY <2>1, <2>3, <3>2 DEF Undoable
  <2>5. Undoable(i)'
    BY <1>3, <1>4, <2>1, <2>3, <2>4 DEF Undoable
  <2>6. sFrames[i].state = "open" /\ sFrames[i].type \in {"block", "savepoint"} /\ sSrv'.st = "T"
    BY <1>3, <1>4 DEF Alive
  <2> QED
    BY <2>1, <2>2, <2>5, <2>6 DEF Alive
<1>5. ASSUME NEW i \in 1..Len(sFrames), NEW j \in 1..Len(sFrames), i < j, Live(i)', Live(j)'
      PROVE  Nested(i, j)'
  <2>1. /\ Point(i)' = Point(i) /\ Point(j)' = Point(j) /\ Point(j) \in 1..Len(sSrv.saves)
        /\ Live(i) /\ Live(j) /\ InBlock(sSrv)
    BY <1>3, <1>5
  <2>2. Nested(i, j)
    BY <1>5, <2>1 DEF AtomInv, AllNested
  <2>3. sSrv'.saves[Point(j)] = sSrv.saves[Point(j)]
    BY <2>1 DEF SavesGrow
  <2>4. sFrames'[i].items = sFrames[i].items \cup X /\ sFrames'[j].items = sFrames[j].items \cup X
    BY DEF Grown
  <2> QED
    BY <2>1, <2>2, <2>3, <2>4 DEF Nested
<1> QED
  BY <1>2, <1>3, <1>4, <1>5

\* A query that succeeds writes its row in the block and in all those around it.
LEMMA QueryAtomic ==
  ASSUME SessInv, Formed', AtomInv, Query
  PROVE  AtomInv' /\ Len(sFrames') = Len(sFrames)
<1>1. /\ Formed /\ Typed /\ sSrv \in Servers /\ sFrames \in Seq(Frames) /\ Len(sFrames) \in Nat
      /\ \A j \in 1..Len(sFrames) : sFrames[j] \in Frames
  BY ElementsOf DEF SessInv, Formed, Typed
<1>2. PICK ok, n, r :
        /\ ok \in BOOLEAN /\ n \in Nat
        /\ n = sLog.written + 1
        /\ r = IF ok /\ sSrv.st \in {"I", "T"} THEN Does([sSrv EXCEPT !.work = @ \cup {n}])
               ELSE RefusedBy(sSrv)
        /\ Executes(r)
        /\ sFrames' = IF r.ok THEN [j \in 1..Len(sFrames) |-> [sFrames[j] EXCEPT !.items = @ \cup {n}]]
                      ELSE sFrames
        /\ sLog' = IF r.ok THEN [sLog EXCEPT !.written = n] ELSE sLog
  <2>1. sLog.written + 1 \in Nat
    BY <1>1 DEF Typed
  <2> QED
    BY <2>1 DEF Query
<1>3. CASE ~(ok /\ sSrv.st \in {"I", "T"})
  <2>1. r = RefusedBy(sSrv) /\ ~r.ok
    BY <1>1, <1>2, <1>3, RefusedEffect
  <2>2. sSrv' = RefusedBy(sSrv).srv /\ UNCHANGED <<sFrames, sLog>>
    BY <1>2, <2>1 DEF Executes
  <2> QED
    BY <1>1, <2>2, RefusedQuiet, SameFramesAtomic
<1>4. CASE ok /\ sSrv.st \in {"I", "T"}
  <2>1. sSrv' = [sSrv EXCEPT !.work = @ \cup {n}] /\ r.ok
    BY <1>2, <1>4 DEF Does, Executes
  <2>2. sSrv'.work = sSrv.work \cup {n} /\ sSrv'.st = sSrv.st /\ sSrv'.saves = sSrv.saves
    BY <1>1, <2>1 DEF Servers
  <2>3. sLog'.written = n /\ Len(sSrv.saves) \in Nat /\ sLog.written \in Nat
    BY <1>1, <1>2, <2>1 DEF Typed, Servers
  <2>4. Grown({n}) /\ Len(sFrames') = Len(sFrames)
    <3>1. ASSUME NEW j \in 1..Len(sFrames)
          PROVE  /\ sFrames'[j] \in Frames /\ Copies(sFrames[j], sFrames'[j])
                 /\ sFrames'[j].state = sFrames[j].state /\ sFrames'[j].called = sFrames[j].called
                 /\ sFrames'[j].items = sFrames[j].items \cup {n}
      <4>1. sFrames'[j] = [sFrames[j] EXCEPT !.items = @ \cup {n}]
        BY <1>2, <2>1
      <4>2. PICK f \in Frames, items \in SUBSET Nat : f = sFrames[j] /\ items = f.items \cup {n}
        BY <1>1, <1>2 DEF Frames
      <4>3. PICK g : g = sFrames'[j]
        OBVIOUS
      <4>4. g = [f EXCEPT !.items = items]
        BY <4>1, <4>2, <4>3
      <4>5. /\ g \in Frames /\ Copies(f, g) /\ g.state = f.state /\ g.called = f.called
            /\ g.items = items
        BY <4>4, FrameItems
      <4> QED
        BY <4>2, <4>3, <4>5
    <3>2. sFrames' \in [1..Len(sFrames) -> Frames]
      BY <1>2, <2>1, <3>1
    <3>3. Len(sFrames') = Len(sFrames)
      BY <1>1, <3>2, SequenceOf
    <3> QED
      BY <1>1, <3>1, <3>3 DEF Grown
  <2>5. SavesGrow
    BY <2>2, <2>3 DEF SavesGrow
  <2>6. Numbered' /\ \A q \in 1..Len(sSrv.saves) : {n} \cap sSrv.saves[q].work = {}
    <3>1. \A x \in 1..sLog.written : x \in 1..n /\ x # n
      BY <1>2, <2>3
    <3>2. /\ sSrv.work \subseteq 1..sLog.written
          /\ \A q \in 1..Len(sSrv.saves) : sSrv.saves[q].work \subseteq 1..sLog.written
      BY DEF AtomInv, Numbered
    <3>3. n \in 1..n
      BY <1>2, <2>3
    <3>4. sSrv'.work \subseteq 1..n
      BY <2>2, <3>1, <3>2, <3>3
    <3>5. \A q \in 1..Len(sSrv.saves) : sSrv.saves[q].work \subseteq 1..n /\ n \notin sSrv.saves[q].work
      BY <3>1, <3>2
    <3> QED
      BY <2>2, <2>3, <3>4, <3>5 DEF Numbered
  <2>7. Trusted'
    BY <2>4 DEF Grown, Copies, AtomInv, Trusted
  <2>8. CalledFirst' /\ AllAlive'
        /\ \A i \in 1..Len(sFrames), j \in 1..Len(sFrames) : i < j /\ Live(i)' /\ Live(j)' => Nested(i, j)'
    <3>1. \A j \in 1..Len(sFrames') : ~(j > Len(sFrames))
      BY <1>1, <2>4
    <3>2. /\ CalledFirst' <=> \A i \in 1..Len(sFrames'), j \in 1..Len(sFrames') :
                               j > Len(sFrames) /\ i < j /\ sFrames'[j].called => sFrames'[i].called
          /\ \A i \in 1..Len(sFrames) : Live(i)' => Alive(i)'
          /\ \A i \in 1..Len(sFrames), j \in 1..Len(sFrames) :
               i < j /\ Live(i)' /\ Live(j)' => Nested(i, j)'
      BY <1>1, <1>4, <2>2, <2>4, <2>5, <2>6, Grows
    <3> QED
      BY <2>4, <3>1, <3>2 DEF AllAlive
  <2>9. AllNested'
    BY <2>4, <2>8 DEF AllNested
  <2> QED
    BY <2>4, <2>6, <2>7, <2>8, <2>9 DEF AtomInv
<1> QED
  BY <1>3, <1>4

\* A block is entered in what is there: a settings block, or one with a savepoint.
LEMMA EnteredAtomic ==
  ASSUME Formed, Formed', AtomInv, Numbered', NEW f \in Frames, sFrames' = Append(sFrames, f),
         ~f.called, f.items = {}, sSrv'.st = sSrv.st, sSrv.st \in {"I", "T"}, sSrv'.work = sSrv.work,
         SavesGrow,
         f.kind = "settings" /\ f.trusted => f.stored = f.pre,
         f.kind = "xact" =>
           /\ sSrv.st = "T" /\ f.state = "open" /\ f.type = "savepoint"
           /\ Len(sSrv'.saves) = Len(sSrv.saves) + 1
           /\ sSrv'.saves[Len(sSrv.saves) + 1].id = Len(sFrames) + 1
           /\ sSrv'.saves[Len(sSrv.saves) + 1].work = sSrv.work
  PROVE  AtomInv'
<1>0. PICK n, m : n = Len(sFrames) + 1 /\ m = Len(sSrv.saves) + 1
  OBVIOUS
<1>1. /\ n = Len(sFrames) + 1 /\ m = Len(sSrv.saves) + 1
      /\ Len(sFrames) \in Nat /\ Len(sSrv.saves) \in Nat /\ sSrv' \in Servers
      /\ sFrames \in Seq(Frames)
  BY <1>0, ElementsOf DEF Formed, Typed, Servers
<1>2. /\ Len(sFrames') = n /\ sFrames'[n] = f
      /\ \A i \in 1..Len(sFrames) : sFrames'[i] = sFrames[i]
  BY <1>1, AppendEffect
<1>3. Grown({})
  <2>1. \A i \in 1..Len(sFrames) : Copies(sFrames[i], sFrames'[i])
    BY <1>2 DEF Copies
  <2> QED
    BY <1>1, <1>2, <2>1 DEF Grown
<1>4. /\ CalledFirst' <=> \A i \in 1..Len(sFrames'), j \in 1..Len(sFrames') :
                               j > Len(sFrames) /\ i < j /\ sFrames'[j].called => sFrames'[i].called
      /\ \A i \in 1..Len(sFrames) :
              Live(i)' => /\ Alive(i)' /\ sSrv.st = "T" /\ Point(i)' \in 1..Len(sSrv.saves)
                          /\ sFrames'[i].items \subseteq sSrv'.work
      /\ \A i \in 1..Len(sFrames), j \in 1..Len(sFrames) :
              i < j /\ Live(i)' /\ Live(j)' => Nested(i, j)'
  <2>1. sSrv'.work = sSrv.work \cup {} /\ \A q \in 1..Len(sSrv.saves) : {} \cap sSrv.saves[q].work = {}
    OBVIOUS
  <2> QED
    BY <1>3, <2>1, Grows
<1>5. \A i \in 1..Len(sFrames') : i \in 1..Len(sFrames) \/ i = n
  BY <1>1, <1>2
<1>6. CalledFirst'
  <2>1. \A j \in 1..Len(sFrames') : j > Len(sFrames) => ~sFrames'[j].called
    BY <1>1, <1>2, <1>5
  <2> QED
    BY <1>4, <2>1
<1>7. Trusted'
  BY <1>2, <1>5 DEF AtomInv, Trusted
<1>8. ASSUME Live(n)'
      PROVE  /\ sSrv'.st = "T" /\ Point(n)' = m /\ Alive(n)' /\ sSrv'.saves[m].work = sSrv.work
             /\ f.items = {}
  <2>1. f.kind = "xact"
    BY <1>2, <1>8 DEF Live
  <2>2. m \in Saved(sSrv', n) /\ \A q \in Saved(sSrv', n) : q <= m
    <3>1. Len(sSrv.saves) # 0
      BY <1>1, <2>1 DEF Formed, Typed, Servers, Sound, InBlock
    <3> QED
      BY <1>1, <2>1, <3>1 DEF Saved
  <2>3. Newest(sSrv', n) = m
    BY <1>1, <2>2, NewestIs
  <2>4. sFrames'[n].type # "block"
    BY <1>2, <2>1
  <2>5. Newest(sSrv, n)' = Newest(sSrv', n) /\ Saved(sSrv, n)' = Saved(sSrv', n)
    BY DEF Newest, Saved
  <2>6. Point(n)' = m
    BY <2>3, <2>4, <2>5 DEF Point
  <2>7. Alive(n)'
    BY <1>2, <2>1, <2>2, <2>5 DEF Alive, Undoable
  <2> QED
    BY <1>1, <2>1, <2>6, <2>7
<1>9. AllAlive'
  BY <1>4, <1>5, <1>8 DEF AllAlive
<1>10. ASSUME NEW i \in 1..Len(sFrames'), NEW j \in 1..Len(sFrames'), i < j, Live(i)', Live(j)'
       PROVE  Nested(i, j)'
  <2>1. i \in 1..Len(sFrames)
    BY <1>1, <1>2, <1>10
  <2>2. CASE j \in 1..Len(sFrames)
    BY <1>4, <1>10, <2>1, <2>2
  <2>3. CASE j = n
    <3>1. /\ Point(j)' = m /\ sSrv'.saves[m].work = sSrv.work /\ sFrames'[j].items = {}
      BY <1>2, <1>8, <1>10, <2>3
    <3>2. Point(i)' \in 1..Len(sSrv.saves) /\ sFrames'[i].items \subseteq sSrv.work
      BY <1>4, <1>10, <2>1
    <3>3. Point(i)' < m
      BY <1>1, <3>2
    <3> QED
      BY <3>1, <3>2, <3>3 DEF Nested
  <2> QED
    BY <1>5, <2>2, <2>3
<1>11. AllNested'
  BY <1>10 DEF AllNested
<1> QED
  BY <1>6, <1>7, <1>9, <1>11 DEF AtomInv

LEMMA StartXactAtomic ==
  ASSUME SessInv, Formed', AtomInv, StartXact
  PROVE  AtomInv' /\ Len(sFrames') >= Len(sFrames)
<1>1. /\ Formed /\ Typed /\ Sound(sSrv) /\ sSrv \in Servers /\ sFrames \in Seq(Frames)
      /\ Len(sFrames) \in Nat /\ Numbered /\ sSrv' \in Servers
  BY ElementsOf DEF SessInv, Formed, Typed, AtomInv
<1>2. PICK configured, type, r, f :
        /\ configured \in BOOLEAN /\ type \in {"block", "savepoint"}
        /\ type = IF sSrv.st = "I" THEN "block" ELSE "savepoint"
        /\ r = IF type = "savepoint" /\ configured THEN [srv |-> sSrv, ok |-> FALSE]
               ELSE IF type = "block" THEN Begin(sSrv) ELSE Savepoint(sSrv, Len(sFrames) + 1)
        /\ f = Frame("xact", type, CHOOSE k \in Keys : TRUE)
        /\ Executes(r)
        /\ sFrames' = IF r.ok THEN Append(sFrames, f) ELSE sFrames
        /\ sLog' = IF r.ok /\ type = "block" THEN [sLog EXCEPT !.written = 0] ELSE sLog
  BY DEF StartXact
<1>3. /\ f \in Frames /\ f.kind = "xact" /\ f.type = type /\ f.state = "open"
      /\ f.items = {} /\ f.called = FALSE
  <2>1. (CHOOSE k \in Keys : TRUE) \in Keys
    BY SessionBounds
  <2>2. sSrv.vals \in [Keys -> 0..1] /\ sLog.stale \in BOOLEAN /\ Absent \in -1..1
    BY <1>1 DEF Typed, Servers, Absent
  <2>3. sSrv.vals[CHOOSE k \in Keys : TRUE] \in 0..1
    BY <2>1, <2>2
  <2> QED
    BY <1>2, <2>1, <2>2, <2>3 DEF Frame, Frames
<1>4. sSrv' = r.srv
  BY <1>2 DEF Executes
<1>5. CASE type = "block"
  <2>1. sSrv.st = "I" /\ r = Begin(sSrv)
    BY <1>2, <1>5
  <2>2. /\ r.ok /\ sSrv'.st = "T" /\ sSrv'.work = {}
        /\ sSrv'.saves = <<[id |-> 0, vals |-> sSrv.vals, work |-> {}]>>
    BY <1>1, <1>4, <2>1, BeginEffect
  <2>3. \A i \in 1..Len(sFrames) : ~Live(i)
    BY <2>1 DEF AtomInv, AllAlive, Alive
  <2>4. PICK n : n = Len(sFrames) + 1
    OBVIOUS
  <2>5. /\ Len(sFrames') = n /\ sFrames'[n] = f /\ n \in Nat
        /\ \A i \in 1..Len(sFrames) : sFrames'[i] = sFrames[i]
        /\ \A i \in 1..Len(sFrames') : i \in 1..Len(sFrames) \/ i = n
    <3>1. sFrames' = Append(sFrames, f)
      BY <1>2, <2>2
    <3> QED
      BY <1>1, <1>3, <2>4, <3>1, AppendEffect
  <2>6. CalledFirst'
    <3>1. ASSUME NEW i \in 1..Len(sFrames'), NEW j \in 1..Len(sFrames'), i < j, sFrames'[j].called
          PROVE  sFrames'[i].called
      <4>1. j \in 1..Len(sFrames)
        BY <1>3, <2>5, <3>1
      <4>2. i \in 1..Len(sFrames)
        BY <1>1, <3>1, <4>1
      <4> QED
        BY <2>5, <3>1, <4>1, <4>2 DEF AtomInv, CalledFirst
    <3> QED
      BY <3>1 DEF CalledFirst
  <2>7. Trusted'
    BY <1>3, <2>5 DEF AtomInv, Trusted
  <2>8. Numbered'
    <3>1. \A q \in 1..Len(sSrv'.saves) : sSrv'.saves[q].work = {}
      BY <2>2
    <3> QED
      BY <2>2, <3>1 DEF Numbered
  <2>9. \A i \in 1..Len(sFrames') : Live(i)' => i = n
    BY <2>3, <2>5 DEF Live
  <2>10. Alive(n)'
    BY <1>3, <1>5, <2>2, <2>5 DEF Alive, Undoable
  <2>11. AllAlive' /\ AllNested'
    BY <2>5, <2>9, <2>10 DEF AllAlive, AllNested
  <2> QED
    BY <1>1, <2>4, <2>5, <2>6, <2>7, <2>8, <2>11 DEF AtomInv
<1>6. CASE type = "savepoint" /\ r.ok
  <2>1. r = Savepoint(sSrv, Len(sFrames) + 1) /\ Len(sFrames) + 1 \in Nat
    BY <1>1, <1>2, <1>6
  <2>2. PICK save : save = [id |-> Len(sFrames) + 1, vals |-> sSrv.vals, work |-> sSrv.work]
    OBVIOUS
  <2>3. /\ sSrv.st = "T" /\ sSrv'.st = "T" /\ sSrv'.work = sSrv.work
        /\ sSrv'.saves = Append(sSrv.saves, save)
    BY <1>1, <1>4, <1>6, <2>1, <2>2, SavepointEffect
  <2>4. save \in Saves /\ sSrv.saves \in Seq(Saves) /\ Len(sSrv.saves) \in Nat
    BY <1>1, <2>1, <2>2 DEF Saves, Servers
  <2>5. /\ Len(sSrv'.saves) = Len(sSrv.saves) + 1 /\ sSrv'.saves[Len(sSrv.saves) + 1] = save
        /\ \A q \in 1..Len(sSrv.saves) : sSrv'.saves[q] = sSrv.saves[q]
    BY <2>3, <2>4, AppendEffect
  <2>6. \A q \in 1..Len(sSrv'.saves) : q > Len(sSrv.saves) => q = Len(sSrv.saves) + 1
    BY <2>4, <2>5
  <2>7. SavesGrow
    BY <1>1, <2>2, <2>4, <2>5, <2>6 DEF SavesGrow
  <2>8. Numbered'
    <3>1. \A q \in 1..Len(sSrv'.saves) : q \in 1..Len(sSrv.saves) \/ q = Len(sSrv.saves) + 1
      BY <2>4, <2>5
    <3>2. sLog' = sLog
      BY <1>2, <1>6
    <3> QED
      BY <1>1, <2>2, <2>3, <2>5, <3>1, <3>2 DEF Numbered
  <2>9. sFrames' = Append(sFrames, f)
    BY <1>2, <1>6
  <2>10. AtomInv'
    BY <1>1, <1>3, <1>6, <2>2, <2>3, <2>5, <2>7, <2>8, <2>9, EnteredAtomic
  <2> QED
    BY <1>1, <1>3, <2>9, <2>10, AppendEffect
<1>7. CASE type = "savepoint" /\ ~r.ok
  <2>1. sSrv' = sSrv \/ sSrv' = RefusedBy(sSrv).srv
    <3>1. CASE configured
      BY <1>2, <1>4, <1>7, <3>1
    <3>2. CASE ~configured
      <4>1. r = Savepoint(sSrv, Len(sFrames) + 1) /\ Len(sFrames) + 1 \in Nat
        BY <1>1, <1>2, <1>7, <3>2
      <4> QED
        BY <1>1, <1>4, <1>7, <4>1, SavepointEffect
    <3> QED
      BY <3>1, <3>2
  <2>2. UNCHANGED <<sFrames, sLog>>
    BY <1>2, <1>7
  <2>3. /\ sSrv'.work = sSrv.work /\ sSrv'.saves = sSrv.saves
        /\ sSrv'.st = sSrv.st \/ (sSrv.st = "T" /\ sSrv'.st = "E")
    BY <1>1, <2>1, RefusedQuiet
  <2>4. AtomInv'
    BY <2>2, <2>3, SameFramesAtomic
  <2> QED
    BY <1>1, <2>2, <2>4
<1>8. r.ok \in BOOLEAN
  <2>1. Len(sFrames) + 1 \in Nat
    BY <1>1
  <2> QED
    BY <1>1, <1>2, <2>1, BeginEffect, SavepointEffect
<1> QED
  BY <1>2, <1>5, <1>6, <1>7, <1>8

LEMMA EnterSettingsAtomic ==
  ASSUME SessInv, Formed', AtomInv, EnterSettings
  PROVE  AtomInv' /\ Len(sFrames') >= Len(sFrames)
<1>1. /\ Formed /\ Typed /\ CacheHonest /\ sSrv \in Servers /\ sFrames \in Seq(Frames)
      /\ Len(sFrames) \in Nat /\ sSrv.vals \in [Keys -> 0..1] /\ sCache \in [Keys -> -1..1] /\ Numbered
  BY ElementsOf DEF SessInv, Formed, Typed, Servers, AtomInv
<1>2. PICK k, v, stored, r, f :
        /\ k \in Keys /\ v \in 0..1
        /\ stored = StoredValue(k) /\ r = SetTo(sSrv, k, v)
        /\ f = [Frame("settings", "none", k) EXCEPT !.stored = stored]
        /\ sSrv' = r.srv
        /\ sFrames' = IF r.ok THEN Append(sFrames, f) ELSE sFrames
  BY DEF EnterSettings
<1>3. stored \in 0..1
  <2>1. sCache[k] \in -1..1 /\ sSrv.vals[k] \in 0..1
    BY <1>1, <1>2
  <2> QED
    BY <1>2, <2>1 DEF StoredValue, Absent
<1>4. /\ f \in Frames /\ f.kind = "settings" /\ f.stored = stored /\ f.items = {} /\ f.called = FALSE
      /\ f.trusted = ~sLog.stale /\ f.pre = sSrv.vals[k]
  <2>1. k \in Keys /\ sSrv.vals[k] \in 0..1 /\ sLog.stale \in BOOLEAN
    BY <1>1, <1>2 DEF Typed
  <2>2. f = [ kind |-> "settings", type |-> "none", state |-> "open", items |-> {}, called |-> FALSE,
              key |-> k, stored |-> stored, pre |-> sSrv.vals[k], trusted |-> ~sLog.stale ]
    BY <1>2 DEF Frame
  <2> QED
    BY <1>3, <2>1, <2>2 DEF Frames
<1>5. sLog'.written = sLog.written
  BY <1>1, SetsEffect DEF EnterSettings
<1>6. /\ sSrv'.work = sSrv.work /\ sSrv'.saves = sSrv.saves
      /\ sSrv'.st = sSrv.st \/ (sSrv.st = "T" /\ sSrv'.st = "E")
  BY <1>1, <1>2, SetQuiet
<1>7. CASE r.ok
  <2>1. sSrv.st \in {"I", "T"} /\ sSrv'.st = sSrv.st
    <3>1. SetTo(sSrv, k, v).ok
      BY <1>2, <1>7
    <3> QED
      BY <1>1, <1>2, <3>1, SetEffect
  <2>2. f.trusted => f.stored = f.pre
    BY <1>1, <1>2, <1>4, <2>1 DEF StoredValue, CacheHonest, closed
  <2>3. SavesGrow
    <3>1. Len(sSrv.saves) \in Nat
      BY <1>1 DEF Servers
    <3> QED
      BY <1>6, <3>1 DEF SavesGrow
  <2>4. Numbered'
    BY <1>1, <1>5, <1>6 DEF Numbered
  <2>5. sFrames' = Append(sFrames, f)
    BY <1>2, <1>7
  <2>6. AtomInv'
    BY <1>1, <1>4, <1>6, <2>1, <2>2, <2>3, <2>4, <2>5, EnteredAtomic
  <2> QED
    BY <1>1, <1>4, <2>5, <2>6, AppendEffect
<1>8. CASE ~r.ok
  BY <1>1, <1>2, <1>5, <1>6, <1>8, SameFramesAtomic
<1>9. r.ok \in BOOLEAN
  BY <1>1, <1>2, SetEffect
<1> QED
  BY <1>7, <1>8, <1>9

LEMMA AtomStep ==
  ASSUME SessInv, AtomInv, [SessionNext]_sessionVars
  PROVE  /\ AtomInv'
         /\ LeavesBlock("xact") => XactEnds
         /\ LeavesBlock("settings") => SettingsEnd
<1>1. Formed'
  BY SessionStep DEF SessInv
<1>2. Len(sFrames) \in Nat /\ Len(sFrames') \in Nat
  BY <1>1, ElementsOf DEF SessInv, Formed, Typed
<1>3. \A kind : Len(sFrames') >= Len(sFrames) => ~LeavesBlock(kind)
  BY <1>2 DEF LeavesBlock
<1>4. Top.kind = "xact" => ~LeavesBlock("settings")
  BY DEF LeavesBlock
<1>5. Top.kind = "settings" => ~LeavesBlock("xact")
  BY DEF LeavesBlock
<1>6. CASE StartXact
  BY <1>1, <1>3, <1>6, StartXactAtomic
<1>7. CASE CommitCall \/ RollbackCall
  BY <1>1, <1>2, <1>3, <1>7, CallsAtomic
<1>8. CASE ExitXact
  BY <1>1, <1>4, <1>8, ExitXactAtomic DEF ExitXact
<1>9. CASE ExitXactRaised
  BY <1>1, <1>4, <1>9, ExitXactRaisedAtomic DEF ExitXactRaised
<1>10. CASE Query
  BY <1>1, <1>2, <1>3, <1>10, QueryAtomic
<1>11. CASE SetItem \/ GetItem \/ DelItem
  BY <1>1, <1>2, <1>3, <1>11, SettingsAtomic
<1>12. CASE EnterSettings
  BY <1>1, <1>3, <1>12, EnterSettingsAtomic
<1>13. CASE ExitSettings
  BY <1>1, <1>5, <1>13, ExitSettingsAtomic DEF ExitSettings
<1>14. CASE Reset
  BY <1>1, <1>2, <1>3, <1>14, ResetAtomic
<1>15. CASE Throw \/ Catch \/ SessionLost \/ UNCHANGED sessionVars
  BY <1>1, <1>2, <1>3, <1>15, OthersAtomic
<1> QED
  BY <1>6, <1>7, <1>8, <1>9, <1>10, <1>11, <1>12, <1>13, <1>14, <1>15 DEF SessionNext

LEMMA AtomStart == SessionInit => AtomInv
<1> SUFFICES ASSUME SessionInit PROVE AtomInv
  OBVIOUS
<1>1. Len(sFrames) = 0 /\ Len(sSrv.saves) = 0 /\ sSrv.work = {}
  BY DEF SessionInit
<1> QED
  BY <1>1 DEF AtomInv, CalledFirst, Numbered, Trusted, AllAlive, AllNested

\* A with block is atomic at any depth, whatever was called, failed or swallowed in
\* it and in the blocks around it: the rows of one left without an exception are
\* there, of one left by an Exception none is, and a settings block restores its
\* setting or the aborted transaction around it will.
THEOREM AtomicTheorem == SessionSpec => WithIsAtomic
<1> DEFINE Inv == SessInv /\ AtomInv
           Ends == /\ LeavesBlock("xact") => XactEnds
                   /\ LeavesBlock("settings") => SettingsEnd
<1>1. SessionInit => Inv
  BY SessionStart, AtomStart
<1>2. Inv /\ [SessionNext]_sessionVars => Inv' /\ Ends
  BY SessionStep, AtomStep
<1>3. WithIsAtomic <=> [][Ends]_sessionVars
  BY PTL DEF WithIsAtomic
<1> QED
  <2>1. Inv /\ [SessionNext]_sessionVars => Inv' /\ [Ends]_sessionVars
    BY <1>2
  <2> HIDE DEF Inv, Ends
  <2> QED
    BY <1>1, <1>3, <2>1, PTL DEF SessionSpec
=============================================================================
