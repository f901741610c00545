---------------------------- MODULE PqToolsProofs ----------------------------
(***************************************************************************)
(* Proofs about what the driver is used through: the scrollable cursor,    *)
(* the advisory locks, the DB-API and the control of a cluster, for any    *)
(* number of rows, sessions, locks, portals, statements, calls and         *)
(* postmasters.                                                            *)
(***************************************************************************)
EXTENDS PqScroll, PqLocks, PqDbapi, PqControl, SequenceTheorems, TLAPS, FiniteSetTheorems,
        WellFoundedInduction

-----------------------------------------------------------------------------
(* The scrollable cursor.                                                  *)

ScrollInv ==
  \/ scRows = -1 /\ scPos = 0 /\ scIdeal = 0 /\ scDir = TRUE
  \/ /\ scRows \in Nat /\ scPos \in 0 .. End
     /\ \/ scDir = TRUE /\ scIdeal = scPos
        \/ scDir = FALSE /\ scIdeal = End - scPos

LEMMA Consumes ==
  ASSUME NEW p PROVE Consumed(p, TRUE) = p /\ Consumed(p, FALSE) = End - p
BY DEF Consumed

\* What each MOVE does.
LEMMA Moves ==
  ASSUME NEW p, NEW n
  PROVE  /\ Moved(p, <<"FORWARD", n>>) = Clamp(p + n)
         /\ Moved(p, <<"RELATIVE", n>>) = Clamp(p + n)
         /\ Moved(p, <<"BACKWARD", n>>) = Clamp(p - n)
         /\ Moved(p, <<"ABSOLUTE", n>>) = IF n < 0 THEN Clamp(End + n) ELSE Clamp(n)
         /\ Moved(p, <<"LAST", n>>) = scRows
         /\ Moved(p, <<"NEXT", n>>) = Clamp(p + 1)
BY DEF Moved

LEMMA Seeks ==
  ASSUME scRows \in Nat, NEW p \in Int, NEW n \in Int
  PROVE  /\ Sought(p, <<"FORWARD", n>>) = Clamp(p + n)
         /\ Sought(p, <<"RELATIVE", n>>) = Clamp(p + n)
         /\ n >= 0 => Sought(p, <<"BACKWARD", n>>) = Clamp(p - n)
         /\ n < 0 => Sought(p, <<"ABSOLUTE", n>>) = Clamp(End + n)
         /\ n >= 0 => Sought(p, <<"ABSOLUTE", n>>) = Clamp(n)
         /\ Sought(p, <<"FROM_END", n>>) = Clamp(End - n)
<1>1. p - (-n) = p + n
  OBVIOUS
<1>2. Clamp(scRows + 1) = End
  BY DEF Clamp, End
<1>3. /\ Sought(p, <<"FORWARD", n>>) =
           IF n < 0 THEN Moved(p, <<"BACKWARD", -n>>) ELSE Moved(p, <<"FORWARD", n>>)
      /\ Sought(p, <<"RELATIVE", n>>) =
           IF n < 0 THEN Moved(p, <<"BACKWARD", -n>>) ELSE Moved(p, <<"RELATIVE", n>>)
      /\ Sought(p, <<"BACKWARD", n>>) =
           IF n < 0 THEN Moved(p, <<"BACKWARD", -n>>) ELSE Moved(p, <<"BACKWARD", n>>)
      /\ Sought(p, <<"ABSOLUTE", n>>) = Moved(p, <<"ABSOLUTE", n>>)
  BY DEF Sought
<1>4. Sought(p, <<"FROM_END", n>>) = Moved(Moved(Moved(p, <<"LAST", 0>>), <<"NEXT", 0>>), <<"BACKWARD", n>>)
  BY DEF Sought
<1>5. Moved(Moved(p, <<"LAST", 0>>), <<"NEXT", 0>>) = End
  <2>1. Moved(p, <<"LAST", 0>>) = scRows
    BY Moves
  <2>2. Moved(scRows, <<"NEXT", 0>>) = Clamp(scRows + 1)
    BY Moves
  <2> QED
    BY <1>2, <2>1, <2>2
<1>6. Sought(p, <<"FROM_END", n>>) = Clamp(End - n)
  BY <1>4, <1>5, Moves
<1>7. Moved(p, <<"BACKWARD", -n>>) = Clamp(p + n)
  <2>1. Moved(p, <<"BACKWARD", -n>>) = Clamp(p - (-n))
    BY Moves
  <2> QED
    BY <1>1, <2>1
<1>8. /\ Moved(p, <<"FORWARD", n>>) = Clamp(p + n)
      /\ Moved(p, <<"RELATIVE", n>>) = Clamp(p + n)
      /\ Moved(p, <<"BACKWARD", n>>) = Clamp(p - n)
      /\ Moved(p, <<"ABSOLUTE", n>>) = IF n < 0 THEN Clamp(End + n) ELSE Clamp(n)
  BY Moves
<1> QED
  BY <1>3, <1>6, <1>7, <1>8

\* How the direction turns a seek.
LEMMA Turns ==
  ASSUME NEW n \in Int
  PROVE  /\ scDir = TRUE => /\ \A w \in Whences \ {"BACKWARD"} : Turned(n, w) = <<w, n>>
                            /\ Turned(n, "BACKWARD") = IF n < 0 THEN <<"FORWARD", -n>>
                                                       ELSE <<"BACKWARD", n>>
         /\ scDir = FALSE => /\ Turned(n, "RELATIVE") = <<"RELATIVE", -n>>
                             /\ Turned(n, "ABSOLUTE") = <<"FROM_END", n>>
                             /\ Turned(n, "FROM_END") = <<"ABSOLUTE", n>>
                             /\ Turned(n, "FORWARD") = <<"ABSOLUTE", n>>
                             /\ \E m \in Int : Turned(n, "BACKWARD") = <<"ABSOLUTE", m>>
<1>1. -n \in Int
  OBVIOUS
<1> QED
  BY <1>1 DEF Turned, Reversed, Whences

\* A seek lands where a forward cursor over the rows in reverse would.
LEMMA SeekMirrors ==
  ASSUME ScrollInv, scRows \in Nat, NEW n \in Int, NEW w \in Whences
  PROVE  LET p == Sought(scPos, Turned(n, w))
         IN /\ p \in 0 .. End
            /\ Documented(w) /\ (n >= 0 \/ w \notin {"ABSOLUTE", "FROM_END"})
                 => Ideal(n, w) = Consumed(p, scDir)
<1> DEFINE p == Sought(scPos, Turned(n, w))
<1> HIDE DEF p
<1>1. /\ scPos \in 0 .. End
      /\ \/ scDir = TRUE /\ scIdeal = scPos
         \/ scDir = FALSE /\ scIdeal = End - scPos
  BY DEF ScrollInv
<1>2. w \in {"ABSOLUTE", "RELATIVE", "FROM_END", "FORWARD", "BACKWARD"}
  BY DEF Whences
<1>3. -n \in Int /\ scPos \in Int
  BY <1>1 DEF End
<1>4. /\ Ideal(n, "ABSOLUTE") = Clamp(n) /\ Ideal(n, "FROM_END") = Clamp(End - n)
      /\ Ideal(n, "RELATIVE") = Clamp(scIdeal + n) /\ Ideal(n, "FORWARD") = Clamp(scIdeal + n)
      /\ Ideal(n, "BACKWARD") = Clamp(scIdeal - n)
  BY DEF Ideal
<1>5. CASE scDir = TRUE
  <2>1. scIdeal = scPos /\ Consumed(p, scDir) = p
    BY <1>1, <1>5, Consumes
  <2>2. /\ w = "ABSOLUTE" => p = IF n < 0 THEN Clamp(End + n) ELSE Clamp(n)
        /\ w = "FROM_END" => p = Clamp(End - n)
        /\ w \in {"RELATIVE", "FORWARD"} => p = Clamp(scPos + n)
        /\ w = "BACKWARD" => p = Clamp(scPos - n)
    <3>1. scPos + (-n) = scPos - n
      BY <1>3
    <3>2. w # "BACKWARD" => p = Sought(scPos, <<w, n>>)
      BY <1>5, Turns DEF p
    <3>3. w = "BACKWARD" => p = IF n < 0 THEN Sought(scPos, <<"FORWARD", -n>>)
                                ELSE Sought(scPos, <<"BACKWARD", n>>)
      BY <1>5, Turns DEF p
    <3>4. /\ Sought(scPos, <<"FORWARD", -n>>) = Clamp(scPos + (-n))
          /\ n >= 0 => Sought(scPos, <<"BACKWARD", n>>) = Clamp(scPos - n)
      <4>1. PICK k \in Int : k = -n
        BY <1>3
      <4> QED
        BY <1>3, <4>1, Seeks
    <3>5. /\ n < 0 => Sought(scPos, <<"ABSOLUTE", n>>) = Clamp(End + n)
          /\ n >= 0 => Sought(scPos, <<"ABSOLUTE", n>>) = Clamp(n)
          /\ Sought(scPos, <<"FROM_END", n>>) = Clamp(End - n)
          /\ Sought(scPos, <<"RELATIVE", n>>) = Clamp(scPos + n)
          /\ Sought(scPos, <<"FORWARD", n>>) = Clamp(scPos + n)
      BY <1>3, Seeks
    <3> QED
      BY <1>2, <3>1, <3>2, <3>3, <3>4, <3>5
  <2>3. p \in 0 .. End
    BY <1>2, <1>3, <2>2 DEF Clamp, End
  <2> QED
    BY <1>2, <1>4, <2>1, <2>2, <2>3 DEF p
<1>6. CASE scDir = FALSE
  <2>1. scIdeal = End - scPos /\ Consumed(p, scDir) = End - p
    BY <1>1, <1>6, Consumes
  <2>2. /\ w = "ABSOLUTE" => p = Clamp(End - n)
        /\ w = "FROM_END" => p = IF n < 0 THEN Clamp(End + n) ELSE Clamp(n)
        /\ w = "RELATIVE" => p = Clamp(scPos - n)
    <3>1. scPos + (-n) = scPos - n
      BY <1>3
    <3>2. /\ w = "ABSOLUTE" => p = Sought(scPos, <<"FROM_END", n>>)
          /\ w = "FROM_END" => p = Sought(scPos, <<"ABSOLUTE", n>>)
          /\ w = "RELATIVE" => p = Sought(scPos, <<"RELATIVE", -n>>)
      BY <1>6, Turns DEF p
    <3>3. Sought(scPos, <<"RELATIVE", -n>>) = Clamp(scPos + (-n))
      <4>1. PICK k \in Int : k = -n
        BY <1>3
      <4> QED
        BY <1>3, <4>1, Seeks
    <3>4. /\ Sought(scPos, <<"FROM_END", n>>) = Clamp(End - n)
          /\ n < 0 => Sought(scPos, <<"ABSOLUTE", n>>) = Clamp(End + n)
          /\ n >= 0 => Sought(scPos, <<"ABSOLUTE", n>>) = Clamp(n)
      BY <1>3, Seeks
    <3> QED
      BY <3>1, <3>2, <3>3, <3>4
  <2>3. w \in {"FORWARD", "BACKWARD"} => ~Documented(w) /\ p \in 0 .. End
    <3>1. ~Documented("FORWARD") /\ ~Documented("BACKWARD")
      BY <1>6 DEF Documented
    <3>2. w \in {"FORWARD", "BACKWARD"} => \E m \in Int : p = Sought(scPos, <<"ABSOLUTE", m>>)
      <4>1. \E m \in Int : Turned(n, "FORWARD") = <<"ABSOLUTE", m>>
        BY <1>6, Turns
      <4>2. \E m \in Int : Turned(n, "BACKWARD") = <<"ABSOLUTE", m>>
        BY <1>6, Turns
      <4> QED
        BY <4>1, <4>2 DEF p
    <3>3. \A m \in Int : Sought(scPos, <<"ABSOLUTE", m>>) \in 0 .. End
      <4> TAKE m \in Int
      <4>1. /\ m < 0 => Sought(scPos, <<"ABSOLUTE", m>>) = Clamp(End + m)
            /\ m >= 0 => Sought(scPos, <<"ABSOLUTE", m>>) = Clamp(m)
        BY <1>3, Seeks
      <4> QED
        BY <1>3, <4>1 DEF Clamp, End
    <3> QED
      BY <3>1, <3>2, <3>3
  <2>4. p \in 0 .. End
    BY <1>2, <1>3, <2>2, <2>3 DEF Clamp, End
  <2>5. ASSUME n >= 0 \/ w \notin {"ABSOLUTE", "FROM_END"},
               w \in {"ABSOLUTE", "RELATIVE", "FROM_END"}
        PROVE  Ideal(n, w) = End - p
    <3>1. w = "ABSOLUTE" => Clamp(n) = End - p
      BY <1>3, <2>2, <2>5 DEF Clamp, End
    <3>2. w = "FROM_END" => Clamp(End - n) = End - p
      BY <1>3, <2>2, <2>5 DEF Clamp, End
    <3>3. w = "RELATIVE" => Clamp((End - scPos) + n) = End - p
      BY <1>1, <1>3, <2>2, <2>5 DEF Clamp, End
    <3> QED
      BY <1>4, <2>1, <2>5, <3>1, <3>2, <3>3
  <2> QED
    BY <1>2, <2>1, <2>3, <2>4, <2>5 DEF p
<1> QED
  BY <1>1, <1>5, <1>6

\* Reading a cursor backward is reading a forward one over the rows in reverse,
\* after any sequence of seeks, reads and turns.
THEOREM ReverseTheorem == ScrollSpec => []ReverseMirrors
<1>1. ScrollInit => ScrollInv
  BY DEF ScrollInit, ScrollInv
<1>2. ScrollInv /\ [ScrollNext]_scrollVars => ScrollInv'
  <2> SUFFICES ASSUME ScrollInv, [ScrollNext]_scrollVars PROVE ScrollInv'
    OBVIOUS
  <2>1. CASE Declare
    <3>1. scPos' = 0 /\ scIdeal' = 0 /\ scDir' = TRUE
      BY <2>1 DEF Declare, ScrollInv
    <3>2. PICK r \in Nat : scRows' = r
      BY <2>1, ScrollBounds DEF Declare
    <3> QED
      BY <3>1, <3>2 DEF ScrollInv, End
  <2>2. CASE Seek
    <3>1. scRows \in Nat /\ scRows' = scRows /\ scDir' = scDir
      BY <2>2 DEF Seek, ScrollInv
    <3>2. PICK n \in Offsets, w \in Whences :
            /\ scPos' = Sought(scPos, Turned(n, w))
            /\ scIdeal' = IF Documented(w) /\ (n >= 0 \/ w \notin {"ABSOLUTE", "FROM_END"})
                          THEN Ideal(n, w) ELSE Consumed(scPos', scDir)
      BY <2>2 DEF Seek
    <3>3. n \in Int
      BY ScrollBounds
    <3>4. scPos' \in 0 .. End /\ scIdeal' = Consumed(scPos', scDir)
      BY <3>1, <3>2, <3>3, SeekMirrors
    <3> QED
      BY <3>1, <3>4, Consumes DEF ScrollInv, End
  <2>3. CASE SeekAll
    <3>1. scRows \in Nat /\ scRows' = scRows /\ scDir' = scDir
      BY <2>3 DEF SeekAll, ScrollInv
    <3>2. PICK w \in Whences :
            /\ scPos' = Moved(scPos, AllCommand(w))
            /\ scIdeal' = IF Documented(w) THEN IF w = "BACKWARD" THEN 0 ELSE End
                          ELSE Consumed(scPos', scDir)
      BY <2>3 DEF SeekAll
    <3>3. /\ w = "BACKWARD" => scPos' = Clamp(scPos - End)
          /\ w = "FORWARD" => scPos' = Clamp(scPos + End)
          /\ w \notin {"FORWARD", "BACKWARD"} =>
               scPos' = IF scDir THEN Clamp(scPos + End) ELSE Clamp(scPos - End)
      <4>1. /\ w = "BACKWARD" => AllCommand(w) = <<"BACKWARD", End>>
            /\ w = "FORWARD" => AllCommand(w) = <<"FORWARD", End>>
            /\ w \notin {"FORWARD", "BACKWARD"} =>
                 AllCommand(w) = IF scDir THEN <<"FORWARD", End>> ELSE <<"BACKWARD", End>>
        BY DEF AllCommand
      <4> QED
        <5>1. /\ Moved(scPos, <<"FORWARD", End>>) = Clamp(scPos + End)
              /\ Moved(scPos, <<"BACKWARD", End>>) = Clamp(scPos - End)
          BY Moves
        <5> QED
          BY <3>2, <4>1, <5>1
    <3>4. /\ Clamp(scPos - End) = 0 /\ Clamp(scPos + End) = End
          /\ 0 \in 0 .. End /\ End \in 0 .. End /\ End - 0 = End /\ End - End = 0
      BY <3>1 DEF ScrollInv, Clamp, End
    <3>5. scPos' \in 0 .. End /\ scIdeal' = Consumed(scPos', scDir)
      BY <3>1, <3>2, <3>3, <3>4, Consumes DEF Documented, Whences, ScrollInv
    <3> QED
      BY <3>1, <3>5, Consumes DEF ScrollInv, End
  <2>4. CASE ReadSome
    <3>1. /\ scRows \in Nat /\ scRows' = scRows /\ scDir' = scDir
          /\ scPos \in 0 .. End /\ scIdeal \in 0 .. End
      BY <2>4 DEF ReadSome, ScrollInv, End
    <3>2. PICK asked \in {"same", "forward", "backward"}, q \in {1, 2, End} :
            /\ scPos' = FetchedTo(scPos, WhichWay(asked), q)
            /\ scIdeal' = Clamp(IF WhichWay(asked) = scDir THEN scIdeal + q ELSE scIdeal - q)
      BY <2>4 DEF ReadSome
    <3>3. q \in Nat
      BY <3>1, <3>2 DEF End
    <3>4. WhichWay(asked) \in BOOLEAN
      BY DEF WhichWay, ScrollInv
    <3>5. FetchedTo(scPos, TRUE, q) = Clamp(scPos + q) /\ FetchedTo(scPos, FALSE, q) = Clamp(scPos - q)
      BY DEF FetchedTo
    <3>6. /\ Clamp(scPos + q) \in 0 .. End /\ Clamp((End - scPos) - q) = End - Clamp(scPos + q)
          /\ Clamp(scPos - q) \in 0 .. End /\ Clamp((End - scPos) + q) = End - Clamp(scPos - q)
      BY <3>1, <3>3 DEF Clamp, End
    <3>7. CASE scDir = TRUE
      BY <3>1, <3>2, <3>4, <3>5, <3>6, <3>7 DEF ScrollInv, End
    <3>8. CASE scDir = FALSE
      BY <3>1, <3>2, <3>4, <3>5, <3>6, <3>8 DEF ScrollInv, End
    <3> QED
      BY <3>7, <3>8 DEF ScrollInv
  <2>5. CASE SetDirection
    <3>1. scRows \in Nat /\ scRows' = scRows /\ scPos' = scPos /\ scIdeal' = End - scIdeal
      BY <2>5 DEF SetDirection, ScrollInv
    <3>2. (scDir = TRUE => scDir' = FALSE) /\ (scDir = FALSE => scDir' = TRUE)
      BY <2>5, Zenon DEF SetDirection
    <3> QED
      BY <3>1, <3>2 DEF ScrollInv, End
  <2>6. CASE UNCHANGED scrollVars
    BY <2>6 DEF scrollVars, ScrollInv, End
  <2> QED
    BY <2>1, <2>2, <2>3, <2>4, <2>5, <2>6 DEF ScrollNext
<1>3. ScrollInv => ReverseMirrors
  BY Consumes DEF ScrollInv, ReverseMirrors
<1> QED
  BY <1>1, <1>2, <1>3, PTL DEF ScrollSpec

-----------------------------------------------------------------------------
(* The advisory locks.  A ticket is a place of an ALock whose identifier the *)
(* server has locked for it; the server's counts are those of the tickets.   *)

LockModes == {"exclusive", "share"}
Gots == [l \in ALocks |->
           IF lCount[l] > 0 THEN DOMAIN l.ids
           ELSE IF lCall[l.session] # NoCall /\ lCall[l.session].lock = l
                THEN lCall[l.session].got ELSE {}]
Tickets(got, s, m, id) ==
  {t \in ALocks \X Nat : /\ t[1].session = s /\ t[1].mode = m
                         /\ t[2] \in got[t[1]] /\ t[1].ids[t[2]] = id}
Back(got, l) == [got EXCEPT ![l] = {}]
More(got, l, k) == [got EXCEPT ![l] = @ \cup {k}]
Times(l, places, id) == Cardinality({i \in places : l.ids[i] = id})
Number(s, m, id) == Cardinality(Tickets(Gots, s, m, id))
Errors == {lLog.errors[i] : i \in DOMAIN lLog.errors}

AnyCall == [op : {"acquire", "try"}, lock : ALocks, at : Nat \ {0}, got : SUBSET Nat]
LockTypes ==
  /\ lCount \in [ALocks -> Nat]
  /\ lCall \in [LockSessions -> {NoCall} \cup AnyCall]
  /\ lHeld \in [LockSessions -> [LockModes -> [LockIds -> Nat]]]
  /\ lClosed \subseteq LockSessions
  /\ lLog \in [errors : Seq(LockSessions), nested : BOOLEAN]
\* A statement runs for an ALock that is not counted, on an open connection, and
\* has got places that it has been at.
CallsOK ==
  \A s \in LockSessions : lCall[s] # NoCall =>
    /\ lCall[s].lock.session = s /\ s \notin lClosed /\ lCount[lCall[s].lock] = 0
    /\ lCall[s].got \subseteq DOMAIN lCall[s].lock.ids
    /\ \A i \in lCall[s].got : i < lCall[s].at
\* No more is held than there are tickets, after an error apart; no less, until
\* a nested ALock is released; and the server keeps modes that exclude each
\* other apart.
Few ==
  \A s \in LockSessions, m \in LockModes, id \in LockIds :
    /\ IsFiniteSet(Tickets(Gots, s, m, id))
    /\ s \notin Errors => lHeld[s][m][id] <= Number(s, m, id)
Enough ==
  ~lLog.nested => \A s \in LockSessions \ lClosed, m \in LockModes, id \in LockIds :
                    Number(s, m, id) <= lHeld[s][m][id]
Away ==
  \A s, t \in LockSessions, id \in LockIds :
    s # t /\ lHeld[s]["exclusive"][id] > 0 =>
      lHeld[t]["exclusive"][id] = 0 /\ lHeld[t]["share"][id] = 0
\* A closed connection has nothing.
Idle == \A s \in lClosed, m \in LockModes, id \in LockIds : lHeld[s][m][id] = 0
LockInv == LockTypes /\ CallsOK /\ Few /\ Enough /\ Away /\ Idle

LEMMA LocksKnown ==
  ASSUME NEW l \in ALocks
  PROVE  /\ l.session \in LockSessions /\ l.mode \in LockModes
         /\ l.ids \in Seq(Nat) /\ DOMAIN l.ids = 1 .. Len(l.ids) /\ Len(l.ids) \in Nat
         /\ \A i \in DOMAIN l.ids : l.ids[i] \in LockIds
<1>1. l.ids \in Seq(Nat) /\ l.mode \in LockModes
  BY LockBounds DEF LockModes
<1> QED
  BY <1>1 DEF LockSessions, LockIds

\* Tickets that are given back.
LEMMA TicketsGone ==
  ASSUME NEW got \in [ALocks -> SUBSET Nat], NEW l \in ALocks, NEW s, NEW m, NEW id,
         IsFiniteSet(Tickets(got, s, m, id)),
         NEW new, new = Back(got, l)
  PROVE  /\ IsFiniteSet(Tickets(new, s, m, id))
         /\ l.session = s /\ l.mode = m =>
              /\ Times(l, got[l], id) \in Nat
              /\ Cardinality(Tickets(new, s, m, id)) =
                   Cardinality(Tickets(got, s, m, id)) - Times(l, got[l], id)
         /\ ~(l.session = s /\ l.mode = m) => Tickets(new, s, m, id) = Tickets(got, s, m, id)
<1> DEFINE Old == Tickets(got, s, m, id)
           Gone == {t \in Old : t[1] = l}
           Its == {i \in got[l] : l.ids[i] = id}
<1>1. Tickets(new, s, m, id) = Old \ Gone
  BY DEF Tickets, Back
<1>2. IsFiniteSet(Gone) /\ Cardinality(Gone) \in Nat
  BY FS_Subset, FS_CardinalityType
<1>3. /\ IsFiniteSet(Old \ Gone)
      /\ Cardinality(Old \ Gone) = Cardinality(Old) - Cardinality(Old \cap Gone)
  BY FS_Difference
<1>4. Old \cap Gone = Gone
  OBVIOUS
<1>5. ASSUME l.session = s, l.mode = m
      PROVE  Times(l, got[l], id) = Cardinality(Gone)
  <2> DEFINE f == [t \in Gone |-> t[2]]
  <2>1. \A t \in Gone : t[1] = l /\ t[2] \in Its /\ t = <<l, t[2]>>
    BY DEF Tickets
  <2>2. \A i \in Its : <<l, i>> \in Gone
    BY <1>5 DEF Tickets
  <2>3. f \in [Gone -> Its]
    BY <2>1
  <2>4. \A a, b \in Gone : f[a] = f[b] => a = b
    BY <2>1
  <2>5. \A i \in Its : \E t \in Gone : f[t] = i
    BY <2>2
  <2>6. f \in Bijection(Gone, Its)
    BY <2>3, <2>4, <2>5 DEF Bijection, Injection, Surjection, IsInjective
  <2> QED
    BY <1>2, <2>6, FS_Bijection DEF ExistsBijection, Times
<1>6. ~(l.session = s /\ l.mode = m) => Gone = {}
  BY DEF Tickets
<1> QED
  BY <1>1, <1>2, <1>3, <1>4, <1>5, <1>6

\* A ticket that is taken.
LEMMA TicketsMore ==
  ASSUME NEW got \in [ALocks -> SUBSET Nat], NEW l \in ALocks, NEW s, NEW m, NEW id,
         NEW k \in Nat, k \notin got[l], IsFiniteSet(Tickets(got, s, m, id)),
         NEW new, new = More(got, l, k)
  PROVE  /\ IsFiniteSet(Tickets(new, s, m, id))
         /\ l.session = s /\ l.mode = m /\ l.ids[k] = id =>
              Cardinality(Tickets(new, s, m, id)) = Cardinality(Tickets(got, s, m, id)) + 1
         /\ ~(l.session = s /\ l.mode = m /\ l.ids[k] = id) =>
              Tickets(new, s, m, id) = Tickets(got, s, m, id)
<1>1. CASE l.session = s /\ l.mode = m /\ l.ids[k] = id
  <2>1. Tickets(new, s, m, id) = Tickets(got, s, m, id) \cup {<<l, k>>}
    BY <1>1 DEF Tickets, More
  <2>2. <<l, k>> \notin Tickets(got, s, m, id)
    BY DEF Tickets
  <2>3. /\ IsFiniteSet(Tickets(got, s, m, id) \cup {<<l, k>>})
        /\ Cardinality(Tickets(got, s, m, id) \cup {<<l, k>>}) = Cardinality(Tickets(got, s, m, id)) + 1
    BY <2>2, FS_AddElement
  <2> QED
    BY <1>1, <2>1, <2>3
<1>2. CASE ~(l.session = s /\ l.mode = m /\ l.ids[k] = id)
  <2>1. Tickets(new, s, m, id) = Tickets(got, s, m, id)
    BY <1>2 DEF Tickets, More
  <2> QED
    BY <1>2, <2>1
<1> QED
  BY <1>1, <1>2

\* The places of a list of numbers are finitely many.
LEMMA UpToFinite ==
  ASSUME NEW n \in Nat
  PROVE  IsFiniteSet(1 .. n)
<1>1. 1 \in Int /\ n \in Int
  OBVIOUS
<1> QED
  BY <1>1, FS_Interval, Zenon

\* What the statement that unlocks leaves.
LEMMA Unlocks ==
  ASSUME LockTypes, NEW l \in ALocks, NEW places \in SUBSET DOMAIN l.ids, lHeld' = UnlockAll(l, places)
  PROVE  /\ lHeld' \in [LockSessions -> [LockModes -> [LockIds -> Nat]]]
         /\ \A s \in LockSessions, m \in LockModes, id \in LockIds :
              /\ Times(l, places, id) \in Nat
              /\ lHeld'[s][m][id] <= lHeld[s][m][id]
              /\ s = l.session /\ m = l.mode =>
                   /\ lHeld[s][m][id] > Times(l, places, id) =>
                        lHeld'[s][m][id] = lHeld[s][m][id] - Times(l, places, id)
                   /\ ~(lHeld[s][m][id] > Times(l, places, id)) => lHeld'[s][m][id] = 0
              /\ ~(s = l.session /\ m = l.mode) => lHeld'[s][m][id] = lHeld[s][m][id]
<1> DEFINE row == lHeld[l.session][l.mode]
           left == [id \in LockIds |->
                      IF row[id] > Times(l, places, id) THEN row[id] - Times(l, places, id) ELSE 0]
<1>1. \A id : Times(l, places, id) \in Nat
  <2> TAKE id
  <2> HIDE DEF row, left
  <2>1. IsFiniteSet(1 .. Len(l.ids))
    <3>1. Len(l.ids) \in Nat
      BY LocksKnown
    <3> QED
      BY <3>1, UpToFinite
  <2>2. {i \in places : l.ids[i] = id} \in SUBSET (1 .. Len(l.ids))
    BY LocksKnown
  <2> QED
    BY <2>1, <2>2, FS_Subset, FS_CardinalityType DEF Times
<1>2. row \in [LockIds -> Nat]
  BY LocksKnown DEF LockTypes
<1>3. lHeld' = [lHeld EXCEPT ![l.session][l.mode] = left]
  BY DEF UnlockAll, Times
<1>4. left \in [LockIds -> Nat]
  BY <1>1, <1>2
<1>5. \A id \in LockIds :
        /\ row[id] > Times(l, places, id) => left[id] = row[id] - Times(l, places, id)
        /\ ~(row[id] > Times(l, places, id)) => left[id] = 0
        /\ left[id] <= row[id]
  BY <1>1, <1>2
<1> HIDE DEF left
<1>6. lHeld' \in [LockSessions -> [LockModes -> [LockIds -> Nat]]]
  BY <1>3, <1>4, LocksKnown DEF LockTypes
<1>7. ASSUME NEW s \in LockSessions, NEW m \in LockModes, NEW id \in LockIds
      PROVE  /\ s = l.session /\ m = l.mode => lHeld'[s][m][id] = left[id]
             /\ ~(s = l.session /\ m = l.mode) => lHeld'[s][m][id] = lHeld[s][m][id]
             /\ lHeld[s][m][id] \in Nat
  BY <1>3, <1>7, LocksKnown DEF LockTypes
<1>8. ASSUME NEW s \in LockSessions, NEW m \in LockModes, NEW id \in LockIds
      PROVE  lHeld'[s][m][id] <= lHeld[s][m][id]
  BY <1>5, <1>7, <1>8
<1> QED
  BY <1>1, <1>5, <1>6, <1>7, <1>8

LEMMA GotsKnown ==
  ASSUME LockTypes, CallsOK
  PROVE  /\ Gots \in [ALocks -> SUBSET Nat]
         /\ \A l \in ALocks :
              /\ Gots[l] \subseteq DOMAIN l.ids
              /\ lCount[l] > 0 => Gots[l] = DOMAIN l.ids
              /\ lCall[l.session] # NoCall /\ lCall[l.session].lock = l => Gots[l] = lCall[l.session].got
              /\ lCount[l] = 0 /\ lCall[l.session] = NoCall => Gots[l] = {}
<1>1. ASSUME NEW l \in ALocks
      PROVE  /\ l.session \in LockSessions /\ lCount[l] \in Nat
             /\ DOMAIN l.ids \subseteq Nat
             /\ lCall[l.session] # NoCall /\ lCall[l.session].lock = l =>
                  lCount[l] = 0 /\ lCall[l.session].got \subseteq DOMAIN l.ids
  <2>1. l.session \in LockSessions /\ lCount[l] \in Nat /\ DOMAIN l.ids = 1 .. Len(l.ids) /\ Len(l.ids) \in Nat
    BY <1>1, LocksKnown DEF LockTypes
  <2> QED
    BY <2>1 DEF CallsOK
<1>2. \A l \in ALocks :
        Gots[l] = IF lCount[l] > 0 THEN DOMAIN l.ids
                  ELSE IF lCall[l.session] # NoCall /\ lCall[l.session].lock = l
                       THEN lCall[l.session].got ELSE {}
  BY DEF Gots
<1>3. \A l \in ALocks :
        /\ Gots[l] \subseteq DOMAIN l.ids
        /\ lCount[l] > 0 => Gots[l] = DOMAIN l.ids
        /\ lCall[l.session] # NoCall /\ lCall[l.session].lock = l => Gots[l] = lCall[l.session].got
        /\ lCount[l] = 0 /\ lCall[l.session] = NoCall => Gots[l] = {}
  BY <1>1, <1>2
<1>4. Gots = [l \in ALocks |-> Gots[l]]
  BY DEF Gots
<1> QED
  BY <1>1, <1>3, <1>4

LEMMA NumberKnown ==
  ASSUME Few, NEW s \in LockSessions, NEW m \in LockModes, NEW id \in LockIds
  PROVE  Number(s, m, id) \in Nat
BY FS_CardinalityType DEF Few, Number

\* A step that neither takes nor gives back a ticket.
LEMMA TicketsKept ==
  ASSUME LockInv, LockTypes', Gots' = Gots, Errors \subseteq Errors',
         lClosed \subseteq lClosed',
         \A s \in LockSessions, m \in LockModes, id \in LockIds : lHeld'[s][m][id] <= lHeld[s][m][id],
         \A s \in lClosed' \ lClosed, m \in LockModes, id \in LockIds : lHeld'[s][m][id] = 0,
         ~lLog'.nested =>
           /\ ~lLog.nested
           /\ \A s \in LockSessions \ lClosed' : lHeld'[s] = lHeld[s]
  PROVE  Few' /\ Enough' /\ Away' /\ Idle'
<1>1. ASSUME NEW s \in LockSessions, NEW m \in LockModes, NEW id \in LockIds
      PROVE  /\ lHeld[s][m][id] \in Nat /\ lHeld'[s][m][id] \in Nat /\ Number(s, m, id) \in Nat
             /\ Number(s, m, id)' = Number(s, m, id)
             /\ Tickets(Gots, s, m, id)' = Tickets(Gots, s, m, id)
  BY <1>1, NumberKnown DEF LockInv, LockTypes, Number
<1>2. Few'
  <2> SUFFICES ASSUME NEW s \in LockSessions, NEW m \in LockModes, NEW id \in LockIds
               PROVE  /\ IsFiniteSet(Tickets(Gots, s, m, id)')
                      /\ s \notin Errors' => lHeld'[s][m][id] <= Number(s, m, id)'
    BY DEF Few
  <2>1. IsFiniteSet(Tickets(Gots, s, m, id))
    BY DEF LockInv, Few
  <2>2. s \notin Errors => lHeld[s][m][id] <= Number(s, m, id)
    BY DEF LockInv, Few
  <2> QED
    BY <1>1, <2>1, <2>2
<1>3. Enough'
  <2> SUFFICES ASSUME ~lLog'.nested, NEW s \in LockSessions \ lClosed', NEW m \in LockModes, NEW id \in LockIds
               PROVE  Number(s, m, id)' <= lHeld'[s][m][id]
    BY DEF Enough
  <2>1. Number(s, m, id) <= lHeld[s][m][id]
    BY DEF LockInv, Enough
  <2> QED
    BY <1>1, <2>1
<1>4. Away'
  <2> SUFFICES ASSUME NEW s \in LockSessions, NEW t \in LockSessions, NEW id \in LockIds,
                      s # t, lHeld'[s]["exclusive"][id] > 0
               PROVE  lHeld'[t]["exclusive"][id] = 0 /\ lHeld'[t]["share"][id] = 0
    BY DEF Away
  <2>1. "exclusive" \in LockModes /\ "share" \in LockModes
    BY DEF LockModes
  <2>2. lHeld[s]["exclusive"][id] > 0
    BY <1>1, <2>1
  <2>3. lHeld[t]["exclusive"][id] = 0 /\ lHeld[t]["share"][id] = 0
    BY <2>2 DEF LockInv, Away
  <2> QED
    BY <1>1, <2>1, <2>3
<1>5. Idle'
  <2> SUFFICES ASSUME NEW s \in lClosed', NEW m \in LockModes, NEW id \in LockIds
               PROVE  lHeld'[s][m][id] = 0
    BY DEF Idle
  <2>1. CASE s \in lClosed
    <3>1. lHeld[s][m][id] = 0 /\ s \in LockSessions
      BY <2>1 DEF LockInv, Idle, LockTypes
    <3> QED
      BY <1>1, <3>1
  <2> QED
    BY <2>1
<1> QED
  BY <1>2, <1>3, <1>4, <1>5

\* A step that gives back the tickets of an ALock: the server's counts go down
\* by as many, or the session has no claim any more.
LEMMA TicketsBack ==
  ASSUME LockInv, LockTypes', NEW l \in ALocks, Gots' = [Gots EXCEPT ![l] = {}],
         lClosed' = lClosed, lLog'.nested = lLog.nested,
         \/ lHeld' = UnlockAll(l, Gots[l]) /\ Errors' = Errors
         \/ lHeld' = lHeld /\ l.session \in lClosed /\ Errors' = Errors
         \/ lHeld' = lHeld /\ Errors' = Errors \cup {l.session}
  PROVE  Few' /\ Enough' /\ Away' /\ Idle'
<1>1. Gots \in [ALocks -> SUBSET Nat] /\ Gots[l] \in SUBSET DOMAIN l.ids
  BY GotsKnown DEF LockInv
<1>2. PICK new : new = Gots'
  OBVIOUS
<1>3. ASSUME NEW s \in LockSessions, NEW m \in LockModes, NEW id \in LockIds
      PROVE  /\ lHeld[s][m][id] \in Nat /\ lHeld'[s][m][id] \in Nat
             /\ Number(s, m, id) \in Nat /\ Number(s, m, id)' \in Nat
             /\ IsFiniteSet(Tickets(Gots, s, m, id)')
             /\ Number(s, m, id)' <= Number(s, m, id)
             /\ l.session = s /\ l.mode = m =>
                  /\ Times(l, Gots[l], id) \in Nat
                  /\ Number(s, m, id)' = Number(s, m, id) - Times(l, Gots[l], id)
             /\ ~(l.session = s /\ l.mode = m) => Number(s, m, id)' = Number(s, m, id)
  <2>1. IsFiniteSet(Tickets(Gots, s, m, id))
    BY DEF LockInv, Few
  <2>2. Tickets(Gots, s, m, id)' = Tickets(new, s, m, id)
    BY <1>2 DEF Tickets
  <2>3. new = Back(Gots, l)
    BY <1>2 DEF Back
  <2>4. PICK got : got = Gots
    OBVIOUS
  <2>5. /\ IsFiniteSet(Tickets(new, s, m, id))
        /\ l.session = s /\ l.mode = m =>
             /\ Times(l, got[l], id) \in Nat
             /\ Cardinality(Tickets(new, s, m, id)) =
                  Cardinality(Tickets(got, s, m, id)) - Times(l, got[l], id)
        /\ ~(l.session = s /\ l.mode = m) => Tickets(new, s, m, id) = Tickets(got, s, m, id)
    <3>1. got \in [ALocks -> SUBSET Nat] /\ IsFiniteSet(Tickets(got, s, m, id)) /\ new = Back(got, l)
      BY <1>1, <2>1, <2>3, <2>4
    <3> QED
      BY <3>1, TicketsGone
  <2>6. Number(s, m, id)' = Cardinality(Tickets(new, s, m, id))
    BY <1>2 DEF Number
  <2>7. Number(s, m, id) = Cardinality(Tickets(got, s, m, id))
    BY <2>4 DEF Number
  <2>8. Number(s, m, id) \in Nat /\ Number(s, m, id)' \in Nat
    BY <2>1, <2>4, <2>5, <2>6, <2>7, FS_CardinalityType
  <2>9. lHeld[s][m][id] \in Nat /\ lHeld'[s][m][id] \in Nat
    BY DEF LockInv, LockTypes
  <2>10. /\ l.session = s /\ l.mode = m =>
                  /\ Times(l, Gots[l], id) \in Nat
                  /\ Number(s, m, id)' = Number(s, m, id) - Times(l, Gots[l], id)
         /\ ~(l.session = s /\ l.mode = m) => Number(s, m, id)' = Number(s, m, id)
    BY <2>4, <2>5, <2>6, <2>7
  <2>11. Number(s, m, id)' <= Number(s, m, id)
    BY <2>8, <2>10
  <2> QED
    BY <2>2, <2>5, <2>8, <2>9, <2>10, <2>11
<1>4. ASSUME NEW s \in LockSessions, NEW m \in LockModes, NEW id \in LockIds
      PROVE  /\ lHeld'[s][m][id] <= lHeld[s][m][id]
             /\ s \notin Errors' /\ lHeld[s][m][id] <= Number(s, m, id) =>
                  lHeld'[s][m][id] <= Number(s, m, id)'
             /\ s \notin lClosed /\ Number(s, m, id) <= lHeld[s][m][id] =>
                  Number(s, m, id)' <= lHeld'[s][m][id]
  <2>1. CASE lHeld' = UnlockAll(l, Gots[l])
    <3>1. /\ lHeld'[s][m][id] <= lHeld[s][m][id]
          /\ s = l.session /\ m = l.mode =>
               /\ lHeld[s][m][id] > Times(l, Gots[l], id) =>
                    lHeld'[s][m][id] = lHeld[s][m][id] - Times(l, Gots[l], id)
               /\ ~(lHeld[s][m][id] > Times(l, Gots[l], id)) => lHeld'[s][m][id] = 0
          /\ ~(s = l.session /\ m = l.mode) => lHeld'[s][m][id] = lHeld[s][m][id]
      <4>1. PICK got : got = Gots[l]
        OBVIOUS
      <4> QED
        BY <1>1, <2>1, <4>1, Unlocks DEF LockInv
    <3>2. CASE s = l.session /\ m = l.mode
      BY <1>3, <3>1, <3>2
    <3>3. CASE ~(s = l.session /\ m = l.mode)
      BY <1>3, <3>1, <3>3
    <3> QED
      BY <3>2, <3>3
  <2>2. CASE lHeld' = lHeld /\ l.session \in lClosed
    <3>1. s = l.session => lHeld[s][m][id] = 0
      BY <2>2 DEF LockInv, Idle
    <3>2. CASE s = l.session
      BY <1>3, <2>2, <3>1, <3>2
    <3>3. CASE s # l.session
      BY <1>3, <2>2, <3>3
    <3> QED
      BY <3>2, <3>3
  <2>3. CASE lHeld' = lHeld /\ Errors' = Errors \cup {l.session}
    <3>1. CASE s = l.session
      BY <1>3, <2>3, <3>1
    <3>2. CASE s # l.session
      BY <1>3, <2>3, <3>2
    <3> QED
      BY <3>1, <3>2
  <2> QED
    BY <2>1, <2>2, <2>3
<1>5. Errors \subseteq Errors'
  OBVIOUS
<1>6. Few'
  <2> SUFFICES ASSUME NEW s \in LockSessions, NEW m \in LockModes, NEW id \in LockIds
               PROVE  /\ IsFiniteSet(Tickets(Gots, s, m, id)')
                      /\ s \notin Errors' => lHeld'[s][m][id] <= Number(s, m, id)'
    BY DEF Few
  <2>1. s \notin Errors => lHeld[s][m][id] <= Number(s, m, id)
    BY DEF LockInv, Few
  <2> QED
    BY <1>3, <1>4, <1>5, <2>1
<1>7. Enough'
  <2> SUFFICES ASSUME ~lLog.nested, NEW s \in LockSessions \ lClosed, NEW m \in LockModes, NEW id \in LockIds
               PROVE  Number(s, m, id)' <= lHeld'[s][m][id]
    BY DEF Enough
  <2>1. Number(s, m, id) <= lHeld[s][m][id]
    BY DEF LockInv, Enough
  <2> QED
    BY <1>4, <2>1
<1>8. Away'
  <2> SUFFICES ASSUME NEW s \in LockSessions, NEW t \in LockSessions, NEW id \in LockIds,
                      s # t, lHeld'[s]["exclusive"][id] > 0
               PROVE  lHeld'[t]["exclusive"][id] = 0 /\ lHeld'[t]["share"][id] = 0
    BY DEF Away
  <2>1. "exclusive" \in LockModes /\ "share" \in LockModes
    BY DEF LockModes
  <2>2. lHeld[s]["exclusive"][id] > 0
    BY <1>3, <1>4, <2>1
  <2>3. lHeld[t]["exclusive"][id] = 0 /\ lHeld[t]["share"][id] = 0
    BY <2>2 DEF LockInv, Away
  <2> QED
    BY <1>3, <1>4, <2>1, <2>3
<1>9. Idle'
  <2> SUFFICES ASSUME NEW s \in lClosed, NEW m \in LockModes, NEW id \in LockIds
               PROVE  lHeld'[s][m][id] = 0
    BY DEF Idle
  <2>1. lHeld[s][m][id] = 0 /\ s \in LockSessions
    BY DEF LockInv, Idle, LockTypes
  <2> QED
    BY <1>3, <1>4, <2>1
<1> QED
  BY <1>6, <1>7, <1>8, <1>9

LEMMA CallKnown ==
  ASSUME LockTypes, CallsOK, NEW l \in ALocks, lCall[l.session] # NoCall, lCall[l.session].lock = l
  PROVE  LET c == lCall[l.session]
         IN /\ c \in AnyCall /\ l.session \notin lClosed /\ lCount[l] = 0
            /\ c.got \subseteq DOMAIN l.ids /\ Gots[l] = c.got
            /\ \A i \in c.got : i < c.at
<1>1. l.session \in LockSessions
  BY LocksKnown
<1>2. lCall[l.session] \in AnyCall
  BY <1>1 DEF LockTypes
<1> QED
  BY <1>1, <1>2, GotsKnown DEF CallsOK

\* Only the session's call and the ALock's count change: what the others have
\* got stays.
LEMMA GotsElsewhere ==
  ASSUME LockTypes, LockTypes', CallsOK, NEW l \in ALocks,
         \A k \in ALocks \ {l} : lCount'[k] = lCount[k],
         \A s \in LockSessions \ {l.session} : lCall'[s] = lCall[s],
         \/ lCall'[l.session] = lCall[l.session]
         \/ /\ lCall[l.session] = NoCall \/ lCall[l.session].lock = l
            /\ lCall'[l.session] = NoCall \/ lCall'[l.session].lock = l
  PROVE  \A k \in ALocks \ {l} : Gots'[k] = Gots[k]
<1> SUFFICES ASSUME NEW k \in ALocks, k # l PROVE Gots'[k] = Gots[k]
  OBVIOUS
<1>1. k.session \in LockSessions /\ l.session \in LockSessions
  BY LocksKnown
<1>2. Gots[k] = IF lCount[k] > 0 THEN DOMAIN k.ids
                ELSE IF lCall[k.session] # NoCall /\ lCall[k.session].lock = k
                     THEN lCall[k.session].got ELSE {}
  BY DEF Gots
<1>3. Gots'[k] = IF lCount'[k] > 0 THEN DOMAIN k.ids
                 ELSE IF lCall'[k.session] # NoCall /\ lCall'[k.session].lock = k
                      THEN lCall'[k.session].got ELSE {}
  BY DEF Gots
<1>4. lCount'[k] = lCount[k]
  OBVIOUS
<1>5. CASE lCall'[k.session] = lCall[k.session]
  BY <1>2, <1>3, <1>4, <1>5
<1>6. CASE lCall'[k.session] # lCall[k.session]
  <2>1. k.session = l.session
    BY <1>1, <1>6
  <2>2. /\ lCall[k.session] = NoCall \/ lCall[k.session].lock = l
        /\ lCall'[k.session] = NoCall \/ lCall'[k.session].lock = l
    BY <1>6, <2>1
  <2> QED
    BY <1>2, <1>3, <1>4, <2>2
<1> QED
  BY <1>5, <1>6

LEMMA GotsSame ==
  ASSUME \A k \in ALocks : Gots'[k] = Gots[k]
  PROVE  Gots' = Gots
BY DEF Gots

LEMMA GotsBut ==
  ASSUME NEW l \in ALocks, NEW S, \A k \in ALocks \ {l} : Gots'[k] = Gots[k], Gots'[l] = S
  PROVE  Gots' = [Gots EXCEPT ![l] = S]
<1>1. Gots = [k \in ALocks |-> Gots[k]] /\ Gots' = [k \in ALocks |-> Gots'[k]]
  BY DEF Gots
<1> QED
  BY <1>1

\* A call that ends, and one that goes on, are as CallsOK says.
LEMMA CallsChange ==
  ASSUME LockTypes, LockTypes', CallsOK, NEW l \in ALocks,
         \A s \in LockSessions \ {l.session} : lCall'[s] = lCall[s],
         \A k \in ALocks : lCount'[k] # lCount[k] => k.session = l.session,
         lClosed' = lClosed,
         \/ lCall'[l.session] = NoCall
         \/ LET c == lCall'[l.session]
            IN /\ c.lock = l /\ l.session \notin lClosed /\ lCount'[l] = 0
               /\ c.got \subseteq DOMAIN l.ids /\ \A i \in c.got : i < c.at
  PROVE  CallsOK'
<1> SUFFICES ASSUME NEW s \in LockSessions, lCall'[s] # NoCall
             PROVE  /\ lCall'[s].lock.session = s /\ s \notin lClosed' /\ lCount'[lCall'[s].lock] = 0
                    /\ lCall'[s].got \subseteq DOMAIN lCall'[s].lock.ids
                    /\ \A i \in lCall'[s].got : i < lCall'[s].at
  BY DEF CallsOK
<1>1. CASE s = l.session
  BY <1>1
<1>2. CASE s # l.session
  <2>1. lCall'[s] = lCall[s] /\ lCall[s] # NoCall
    BY <1>2
  <2>2. lCall[s].lock \in ALocks /\ lCall[s].lock.session = s
    BY <2>1 DEF LockTypes, AnyCall, CallsOK
  <2>3. lCount'[lCall[s].lock] = lCount[lCall[s].lock]
    BY <1>2, <2>2
  <2> QED
    BY <2>1, <2>3 DEF CallsOK
<1> QED
  BY <1>1, <1>2

\* A step that takes a ticket: the server has counted it, and no other session's
\* lock was in the way.
LEMMA TicketTaken ==
  ASSUME LockInv, LockTypes', NEW l \in ALocks, NEW k \in DOMAIN l.ids, k \notin Gots[l],
         Gots' = More(Gots, l, k), ~Conflict(l.session, l.mode, l.ids[k]),
         lHeld' = Granted(lHeld, l, l.ids[k]), l.session \notin lClosed,
         lClosed' = lClosed, lLog' = lLog
  PROVE  Few' /\ Enough' /\ Away' /\ Idle'
<1>1. /\ Gots \in [ALocks -> SUBSET Nat] /\ k \in Nat
      /\ l.session \in LockSessions /\ l.mode \in LockModes /\ l.ids[k] \in LockIds
  <2>1. k \in Nat
    BY LocksKnown
  <2> QED
    BY <2>1, GotsKnown, LocksKnown DEF LockInv
<1>2. PICK new : new = Gots'
  OBVIOUS
<1>3. ASSUME NEW s \in LockSessions, NEW m \in LockModes, NEW id \in LockIds
      PROVE  /\ lHeld[s][m][id] \in Nat
             /\ s = l.session /\ m = l.mode /\ id = l.ids[k] => lHeld'[s][m][id] = lHeld[s][m][id] + 1
             /\ ~(s = l.session /\ m = l.mode /\ id = l.ids[k]) => lHeld'[s][m][id] = lHeld[s][m][id]
  BY <1>1, <1>3 DEF Granted, LockInv, LockTypes
<1>4. ASSUME NEW s \in LockSessions, NEW m \in LockModes, NEW id \in LockIds
      PROVE  /\ IsFiniteSet(Tickets(Gots, s, m, id)')
             /\ Number(s, m, id) \in Nat
             /\ s = l.session /\ m = l.mode /\ id = l.ids[k] => Number(s, m, id)' = Number(s, m, id) + 1
             /\ ~(s = l.session /\ m = l.mode /\ id = l.ids[k]) => Number(s, m, id)' = Number(s, m, id)
  <2>1. PICK got : got = Gots
    OBVIOUS
  <2>2. IsFiniteSet(Tickets(got, s, m, id)) /\ got \in [ALocks -> SUBSET Nat] /\ k \notin got[l]
    BY <1>1, <2>1 DEF LockInv, Few
  <2>3. new = More(got, l, k)
    BY <1>2, <2>1
  <2>4. /\ IsFiniteSet(Tickets(new, s, m, id))
        /\ l.session = s /\ l.mode = m /\ l.ids[k] = id =>
             Cardinality(Tickets(new, s, m, id)) = Cardinality(Tickets(got, s, m, id)) + 1
        /\ ~(l.session = s /\ l.mode = m /\ l.ids[k] = id) =>
             Tickets(new, s, m, id) = Tickets(got, s, m, id)
    BY <1>1, <2>2, <2>3, TicketsMore
  <2>5. Tickets(Gots, s, m, id)' = Tickets(new, s, m, id)
    BY <1>2 DEF Tickets
  <2>6. Number(s, m, id)' = Cardinality(Tickets(new, s, m, id))
    BY <1>2 DEF Number
  <2>7. Number(s, m, id) = Cardinality(Tickets(got, s, m, id)) /\ Number(s, m, id) \in Nat
    BY <2>1, <2>2, FS_CardinalityType DEF Number
  <2> QED
    BY <2>4, <2>5, <2>6, <2>7
<1>5. Few'
  <2> SUFFICES ASSUME NEW s \in LockSessions, NEW m \in LockModes, NEW id \in LockIds
               PROVE  /\ IsFiniteSet(Tickets(Gots, s, m, id)')
                      /\ s \notin Errors' => lHeld'[s][m][id] <= Number(s, m, id)'
    BY DEF Few
  <2>1. s \notin Errors => lHeld[s][m][id] <= Number(s, m, id)
    BY DEF LockInv, Few
  <2>2. Errors' = Errors
    BY DEF Errors
  <2>3. CASE s = l.session /\ m = l.mode /\ id = l.ids[k]
    BY <1>3, <1>4, <2>1, <2>2, <2>3
  <2>4. CASE ~(s = l.session /\ m = l.mode /\ id = l.ids[k])
    BY <1>3, <1>4, <2>1, <2>2, <2>4
  <2> QED
    BY <2>3, <2>4
<1>6. Enough'
  <2> SUFFICES ASSUME ~lLog.nested, NEW s \in LockSessions \ lClosed, NEW m \in LockModes, NEW id \in LockIds
               PROVE  Number(s, m, id)' <= lHeld'[s][m][id]
    BY DEF Enough
  <2>1. Number(s, m, id) <= lHeld[s][m][id]
    BY DEF LockInv, Enough
  <2>2. CASE s = l.session /\ m = l.mode /\ id = l.ids[k]
    BY <1>3, <1>4, <2>1, <2>2
  <2>3. CASE ~(s = l.session /\ m = l.mode /\ id = l.ids[k])
    BY <1>3, <1>4, <2>1, <2>3
  <2> QED
    BY <2>2, <2>3
<1>7. Away'
  <2> SUFFICES ASSUME NEW s \in LockSessions, NEW t \in LockSessions, NEW id \in LockIds,
                      s # t, lHeld'[s]["exclusive"][id] > 0
               PROVE  lHeld'[t]["exclusive"][id] = 0 /\ lHeld'[t]["share"][id] = 0
    BY DEF Away
  <2>1. "exclusive" \in LockModes /\ "share" \in LockModes
    BY DEF LockModes
  <2>2. lHeld[s]["exclusive"][id] > 0 =>
          lHeld[t]["exclusive"][id] = 0 /\ lHeld[t]["share"][id] = 0
    BY DEF LockInv, Away
  <2>3. \A o \in LockSessions \ {l.session} :
          /\ ~(lHeld[o]["exclusive"][l.ids[k]] > 0)
          /\ l.mode = "exclusive" => ~(lHeld[o]["share"][l.ids[k]] > 0)
    BY DEF Conflict
  <2>4. CASE id = l.ids[k] /\ s = l.session
    <3>1. t \in LockSessions \ {l.session}
      BY <2>4
    <3>2. lHeld'[t]["exclusive"][id] = lHeld[t]["exclusive"][id] /\ lHeld'[t]["share"][id] = lHeld[t]["share"][id]
      BY <1>3, <2>1, <3>1
    <3>3. CASE l.mode = "exclusive"
      <4>1. ~(lHeld[t]["exclusive"][id] > 0) /\ ~(lHeld[t]["share"][id] > 0)
        BY <2>3, <2>4, <3>1, <3>3
      <4> QED
        BY <1>3, <2>1, <3>2, <4>1
    <3>4. CASE l.mode # "exclusive"
      BY <1>3, <2>1, <2>2, <3>2, <3>4
    <3> QED
      BY <3>3, <3>4
  <2>5. CASE id = l.ids[k] /\ t = l.session
    <3>1. lHeld'[s]["exclusive"][id] = lHeld[s]["exclusive"][id]
      BY <1>3, <2>1, <2>5
    <3> QED
      BY <2>3, <2>5, <3>1
  <2>6. CASE ~(id = l.ids[k] /\ (s = l.session \/ t = l.session))
    BY <1>3, <2>1, <2>2, <2>6
  <2> QED
    BY <2>4, <2>5, <2>6
<1>8. Idle'
  <2> SUFFICES ASSUME NEW s \in lClosed, NEW m \in LockModes, NEW id \in LockIds
               PROVE  lHeld'[s][m][id] = 0
    BY DEF Idle
  <2>1. lHeld[s][m][id] = 0 /\ s \in LockSessions /\ s # l.session
    BY DEF LockInv, Idle, LockTypes
  <2> QED
    BY <1>3, <2>1
<1> QED
  BY <1>5, <1>6, <1>7, <1>8

LEMMA LocksInitially == LocksInit => LockInv
<1> SUFFICES ASSUME LocksInit PROVE LockInv
  OBVIOUS
<1>1. LockTypes
  <2>1. lLog \in [errors : Seq(LockSessions), nested : BOOLEAN]
    BY DEF LocksInit
  <2>2. lHeld \in [LockSessions -> [LockModes -> [LockIds -> Nat]]]
    BY DEF LocksInit, LockModes
  <2> QED
    BY <2>1, <2>2 DEF LocksInit, LockTypes
<1>2. CallsOK
  BY DEF LocksInit, CallsOK
<1>3. Gots = [l \in ALocks |-> {}]
  <2>1. \A l \in ALocks : lCount[l] = 0 /\ lCall[l.session] = NoCall
    BY LocksKnown DEF LocksInit
  <2> QED
    BY <2>1 DEF Gots
<1>4. \A s \in LockSessions, m \in LockModes, id \in LockIds :
        /\ lHeld[s][m][id] = 0
        /\ Tickets(Gots, s, m, id) = {} /\ Number(s, m, id) = 0
  <2> TAKE s \in LockSessions, m \in LockModes, id \in LockIds
  <2>1. Tickets(Gots, s, m, id) = {}
    BY <1>3 DEF Tickets
  <2>2. lHeld[s][m][id] = 0
    BY DEF LocksInit, LockModes
  <2> QED
    BY <2>1, <2>2, FS_EmptySet DEF Number
<1>5. Few
  <2>1. \A s \in LockSessions, m \in LockModes, id \in LockIds : IsFiniteSet(Tickets(Gots, s, m, id))
    BY <1>4, FS_EmptySet
  <2>2. \A s \in LockSessions, m \in LockModes, id \in LockIds : lHeld[s][m][id] <= Number(s, m, id)
    BY <1>4
  <2> QED
    BY <2>1, <2>2 DEF Few
<1>6. Enough
  BY <1>4 DEF Enough
<1>7. Away
  <2>1. "exclusive" \in LockModes /\ "share" \in LockModes
    BY DEF LockModes
  <2> QED
    BY <1>4, <2>1 DEF Away
<1>8. Idle
  BY DEF LocksInit, Idle
<1> QED
  BY <1>1, <1>2, <1>5, <1>6, <1>7, <1>8 DEF LockInv

LEMMA LocksSteps == LockInv /\ [LocksNext]_lockVars => LockInv'
<1> SUFFICES ASSUME LockInv, [LocksNext]_lockVars PROVE LockInv'
  OBVIOUS
<1> USE DEF LockInv
<1>1. CASE UNCHANGED lockVars
  <2>1. Gots' = Gots /\ LockTypes' /\ CallsOK' /\ Errors' = Errors
    BY <1>1 DEF lockVars, Gots, LockTypes, CallsOK, Errors
  <2>2. \A s \in LockSessions, m \in LockModes, id \in LockIds : lHeld'[s][m][id] <= lHeld[s][m][id]
    BY <1>1 DEF lockVars, LockTypes
  <2> QED
    BY <1>1, <2>1, <2>2, TicketsKept DEF lockVars
<1>2. ASSUME NEW l \in ALocks, Reacquire(l) PROVE LockInv'
  <2>1. LockTypes'
    BY <1>2 DEF Reacquire, LockTypes
  <2>2. CallsOK'
    <3>1. lCall' = lCall /\ lClosed' = lClosed /\ lCall[l.session] = NoCall
      BY <1>2 DEF Reacquire, Free
    <3>2. \A k \in ALocks \ {l} : lCount'[k] = lCount[k]
      BY <1>2 DEF Reacquire, LockTypes
    <3> QED
      BY <2>1, <3>1, <3>2, CallsChange
  <2>3. \A k \in ALocks : Gots'[k] = Gots[k]
    <3>1. /\ lCount[l] > 0 /\ lCount'[l] > 0
          /\ \A k \in ALocks \ {l} : lCount'[k] = lCount[k]
      BY <1>2 DEF Reacquire, LockTypes
    <3>2. Gots'[l] = Gots[l]
      BY <3>1 DEF Gots
    <3>3. lCall' = lCall
      BY <1>2 DEF Reacquire
    <3> QED
      BY <2>1, <3>1, <3>2, <3>3, GotsElsewhere
  <2>4. Gots' = Gots
    BY <2>3, GotsSame
  <2>5. \A s \in LockSessions, m \in LockModes, id \in LockIds : lHeld'[s][m][id] <= lHeld[s][m][id]
    BY <1>2 DEF Reacquire, LockTypes
  <2>6. Errors' = Errors /\ lHeld' = lHeld /\ lClosed' = lClosed /\ lLog' = lLog
    BY <1>2 DEF Reacquire, Errors
  <2> QED
    BY <2>1, <2>2, <2>4, <2>5, <2>6, TicketsKept
<1>3. ASSUME NEW l \in ALocks, Acquire(l) PROVE LockInv'
  <2>1. PICK op \in {"acquire", "try"} :
          lCall' = [lCall EXCEPT ![l.session] = [op |-> op, lock |-> l, at |-> 1, got |-> {}]]
    BY <1>3 DEF Acquire, Calls
  <2>2. /\ lCall[l.session] = NoCall /\ lCount[l] = 0 /\ l.session \notin lClosed
        /\ lCount' = lCount /\ lHeld' = lHeld /\ lClosed' = lClosed /\ lLog' = lLog
        /\ l.session \in LockSessions
    BY <1>3, LocksKnown DEF Acquire, Free
  <2>3. LockTypes'
    <3>1. [op |-> op, lock |-> l, at |-> 1, got |-> {}] \in AnyCall
      BY DEF AnyCall
    <3>2. lCall' \in [LockSessions -> {NoCall} \cup AnyCall]
      BY <2>1, <3>1 DEF LockTypes
    <3> QED
      BY <2>2, <3>2 DEF LockTypes
  <2>4. /\ lCall'[l.session] = [op |-> op, lock |-> l, at |-> 1, got |-> {}]
        /\ \A s \in LockSessions \ {l.session} : lCall'[s] = lCall[s]
    BY <2>1, <2>2 DEF LockTypes
  <2>5. CallsOK'
    BY <2>2, <2>3, <2>4, CallsChange
  <2>6. Gots' = Gots
    <3>1. Gots[l] = {}
      BY <2>2 DEF Gots
    <3>2. Gots'[l] = {}
      BY <2>2, <2>4 DEF Gots
    <3>3. \A k \in ALocks \ {l} : Gots'[k] = Gots[k]
      BY <2>2, <2>3, <2>4, GotsElsewhere
    <3> QED
      BY <3>1, <3>2, <3>3, GotsSame
  <2>7. Errors' = Errors
    BY <2>2 DEF Errors
  <2>8. \A s \in LockSessions, m \in LockModes, id \in LockIds : lHeld'[s][m][id] <= lHeld[s][m][id]
    BY <2>2 DEF LockTypes
  <2> QED
    BY <2>2, <2>3, <2>5, <2>6, <2>7, <2>8, TicketsKept
<1>4. ASSUME NEW l \in ALocks, LockNext(l) PROVE LockInv'
  <2>1. PICK c : c = lCall[l.session]
    OBVIOUS
  <2>2. /\ c # NoCall /\ c.lock = l /\ c.at <= Len(l.ids)
        /\ lCount' = lCount /\ lClosed' = lClosed /\ lLog' = lLog
    BY <1>4, <2>1 DEF LockNext
  <2>3. /\ c \in AnyCall /\ l.session \notin lClosed /\ lCount[l] = 0
        /\ c.got \subseteq DOMAIN l.ids /\ Gots[l] = c.got
        /\ \A i \in c.got : i < c.at
        /\ l.session \in LockSessions
    BY <2>1, <2>2, CallKnown, LocksKnown
  <2>4. c.at \in Nat /\ c.at # 0 /\ c.got \in SUBSET Nat
    BY <2>3 DEF AnyCall
  <2>5. PICK got : /\ got = IF Conflict(l.session, l.mode, l.ids[c.at]) THEN c.got ELSE c.got \cup {c.at}
                   /\ lCall' = [lCall EXCEPT ![l.session] = [c EXCEPT !.at = @ + 1, !.got = got]]
    BY <1>4, <2>1 DEF LockNext, Calls
  <2>6. PICK d : d = [c EXCEPT !.at = @ + 1, !.got = got]
    OBVIOUS
  <2>7. /\ d.op = c.op /\ d.lock = l /\ d.at = c.at + 1 /\ d.got = got
        /\ d \in AnyCall /\ d # NoCall
    <3>1. got \in SUBSET Nat
      BY <2>4, <2>5
    <3> QED
      <4>1. c = [op |-> c.op, lock |-> c.lock, at |-> c.at, got |-> c.got] /\ c.op \in {"acquire", "try"}
        BY <2>3 DEF AnyCall
      <4>2. d = [op |-> c.op, lock |-> l, at |-> c.at + 1, got |-> got]
        BY <2>2, <2>6, <4>1
      <4>3. d \in AnyCall
        BY <2>4, <3>1, <4>1, <4>2 DEF AnyCall
      <4>4. NoCall.op = "none" /\ d.op # "none"
        BY <4>1, <4>2 DEF NoCall
      <4> QED
        BY <4>2, <4>3, <4>4
  <2>8. lCall'[l.session] = d /\ \A s \in LockSessions \ {l.session} : lCall'[s] = lCall[s]
    BY <2>3, <2>5, <2>6 DEF LockTypes
  <2>9. Granted(lHeld, l, l.ids[c.at]) \in [LockSessions -> [LockModes -> [LockIds -> Nat]]]
    <3>1. l.mode \in LockModes /\ l.ids[c.at] \in LockIds
      BY <2>2, <2>4, LocksKnown
    <3> QED
      BY <2>3, <3>1 DEF LockTypes, Granted
  <2>10. lHeld' = IF Conflict(l.session, l.mode, l.ids[c.at]) THEN lHeld ELSE Granted(lHeld, l, l.ids[c.at])
    BY <1>4, <2>1 DEF LockNext
  <2>11. LockTypes'
    <3>1. lCall' \in [LockSessions -> {NoCall} \cup AnyCall]
      BY <2>5, <2>6, <2>7 DEF LockTypes
    <3>2. lHeld' \in [LockSessions -> [LockModes -> [LockIds -> Nat]]]
      BY <2>9, <2>10 DEF LockTypes
    <3> QED
      BY <2>2, <3>1, <3>2 DEF LockTypes
  <2>12. CallsOK'
    <3>1. got \subseteq DOMAIN l.ids \cup {c.at} /\ \A i \in got : i < c.at + 1
      BY <2>3, <2>4, <2>5, LocksKnown
    <3>2. got \subseteq DOMAIN l.ids
      BY <2>2, <2>3, <2>4, <2>5, <3>1, LocksKnown
    <3> QED
      BY <2>2, <2>3, <2>7, <2>8, <2>11, <3>1, <3>2, CallsChange
  <2>13. \A k \in ALocks \ {l} : Gots'[k] = Gots[k]
    BY <2>1, <2>2, <2>7, <2>8, <2>11, GotsElsewhere
  <2>14. Gots'[l] = got
    BY <2>2, <2>3, <2>7, <2>8 DEF Gots
  <2>15. CASE Conflict(l.session, l.mode, l.ids[c.at])
    <3>1. Gots' = Gots
      BY <2>3, <2>5, <2>13, <2>14, <2>15, GotsSame
    <3>2. Errors' = Errors /\ lHeld' = lHeld
      BY <2>2, <2>10, <2>15 DEF Errors
    <3>3. \A s \in LockSessions, m \in LockModes, id \in LockIds : lHeld'[s][m][id] <= lHeld[s][m][id]
      BY <3>2 DEF LockTypes
    <3> QED
      BY <2>2, <2>11, <2>12, <3>1, <3>2, <3>3, TicketsKept
  <2>16. CASE ~Conflict(l.session, l.mode, l.ids[c.at])
    <3>1. Gots' = [Gots EXCEPT ![l] = got]
      BY <2>13, <2>14, GotsBut
    <3>2. Gots' = More(Gots, l, c.at)
      BY <2>3, <2>5, <2>16, <3>1 DEF More
    <3>3. c.at \in DOMAIN l.ids /\ c.at \notin Gots[l]
      <4>1. c.at \notin c.got
        BY <2>3, <2>4
      <4> QED
        BY <2>2, <2>3, <2>4, <4>1, LocksKnown
    <3> QED
      BY <2>2, <2>3, <2>10, <2>11, <2>12, <2>16, <3>2, <3>3, TicketTaken
  <2> QED
    BY <2>15, <2>16
<1>5. ASSUME NEW l \in ALocks, LockError(l) PROVE LockInv'
  <2>1. PICK c : c = lCall[l.session]
    OBVIOUS
  <2>2. /\ c # NoCall /\ c.lock = l
        /\ lCount' = lCount /\ lClosed' = lClosed /\ lHeld' = lHeld
        /\ lLog' = [lLog EXCEPT !.errors = Append(@, l.session)]
        /\ lCall' = [lCall EXCEPT ![l.session] = NoCall]
    BY <1>5, <2>1 DEF LockError, Calls
  <2>3. l.session \in LockSessions /\ lCount[l] = 0 /\ Gots[l] = c.got
    BY <2>1, <2>2, CallKnown, LocksKnown
  <2>4. /\ lCall'[l.session] = NoCall
        /\ \A s \in LockSessions \ {l.session} : lCall'[s] = lCall[s]
    BY <2>2, <2>3 DEF LockTypes
  <2>5. LockTypes'
    <3>1. lLog' \in [errors : Seq(LockSessions), nested : BOOLEAN]
      <4>1. PICK e \in Seq(LockSessions), b \in BOOLEAN : lLog = [errors |-> e, nested |-> b]
        BY DEF LockTypes
      <4>2. Append(e, l.session) \in Seq(LockSessions)
        BY <2>3
      <4>3. lLog' = [errors |-> Append(e, l.session), nested |-> b]
        BY <2>2, <4>1
      <4> QED
        BY <4>2, <4>3
    <3>2. lCall' \in [LockSessions -> {NoCall} \cup AnyCall]
      BY <2>2 DEF LockTypes
    <3> QED
      BY <2>2, <3>1, <3>2 DEF LockTypes
  <2>6. CallsOK'
    BY <2>2, <2>4, <2>5, CallsChange
  <2>7. Gots' = [Gots EXCEPT ![l] = {}]
    <3>1. Gots'[l] = {}
      BY <2>2, <2>3, <2>4 DEF Gots
    <3>2. \A k \in ALocks \ {l} : Gots'[k] = Gots[k]
      BY <2>1, <2>2, <2>4, <2>5, GotsElsewhere
    <3> QED
      BY <3>1, <3>2, GotsBut
  <2>8. Errors' = Errors \cup {l.session} /\ lLog'.nested = lLog.nested
    <3>1. PICK e \in Seq(LockSessions) : e = lLog.errors
      BY DEF LockTypes
    <3>2. lLog'.errors = Append(e, l.session) /\ lLog'.nested = lLog.nested
      BY <2>2, <3>1 DEF LockTypes
    <3>3. /\ DOMAIN Append(e, l.session) = 1 .. (Len(e) + 1) /\ DOMAIN e = 1 .. Len(e) /\ Len(e) \in Nat
          /\ \A i \in 1 .. Len(e) : Append(e, l.session)[i] = e[i]
          /\ Append(e, l.session)[Len(e) + 1] = l.session
      BY <2>3, <3>1
    <3>4. {Append(e, l.session)[i] : i \in 1 .. (Len(e) + 1)} = {e[i] : i \in 1 .. Len(e)} \cup {l.session}
      <4>1. 1 .. (Len(e) + 1) = (1 .. Len(e)) \cup {Len(e) + 1}
        BY <3>3
      <4> QED
        BY <3>3, <4>1
    <3> QED
      BY <3>1, <3>2, <3>3, <3>4 DEF Errors
  <2> QED
    BY <2>2, <2>5, <2>6, <2>7, <2>8, TicketsBack
<1>6. ASSUME NEW l \in ALocks, Acquired(l) PROVE LockInv'
  <2>1. PICK c : c = lCall[l.session]
    OBVIOUS
  <2>2. /\ c # NoCall /\ c.lock = l /\ lClosed' = lClosed /\ lLog' = lLog
        /\ lCall' = [lCall EXCEPT ![l.session] = NoCall]
        /\ \/ c.got = DOMAIN l.ids /\ lCount' = [lCount EXCEPT ![l] = @ + 1] /\ lHeld' = lHeld
           \/ c.got # DOMAIN l.ids /\ lCount' = lCount /\ lHeld' = UnlockAll(l, c.got)
    BY <1>6, <2>1 DEF Acquired, Calls, Undone
  <2>3. /\ l.session \in LockSessions /\ lCount[l] = 0 /\ Gots[l] = c.got
        /\ c.got \subseteq DOMAIN l.ids
    BY <2>1, <2>2, CallKnown, LocksKnown
  <2>4. /\ lCall'[l.session] = NoCall
        /\ \A s \in LockSessions \ {l.session} : lCall'[s] = lCall[s]
        /\ \A k \in ALocks \ {l} : lCount'[k] = lCount[k]
    BY <2>2, <2>3 DEF LockTypes
  <2>5. LockTypes'
    <3>1. lCount' \in [ALocks -> Nat]
      BY <2>2 DEF LockTypes
    <3>2. lCall' \in [LockSessions -> {NoCall} \cup AnyCall]
      BY <2>2 DEF LockTypes
    <3>3. lHeld' \in [LockSessions -> [LockModes -> [LockIds -> Nat]]]
      BY <2>2, <2>3, Unlocks DEF LockTypes
    <3> QED
      BY <2>2, <3>1, <3>2, <3>3 DEF LockTypes
  <2>6. CallsOK'
    BY <2>2, <2>4, <2>5, CallsChange
  <2>7. \A k \in ALocks \ {l} : Gots'[k] = Gots[k]
    BY <2>1, <2>2, <2>4, <2>5, GotsElsewhere
  <2>8. Errors' = Errors
    BY <2>2 DEF Errors
  <2>9. CASE c.got = DOMAIN l.ids /\ lCount' = [lCount EXCEPT ![l] = @ + 1] /\ lHeld' = lHeld
    <3>1. lCount'[l] > 0
      BY <2>3, <2>9 DEF LockTypes
    <3>2. Gots'[l] = Gots[l]
      BY <2>3, <2>9, <3>1 DEF Gots
    <3>3. Gots' = Gots
      BY <2>7, <3>2, GotsSame
    <3>4. \A s \in LockSessions, m \in LockModes, id \in LockIds : lHeld'[s][m][id] <= lHeld[s][m][id]
      BY <2>9 DEF LockTypes
    <3> QED
      BY <2>2, <2>5, <2>6, <2>8, <2>9, <3>3, <3>4, TicketsKept
  <2>10. CASE lCount' = lCount /\ lHeld' = UnlockAll(l, c.got)
    <3>1. Gots'[l] = {}
      BY <2>3, <2>4, <2>10 DEF Gots
    <3>2. Gots' = [Gots EXCEPT ![l] = {}]
      BY <2>7, <3>1, GotsBut
    <3> QED
      BY <2>2, <2>3, <2>5, <2>6, <2>8, <2>10, <3>2, TicketsBack
  <2> QED
    BY <2>2, <2>9, <2>10
<1>7. ASSUME NEW l \in ALocks, Release(l) PROVE LockInv'
  <2>1. /\ lCall[l.session] = NoCall /\ lCount[l] > 0 /\ lCall' = lCall /\ lClosed' = lClosed
        /\ lCount' = [lCount EXCEPT ![l] = @ - 1]
        /\ lLog' = [lLog EXCEPT !.nested = @ \/ (lCount[l] > 1 /\ l.session \notin lClosed)]
        /\ l.session \in LockSessions /\ lCount[l] \in Nat
        /\ \/ l.session \in lClosed /\ lHeld' = lHeld
           \/ l.session \notin lClosed /\ lHeld' = UnlockAll(l, DOMAIN l.ids)
    BY <1>7, LocksKnown DEF Release, Free, LockTypes
  <2>2. /\ lCount'[l] = lCount[l] - 1 /\ \A k \in ALocks \ {l} : lCount'[k] = lCount[k]
        /\ lCount' \in [ALocks -> Nat]
    BY <2>1 DEF LockTypes
  <2>3. DOMAIN l.ids \in SUBSET DOMAIN l.ids
    OBVIOUS
  <2>4. LockTypes'
    <3>1. lHeld' \in [LockSessions -> [LockModes -> [LockIds -> Nat]]]
      BY <2>1, <2>3, Unlocks DEF LockTypes
    <3>2. lLog' \in [errors : Seq(LockSessions), nested : BOOLEAN]
      BY <2>1 DEF LockTypes
    <3> QED
      BY <2>1, <2>2, <3>1, <3>2 DEF LockTypes
  <2>5. CallsOK'
    BY <2>1, <2>2, <2>4, CallsChange
  <2>6. \A k \in ALocks \ {l} : Gots'[k] = Gots[k]
    BY <2>1, <2>2, <2>4, GotsElsewhere
  <2>7. Gots[l] = DOMAIN l.ids
    BY <2>1 DEF Gots
  <2>8. Errors' = Errors
    <3>1. lLog'.errors = lLog.errors
      BY <2>1 DEF LockTypes
    <3> QED
      BY <3>1 DEF Errors
  <2>9. CASE lCount[l] > 1
    <3>1. Gots'[l] = Gots[l]
      BY <2>1, <2>2, <2>7, <2>9 DEF Gots
    <3>2. Gots' = Gots
      BY <2>6, <3>1, GotsSame
    <3>3. \A s \in LockSessions, m \in LockModes, id \in LockIds : lHeld'[s][m][id] <= lHeld[s][m][id]
      <4>1. CASE l.session \in lClosed
        BY <2>1, <4>1 DEF LockTypes
      <4>2. CASE l.session \notin lClosed
        BY <2>1, <2>3, <4>2, Unlocks
      <4> QED
        BY <4>1, <4>2
    <3>4. ~lLog'.nested => ~lLog.nested /\ lHeld' = lHeld
      BY <2>1, <2>9 DEF LockTypes
    <3> QED
      BY <2>1, <2>4, <2>5, <2>8, <3>2, <3>3, <3>4, TicketsKept
  <2>10. CASE ~(lCount[l] > 1)
    <3>1. lCount'[l] = 0
      BY <2>1, <2>2, <2>10
    <3>2. Gots'[l] = {}
      BY <2>1, <3>1 DEF Gots
    <3>3. Gots' = [Gots EXCEPT ![l] = {}]
      BY <2>6, <3>2, GotsBut
    <3>4. lLog'.nested = lLog.nested
      BY <2>1, <2>10 DEF LockTypes
    <3> QED
      BY <2>1, <2>4, <2>5, <2>7, <2>8, <3>3, <3>4, TicketsBack
  <2> QED
    BY <2>9, <2>10
<1>8. ASSUME NEW s \in LockSessions, CloseSession(s) PROVE LockInv'
  <2>1. /\ s \notin lClosed /\ lCall[s] = NoCall /\ lClosed' = lClosed \cup {s}
        /\ lCount' = lCount /\ lCall' = lCall /\ lLog' = lLog
        /\ lHeld' = [lHeld EXCEPT ![s] = [m \in LockModes |-> [i \in LockIds |-> 0]]]
    <3>1. {"share", "exclusive"} = LockModes
      BY DEF LockModes
    <3> QED
      BY <1>8, <3>1 DEF CloseSession
  <2>2. LockTypes'
    <3>1. lHeld' \in [LockSessions -> [LockModes -> [LockIds -> Nat]]]
      BY <2>1 DEF LockTypes
    <3> QED
      BY <2>1, <3>1 DEF LockTypes
  <2>3. CallsOK'
    BY <2>1 DEF CallsOK
  <2>4. Gots' = Gots /\ Errors' = Errors
    BY <2>1 DEF Gots, Errors
  <2>5. \A t \in LockSessions, m \in LockModes, id \in LockIds :
          /\ lHeld'[t][m][id] <= lHeld[t][m][id]
          /\ t = s => lHeld'[t][m][id] = 0
    BY <2>1 DEF LockTypes
  <2>6. \A t \in LockSessions \ lClosed' : lHeld'[t] = lHeld[t]
    BY <2>1 DEF LockTypes
  <2>7. \A t \in lClosed' \ lClosed, m \in LockModes, id \in LockIds : lHeld'[t][m][id] = 0
    BY <2>1, <2>5
  <2> QED
    BY <2>1, <2>2, <2>3, <2>4, <2>5, <2>6, <2>7, TicketsKept
<1> QED
  BY <1>1, <1>2, <1>3, <1>4, <1>5, <1>6, <1>7, <1>8 DEF LocksNext

LEMMA TicketHolds ==
  ASSUME LockInv, ~lLog.nested, NEW l \in ALocks, Locked(l), NEW i \in DOMAIN l.ids
  PROVE  lHeld[l.session][l.mode][l.ids[i]] > 0
<1>1. /\ l.session \in LockSessions \ lClosed /\ l.mode \in LockModes /\ l.ids[i] \in LockIds /\ i \in Nat
      /\ Gots[l] = DOMAIN l.ids
  BY LocksKnown, GotsKnown DEF Locked, LockInv
<1> DEFINE T == Tickets(Gots, l.session, l.mode, l.ids[i])
<1>2. <<l, i>> \in T
  BY <1>1 DEF Tickets
<1>3. IsFiniteSet(T)
  BY <1>1 DEF LockInv, Few
<1>4. Cardinality(T) \in Nat /\ Cardinality(T) # 0
  BY <1>2, <1>3, FS_CardinalityType, FS_EmptySet
<1>5. Cardinality(T) <= lHeld[l.session][l.mode][l.ids[i]]
  BY <1>1 DEF LockInv, Enough, Number
<1>6. lHeld[l.session][l.mode][l.ids[i]] \in Nat
  BY <1>1 DEF LockInv, LockTypes
<1> QED
  BY <1>4, <1>5, <1>6

\* For any ALocks and any interleaving of their statements: until a nested ALock
\* is released, two sessions never both hold ALocks that exclude each other; and
\* a session that holds and acquires nothing has no lock at the server, after
\* any failed attempts, unless a statement ended with an error.
THEOREM LocksTheorem == LocksSpec => []LocksMatchCounts
<1>1. LockInv => LocksMatchCounts
  <2> SUFFICES ASSUME LockInv PROVE LocksMatchCounts
    OBVIOUS
  <2>1. ASSUME ~lLog.nested PROVE Exclusion
    <3> SUFFICES ASSUME NEW k \in ALocks, NEW l \in ALocks, Locked(k), Locked(l), k.session # l.session,
                        NEW i \in DOMAIN k.ids, NEW j \in DOMAIN l.ids, k.ids[i] = l.ids[j]
                 PROVE  k.mode = "share" /\ l.mode = "share"
      BY DEF Exclusion
    <3>1. /\ k.session \in LockSessions /\ l.session \in LockSessions /\ k.mode \in LockModes /\ l.mode \in LockModes
          /\ k.ids[i] \in LockIds
      BY LocksKnown
    <3>2. lHeld[k.session][k.mode][k.ids[i]] > 0 /\ lHeld[l.session][l.mode][k.ids[i]] > 0
      BY <2>1, TicketHolds
    <3>3. \A a, b \in LockSessions :
            a # b /\ lHeld[a]["exclusive"][k.ids[i]] > 0 =>
              ~(lHeld[b]["exclusive"][k.ids[i]] > 0) /\ ~(lHeld[b]["share"][k.ids[i]] > 0)
      BY <3>1 DEF LockInv, Away
    <3> QED
      BY <3>1, <3>2, <3>3 DEF LockModes
  <2>2. ASSUME NEW s \in LockSessions, s \notin Errors, lCall[s] = NoCall,
               \A l \in ALocks : l.session = s => lCount[l] = 0, NEW id \in LockIds
        PROVE  ~Holds(s, id)
    <3>1. \A l \in ALocks : l.session = s => Gots[l] = {}
      BY <2>2 DEF Gots
    <3>2. \A m \in LockModes : Tickets(Gots, s, m, id) = {}
      BY <3>1 DEF Tickets
    <3>3. \A m \in LockModes : Number(s, m, id) = 0
      BY <3>2, FS_EmptySet DEF Number
    <3>4. \A m \in LockModes : lHeld[s][m][id] \in Nat /\ lHeld[s][m][id] <= 0
      BY <2>2, <3>3 DEF LockInv, LockTypes, Few
    <3> QED
      BY <3>4 DEF Holds, LockModes
  <2> QED
    BY <2>1, <2>2 DEF LocksMatchCounts, Errors
<1> QED
  BY <1>1, LocksInitially, LocksSteps, PTL DEF LocksSpec

-----------------------------------------------------------------------------
(* DB-API: the rows of a portal, and what the caller is told of its changes. *)

\* The elements of s from pos on are those that follow the number o.
Follows(s, pos, o) == \A i \in 1 .. (Len(s) - pos) : s[pos + i] = o + i
AnyPortal ==
  [ n : Nat, at : Nat, buf : Seq(Nat), pos : Nat, inside : BOOLEAN, gone : BOOLEAN,
    req : {"ok", "none", "refused"}, out : Seq(Nat), ended : BOOLEAN, told : BOOLEAN ]
\* The rows delivered, those of buf from pos on, and those the server has not sent
\* follow each other; an error that was told has cut the rest off.
PortalOK(p) ==
  /\ p \in AnyPortal /\ p.at <= p.n /\ p.pos <= Len(p.buf)
  /\ Follows(p.out, 0, 0) /\ Follows(p.buf, p.pos, Len(p.out))
  /\ Len(p.out) + Len(p.buf) - p.pos <= p.at
  /\ p.told = FALSE => Len(p.out) + Len(p.buf) - p.pos = p.at
  /\ p.told = TRUE => p.req = "none"
  /\ p.req = "none" /\ p.told = FALSE => p.at = p.n
  /\ p.ended = TRUE /\ p.told = FALSE => Len(p.out) = p.n

LEMMA FollowsMore ==
  ASSUME NEW s \in Seq(Nat), NEW r \in Seq(Nat), NEW pos \in Nat, pos <= Len(s), NEW o \in Nat,
         Follows(s, pos, o), Follows(r, 0, o + Len(s) - pos)
  PROVE  /\ s \o r \in Seq(Nat) /\ Len(s \o r) = Len(s) + Len(r)
         /\ Follows(s \o r, pos, o)
<1>1. /\ s \o r \in Seq(Nat) /\ Len(s \o r) = Len(s) + Len(r)
      /\ Len(s) \in Nat /\ Len(r) \in Nat
  OBVIOUS
<1>2. ASSUME NEW i \in 1 .. (Len(s \o r) - pos) PROVE (s \o r)[pos + i] = o + i
  <2>1. CASE pos + i <= Len(s)
    <3>1. (s \o r)[pos + i] = s[pos + i]
      BY <1>1, <2>1
    <3>2. s[pos + i] = o + i
      BY <1>1, <2>1 DEF Follows
    <3> QED
      BY <3>1, <3>2
  <2>2. CASE pos + i > Len(s)
    <3>1. PICK j \in 1 .. Len(r) : pos + i = Len(s) + j
      <4>1. pos + i - Len(s) \in 1 .. Len(r) /\ pos + i = Len(s) + (pos + i - Len(s))
        BY <1>1, <2>2
      <4> QED
        BY <4>1
    <3>2. (s \o r)[Len(s) + j] = r[j]
      <4>1. PICK m \in Nat : m = Len(s) + j
        BY <1>1, <3>1
      <4>2. m \in 1 .. (Len(s) + Len(r)) /\ m > Len(s) /\ m - Len(s) = j
        BY <1>1, <3>1, <4>1
      <4>3. (s \o r)[m] = r[m - Len(s)]
        BY <4>2
      <4> QED
        BY <4>1, <4>2, <4>3
    <3>3. r[0 + j] = o + Len(s) - pos + j
      <4>1. j \in 1 .. (Len(r) - 0)
        BY <3>1
      <4> QED
        BY <4>1 DEF Follows
    <3>4. o + Len(s) - pos + j = o + i /\ 0 + j = j
      <4>1. i \in Int /\ j \in Int
        BY <1>1, <3>1
      <4>2. PICK n \in Int : n = Len(s)
        BY <1>1
      <4>3. pos + i = n + j
        BY <3>1, <4>2
      <4>4. o + n - pos + j = o + i
        BY <4>1, <4>3
      <4> QED
        BY <4>1, <4>2, <4>4
    <3> QED
      BY <3>1, <3>2, <3>3, <3>4
  <2> QED
    BY <1>1, <2>1, <2>2
<1> QED
  BY <1>1, <1>2 DEF Follows

LEMMA FollowsPart ==
  ASSUME NEW s \in Seq(Nat), NEW pos \in Nat, pos <= Len(s), NEW o \in Nat,
         Follows(s, pos, o), NEW k \in Nat, k <= Len(s) - pos
  PROVE  /\ Follows(s, pos + k, o + k)
         /\ LET rest == SubSeq(s, pos + k + 1, Len(s))
            IN rest \in Seq(Nat) /\ Len(rest) = Len(s) - pos - k /\ Follows(rest, 0, o + k)
<1>1. Follows(s, pos + k, o + k)
  <2> SUFFICES ASSUME NEW i \in 1 .. (Len(s) - (pos + k)) PROVE s[pos + k + i] = o + k + i
    BY DEF Follows
  <2>1. PICK j \in 1 .. (Len(s) - pos) : j = k + i
    OBVIOUS
  <2>2. s[pos + j] = o + j
    BY DEF Follows
  <2>3. pos + j = pos + k + i /\ o + j = o + k + i
    BY <2>1
  <2> QED
    BY <2>2, <2>3
<1>2. PICK a \in Nat : a = pos + k + 1
  OBVIOUS
<1>3. /\ a >= 1 /\ a <= Len(s) + 1 /\ SubSeq(s, a, Len(s)) \in Seq(Nat)
      /\ Len(SubSeq(s, a, Len(s))) = Len(s) + 1 - a
      /\ \A i \in 1 .. (Len(s) + 1 - a) : SubSeq(s, a, Len(s))[i] = s[a + i - 1]
  BY <1>2
<1>4. Len(SubSeq(s, a, Len(s))) = Len(s) - pos - k
  BY <1>2, <1>3
<1>5. Follows(SubSeq(s, a, Len(s)), 0, o + k)
  <2> SUFFICES ASSUME NEW i \in 1 .. (Len(s) - pos - k) PROVE SubSeq(s, a, Len(s))[0 + i] = o + k + i
    BY <1>4 DEF Follows
  <2>1. s[pos + k + i] = o + k + i
    <3>1. i \in 1 .. (Len(s) - (pos + k))
      OBVIOUS
    <3>2. s[(pos + k) + i] = (o + k) + i
      BY <1>1, <3>1 DEF Follows
    <3> QED
      BY <3>2
  <2>2. i \in 1 .. (Len(s) + 1 - a) /\ a + i - 1 = pos + k + i /\ 0 + i = i
    BY <1>2
  <2> QED
    BY <1>3, <2>1, <2>2
<1> QED
  BY <1>1, <1>2, <1>3, <1>4, <1>5

LEMMA FollowsFirst ==
  ASSUME NEW s \in Seq(Nat), NEW o \in Nat, Follows(s, 0, o), NEW k \in Nat, k <= Len(s)
  PROVE  SubSeq(s, 1, k) \in Seq(Nat) /\ Len(SubSeq(s, 1, k)) = k /\ Follows(SubSeq(s, 1, k), 0, o)
<1>1. /\ SubSeq(s, 1, k) \in Seq(Nat) /\ Len(SubSeq(s, 1, k)) = k
      /\ \A i \in 1 .. k : SubSeq(s, 1, k)[i] = s[i]
  OBVIOUS
<1>2. ASSUME NEW i \in 1 .. k PROVE SubSeq(s, 1, k)[0 + i] = o + i
  <2>1. s[0 + i] = o + i /\ 0 + i = i
    BY <1>2 DEF Follows
  <2> QED
    BY <1>1, <2>1
<1> QED
  BY <1>1, <1>2 DEF Follows

LEMMA PortalKnown ==
  ASSUME NEW p, PortalOK(p)
  PROVE  /\ p.n \in Nat /\ p.at \in Nat /\ p.buf \in Seq(Nat) /\ p.pos \in Nat
         /\ p.req \in {"ok", "none", "refused"} /\ p.out \in Seq(Nat)
         /\ p.ended \in {TRUE, FALSE} /\ p.told \in {TRUE, FALSE}
         /\ Len(p.buf) \in Nat /\ Len(p.out) \in Nat
<1>1. /\ p.n \in Nat /\ p.at \in Nat /\ p.buf \in Seq(Nat) /\ p.pos \in Nat
      /\ p.req \in {"ok", "none", "refused"} /\ p.out \in Seq(Nat)
      /\ p.ended \in BOOLEAN /\ p.told \in BOOLEAN
  BY DEF PortalOK, AnyPortal
<1>2. p.ended \in {TRUE, FALSE} /\ p.told \in {TRUE, FALSE}
  BY <1>1, Zenon
<1>3. Len(p.buf) \in Nat /\ Len(p.out) \in Nat
  BY <1>1
<1> QED
  BY <1>1, <1>2, <1>3, Zenon

\* More rows of the server's at the end of buf.
Grown(p, k, rows, q) ==
  /\ PortalOK(p) /\ p.req = "ok" /\ k \in Nat /\ k <= p.n - p.at
  /\ rows \in Seq(Nat) /\ Len(rows) = k /\ \A i \in 1 .. k : rows[i] = p.at + i
  /\ q \in AnyPortal /\ q.n = p.n /\ q.at = p.at + k /\ q.buf = p.buf \o rows /\ q.pos = p.pos
  /\ q.out = p.out /\ q.ended = p.ended /\ q.told = p.told
  /\ q.req = "none" => k = p.n - p.at

LEMMA RowsAdded ==
  ASSUME NEW p, NEW k, NEW rows, NEW q, Grown(p, k, rows, q)
  PROVE  PortalOK(q) /\ Len(q.buf) = Len(p.buf) + k
<1>0. /\ PortalOK(p) /\ p.req = "ok" /\ k \in Nat /\ k <= p.n - p.at
      /\ rows \in Seq(Nat) /\ Len(rows) = k /\ \A i \in 1 .. k : rows[i] = p.at + i
      /\ q \in AnyPortal /\ q.n = p.n /\ q.at = p.at + k /\ q.buf = p.buf \o rows /\ q.pos = p.pos
      /\ q.out = p.out /\ q.ended = p.ended /\ q.told = p.told
      /\ q.req = "none" => k = p.n - p.at
  BY DEF Grown
<1> USE <1>0
<1>1. /\ p.told = FALSE /\ p.at <= p.n /\ p.pos <= Len(p.buf)
      /\ Follows(p.out, 0, 0) /\ Follows(p.buf, p.pos, Len(p.out))
      /\ Len(p.out) + Len(p.buf) - p.pos = p.at
      /\ p.ended = TRUE => Len(p.out) = p.n
  <2>1. p.told \in {TRUE, FALSE}
    BY PortalKnown
  <2>2. p.told = TRUE => p.req = "none"
    BY DEF PortalOK
  <2>3. p.told = FALSE
    BY <2>1, <2>2
  <2> QED
    BY <2>3 DEF PortalOK
<1>2. PICK n \in Nat, at \in Nat, pos \in Nat, a \in Nat, b \in Nat :
        n = p.n /\ at = p.at /\ pos = p.pos /\ a = Len(p.buf) /\ b = Len(p.out)
  BY PortalKnown
<1>3. b + a - pos = at /\ pos <= a /\ at <= n /\ k <= n - at
  BY <1>1, <1>2
<1>4. Follows(rows, 0, b + a - pos)
  <2>1. ASSUME NEW i \in 1 .. (k - 0) PROVE rows[0 + i] = b + a - pos + i
    <3>1. rows[i] = at + i /\ 0 + i = i
      BY <1>2
    <3> QED
      BY <1>3, <3>1
  <2> QED
    BY <2>1 DEF Follows
<1>5. Len(q.buf) = a + k /\ Follows(q.buf, pos, b)
  <2>1. PICK buf \in Seq(Nat) : buf = p.buf
    BY PortalKnown
  <2>2. Len(buf) = a /\ Follows(buf, pos, b) /\ q.buf = buf \o rows
    BY <1>1, <1>2, <2>1
  <2>3. Follows(rows, 0, b + Len(buf) - pos) /\ pos <= Len(buf)
    BY <1>3, <1>4, <2>2
  <2>4. Len(buf \o rows) = Len(buf) + Len(rows) /\ Follows(buf \o rows, pos, b)
    BY <2>2, <2>3, FollowsMore
  <2> QED
    BY <2>2, <2>4
<1>6. at + k <= n /\ b + (a + k) - pos = at + k /\ pos <= a + k
  BY <1>3
<1>7. q.req = "none" => at + k = n
  BY <1>2
<1>8. /\ q.n = n /\ q.at = at + k /\ q.pos = pos /\ Len(q.out) = b /\ q.told = FALSE
      /\ Follows(q.out, 0, 0) /\ (q.ended = TRUE => b = n)
  BY <1>1, <1>2
<1>9. PICK c \in Nat : c = a + k
  OBVIOUS
<1>10. Len(q.out) + Len(q.buf) - q.pos = q.at
  BY <1>5, <1>6, <1>8
<1>11. PortalOK(q)
  BY <1>5, <1>6, <1>7, <1>8, <1>10 DEF PortalOK
<1> QED
  BY <1>2, <1>5, <1>11

\* Rows given to the caller: the first k that are at hand.
Handed(p, k, rows, q) ==
  /\ PortalOK(p) /\ k \in Nat /\ k <= Len(p.buf) - p.pos
  /\ rows \in Seq(Nat) /\ Len(rows) = k /\ Follows(rows, 0, Len(p.out))
  /\ q \in AnyPortal /\ q.n = p.n /\ q.at = p.at /\ q.req = p.req /\ q.told = p.told /\ q.out = p.out \o rows
  /\ q.ended = TRUE => p.ended = TRUE \/ (k = Len(p.buf) - p.pos /\ p.req = "none")
  /\ q.pos <= Len(q.buf) /\ Len(q.buf) - q.pos = Len(p.buf) - p.pos - k
  /\ Follows(q.buf, q.pos, Len(p.out) + k)

LEMMA RowsGiven ==
  ASSUME NEW p, NEW k, NEW rows, NEW q, Handed(p, k, rows, q)
  PROVE  PortalOK(q)
<1>0. /\ PortalOK(p) /\ k \in Nat /\ k <= Len(p.buf) - p.pos
      /\ rows \in Seq(Nat) /\ Len(rows) = k /\ Follows(rows, 0, Len(p.out))
      /\ q \in AnyPortal /\ q.n = p.n /\ q.at = p.at /\ q.req = p.req /\ q.told = p.told /\ q.out = p.out \o rows
      /\ q.ended = TRUE => p.ended = TRUE \/ (k = Len(p.buf) - p.pos /\ p.req = "none")
      /\ q.pos <= Len(q.buf) /\ Len(q.buf) - q.pos = Len(p.buf) - p.pos - k
      /\ Follows(q.buf, q.pos, Len(p.out) + k)
  BY DEF Handed
<1> USE <1>0
<1>1. /\ p.at <= p.n /\ p.pos <= Len(p.buf) /\ Follows(p.out, 0, 0)
      /\ Len(p.out) + Len(p.buf) - p.pos <= p.at
      /\ p.told = FALSE => Len(p.out) + Len(p.buf) - p.pos = p.at
      /\ p.told = TRUE => p.req = "none"
      /\ p.req = "none" /\ p.told = FALSE => p.at = p.n
      /\ p.ended = TRUE /\ p.told = FALSE => Len(p.out) = p.n
  BY DEF PortalOK
<1>2. PICK n \in Nat, at \in Nat, pos \in Nat, a \in Nat, b \in Nat :
        n = p.n /\ at = p.at /\ pos = p.pos /\ a = Len(p.buf) /\ b = Len(p.out)
  BY PortalKnown
<1>3. PICK c \in Nat, d \in Nat : c = Len(q.buf) /\ d = q.pos
  BY DEF AnyPortal
<1>4. /\ k <= a - pos /\ at <= n /\ pos <= a /\ b + a - pos <= at /\ d <= c /\ c - d = a - pos - k
      /\ p.told = FALSE => b + a - pos = at
      /\ p.req = "none" /\ p.told = FALSE => at = n
      /\ p.ended = TRUE /\ p.told = FALSE => b = n
      /\ q.ended = TRUE => p.ended = TRUE \/ (k = a - pos /\ p.req = "none")
  BY <1>1, <1>2, <1>3
<1>5. Len(q.out) = b + k /\ Follows(q.out, 0, 0)
  <2>1. PICK out \in Seq(Nat) : out = p.out
    BY PortalKnown
  <2>2. Len(out) = b /\ Follows(out, 0, 0) /\ q.out = out \o rows /\ 0 <= Len(out) /\ 0 \in Nat
    BY <1>1, <1>2, <2>1
  <2>3. Follows(rows, 0, 0 + Len(out) - 0)
    BY <2>1, <2>2
  <2>4. Len(out \o rows) = Len(out) + Len(rows) /\ Follows(out \o rows, 0, 0)
    BY <2>2, <2>3, FollowsMore
  <2> QED
    BY <2>2, <2>4
<1>6. /\ (b + k) + c - d <= at
      /\ p.told = FALSE => (b + k) + c - d = at
      /\ q.ended = TRUE /\ p.told = FALSE => b + k = n
  BY <1>4
<1>7. Follows(q.buf, d, b + k)
  BY <1>2, <1>3
<1> QED
  BY <1>1, <1>2, <1>3, <1>4, <1>5, <1>6, <1>7 DEF PortalOK

Cut(p, q) ==
  /\ PortalOK(p) /\ q \in AnyPortal
  /\ q.n = p.n /\ q.at >= p.at /\ q.at <= p.n /\ q.buf = p.buf /\ q.pos = p.pos /\ q.out = p.out
  /\ q.told = TRUE /\ q.req = "none"
LEMMA ToldSound ==
  ASSUME NEW p, NEW q, Cut(p, q)
  PROVE  PortalOK(q)
<1>0. /\ PortalOK(p) /\ q \in AnyPortal
      /\ q.n = p.n /\ q.at >= p.at /\ q.at <= p.n /\ q.buf = p.buf /\ q.pos = p.pos /\ q.out = p.out
      /\ q.told = TRUE /\ q.req = "none"
  BY DEF Cut
<1> USE <1>0
<1>1. q.at \in Nat /\ p.at \in Nat /\ Len(p.out) \in Nat /\ Len(p.buf) \in Nat /\ p.pos \in Nat
  BY PortalKnown DEF AnyPortal
<1>2. Len(q.out) + Len(q.buf) - q.pos <= q.at
  <2>1. Len(p.out) + Len(p.buf) - p.pos <= p.at
    BY DEF PortalOK
  <2> QED
    BY <1>1, <2>1
<1> QED
  BY <1>2 DEF PortalOK

LEMMA Rounding ==
  ASSUME NEW a \in Nat, NEW c \in Nat \ {0}
  PROVE  (a + c - 1) \div c \in Nat /\ c * ((a + c - 1) \div c) >= a /\ c * ((a + c - 1) \div c) \in Nat
OBVIOUS

LEMMA RowsKnown ==
  ASSUME NEW p, p.at \in Nat, NEW k \in Nat
  PROVE  /\ Rows(p, k) \in Seq(Nat) /\ Len(Rows(p, k)) = k
         /\ \A i \in 1 .. k : Rows(p, k)[i] = p.at + i
BY DEF Rows

\* A request that is asked for is served or refused.
LEMMA AskedKnown == ASSUME NEW p PROVE Asked(p) \in {"ok", "refused"}
BY DEF Asked

\* Filled: the rows at hand are at least as many as asked, or no request is served.
LEMMA FilledSound ==
  ASSUME NEW p, PortalOK(p), NEW amount \in Nat, NEW q, q = Filled(p, amount)
  PROVE  /\ PortalOK(q) /\ q.out = p.out /\ q.pos = p.pos /\ q.ended = p.ended /\ q.n = p.n /\ q.told = p.told
         /\ Len(q.buf) - q.pos >= amount \/ q.req # "ok"
<1>1. p \in AnyPortal /\ p.at <= p.n /\ p.pos <= Len(p.buf)
  BY DEF PortalOK
<1>2. PICK n \in Nat, at \in Nat, pos \in Nat, a \in Nat :
        n = p.n /\ at = p.at /\ pos = p.pos /\ a = Len(p.buf)
  BY PortalKnown
<1>3. PICK asked \in {"ok", "refused"} : asked = Asked(p)
  BY AskedKnown
<1>4. PICK short \in Int : short = amount - (a - pos)
  OBVIOUS
<1>5. CASE short <= 0 \/ p.req # "ok"
  <2>1. q = p
    BY <1>2, <1>4, <1>5 DEF Filled
  <2>2. a - pos >= amount \/ p.req # "ok"
    BY <1>4, <1>5
  <2> QED
    BY <1>2, <2>1, <2>2
<1>6. CASE short > 0 /\ p.req = "ok"
  <2>1. PICK c \in Nat \ {0} : c = DbChunk
    BY DbBounds
  <2>2. c * ((short + c - 1) \div c) >= short /\ c * ((short + c - 1) \div c) \in Nat
    <3>1. short \in Nat
      BY <1>6
    <3> QED
      BY <3>1, Rounding
  <2>3. PICK wanted \in Nat :
          /\ wanted = IF asked = "ok" THEN c * ((short + c - 1) \div c) ELSE c
          /\ asked = "ok" => wanted >= short
    BY <2>2
  <2>4. PICK taken \in Nat : taken = IF wanted < n - at THEN wanted ELSE n - at
    <3>1. n - at \in Nat
      BY <1>1, <1>2
    <3> QED
      BY <3>1
  <2>5. PICK next \in {"ok", "none", "refused"} : next = IF taken = wanted THEN asked ELSE "none"
    OBVIOUS
  <2>6. q = [p EXCEPT !.at = p.at + taken, !.buf = p.buf \o Rows(p, taken), !.req = next]
    BY <1>2, <1>3, <1>4, <1>6, <2>1, <2>3, <2>4, <2>5 DEF Filled
  <2>7. PICK rows \in Seq(Nat) :
          rows = Rows(p, taken) /\ Len(rows) = taken /\ \A i \in 1 .. taken : rows[i] = p.at + i
    BY <1>2, RowsKnown
  <2>8. PICK buf \in Seq(Nat) : buf = p.buf \o rows
    <3>1. p.buf \in Seq(Nat)
      BY PortalKnown
    <3>2. p.buf \o rows \in Seq(Nat)
      BY <3>1
    <3> QED
      BY <3>2
  <2>9. PICK m \in Nat : m = at + taken
    OBVIOUS
  <2>10. q = [ n |-> p.n, at |-> m, buf |-> buf, pos |-> p.pos, inside |-> p.inside, gone |-> p.gone,
               req |-> next, out |-> p.out, ended |-> p.ended, told |-> p.told ]
    BY <1>1, <1>2, <2>6, <2>7, <2>8, <2>9 DEF AnyPortal
  <2>11. /\ q \in AnyPortal
         /\ q.n = p.n /\ q.at = m /\ q.buf = buf /\ q.pos = pos /\ q.out = p.out
         /\ q.ended = p.ended /\ q.told = p.told /\ q.req = next
    <3>1. q \in AnyPortal
      BY <1>1, <2>10 DEF AnyPortal
    <3>2. q.n = p.n /\ q.at = m /\ q.buf = buf /\ q.pos = p.pos /\ q.out = p.out
         /\ q.ended = p.ended /\ q.told = p.told /\ q.req = next
      BY <2>10
    <3> QED
      BY <1>2, <3>1, <3>2
  <2>12. PortalOK(q) /\ Len(q.buf) = a + taken
    <3>1. taken <= p.n - p.at /\ q.at = p.at + taken
      BY <1>1, <1>2, <2>4, <2>9, <2>11
    <3>2. next = "none" => taken = p.n - p.at
      BY <1>1, <1>2, <1>3, <2>4, <2>5
    <3>3. PortalOK(q) /\ Len(q.buf) = Len(p.buf) + taken
      <4>1. Grown(p, taken, rows, q)
        BY <1>2, <1>6, <2>7, <2>8, <2>11, <3>1, <3>2 DEF Grown
      <4> QED
        BY <4>1, RowsAdded
    <3> QED
      BY <1>2, <3>3
  <2>13. next = "ok" => a + taken - pos >= amount
    BY <1>4, <2>3, <2>4, <2>5
  <2> QED
    BY <1>2, <2>11, <2>12, <2>13
<1> QED
  BY <1>5, <1>6

LEMMA OnceSound == ASSUME NEW p, PortalOK(p) PROVE PortalOK(RefusedOnce(p))
<1>1. p \in AnyPortal /\ p.at <= p.n /\ p.at \in Nat
  BY PortalKnown DEF PortalOK
<1>2. PICK q : q = RefusedOnce(p)
  OBVIOUS
<1>3. q = [ n |-> p.n, at |-> p.at, buf |-> p.buf, pos |-> p.pos, inside |-> p.inside, gone |-> p.gone,
            req |-> "none", out |-> p.out, ended |-> p.ended, told |-> TRUE ]
  BY <1>1, <1>2 DEF RefusedOnce, AnyPortal
<1>4. q \in AnyPortal
  BY <1>1, <1>3 DEF AnyPortal
<1>5. Cut(p, q)
  BY <1>1, <1>3, <1>4 DEF Cut
<1> QED
  BY <1>2, <1>5, ToldSound

\* The next chunk, once buf is used up.
LEMMA PulledSound ==
  ASSUME NEW p, PortalOK(p), p.req = "ok", p.pos >= Len(p.buf)
  PROVE  LET q == [Pulled(p) EXCEPT !.buf = ChunkOf(p), !.pos = 0]
         IN PortalOK(q) /\ (q.pos < Len(q.buf) \/ q.req = "none")
<1>0. PICK q : q = [Pulled(p) EXCEPT !.buf = ChunkOf(p), !.pos = 0]
  OBVIOUS
<1>1. p \in AnyPortal /\ p.at <= p.n /\ p.pos <= Len(p.buf)
  BY DEF PortalOK
<1>2. PICK n \in Nat, at \in Nat, c \in Nat \ {0} : n = p.n /\ at = p.at /\ c = DbChunk
  BY PortalKnown, DbBounds
<1>3. PICK k \in Nat : k = IF n - at < c THEN n - at ELSE c
  BY <1>1, <1>2
<1>4. PICK asked \in {"ok", "refused"} : asked = Asked(p)
  BY AskedKnown
<1>5. PICK rows \in Seq(Nat) :
        rows = ChunkOf(p) /\ Len(rows) = k /\ \A i \in 1 .. k : rows[i] = p.at + i
  <2>1. ChunkOf(p) = Rows(p, k)
    BY <1>2, <1>3 DEF ChunkOf
  <2>2. Rows(p, k) \in Seq(Nat) /\ Len(Rows(p, k)) = k /\ \A i \in 1 .. k : Rows(p, k)[i] = p.at + i
    BY <1>2, RowsKnown
  <2> QED
    BY <2>1, <2>2
<1>6. PICK next \in {"ok", "none", "refused"} : next = IF k = c THEN asked ELSE "none"
  OBVIOUS
<1>7. PICK m \in Nat : m = at + k
  OBVIOUS
<1>8. q = [ n |-> p.n, at |-> m, buf |-> rows, pos |-> 0, inside |-> p.inside, gone |-> p.gone,
            req |-> next, out |-> p.out, ended |-> p.ended, told |-> p.told ]
  BY <1>0, <1>1, <1>2, <1>4, <1>5, <1>6, <1>7 DEF Pulled, AnyPortal
<1>9. q \in AnyPortal
  BY <1>1, <1>8 DEF AnyPortal
<1>10. /\ p.told = FALSE /\ Follows(p.out, 0, 0) /\ Len(p.out) = at /\ (p.ended = TRUE => at = n)
  <2>1. p.told \in {TRUE, FALSE} /\ Len(p.buf) \in Nat /\ p.pos \in Nat /\ Len(p.out) \in Nat
    BY PortalKnown
  <2>2. p.told = TRUE => p.req = "none"
    BY DEF PortalOK
  <2>3. p.told = FALSE
    BY <2>1, <2>2
  <2>4. Len(p.out) + Len(p.buf) - p.pos = p.at
    BY <2>3 DEF PortalOK
  <2>5. Len(p.out) = at
    BY <1>1, <1>2, <2>1, <2>4
  <2> QED
    BY <1>2, <2>3, <2>5 DEF PortalOK
<1>11. Follows(rows, 0, at)
  <2>1. ASSUME NEW i \in 1 .. (k - 0) PROVE rows[0 + i] = at + i
    BY <1>2, <1>5
  <2> QED
    BY <1>5, <2>1 DEF Follows
<1>12. at + k <= n /\ (next = "none" => at + k = n) /\ (0 < k \/ next = "none")
  BY <1>1, <1>2, <1>3, <1>4, <1>6
<1>13. /\ q.n = n /\ q.at = at + k /\ Len(q.buf) = k /\ q.pos = 0 /\ q.req = next
       /\ Len(q.out) = at /\ q.told = FALSE
       /\ Follows(q.out, 0, 0) /\ Follows(q.buf, 0, at)
       /\ q.ended = TRUE => at = n
  <2>1. /\ q.n = n /\ q.at = at + k /\ q.buf = rows /\ q.pos = 0 /\ q.req = next
        /\ q.out = p.out /\ q.told = p.told /\ q.ended = p.ended
    <3>1. /\ q.n = p.n /\ q.at = m /\ q.buf = rows /\ q.pos = 0 /\ q.req = next
          /\ q.out = p.out /\ q.told = p.told /\ q.ended = p.ended
      BY <1>8
    <3> QED
      BY <1>2, <1>7, <3>1
  <2> QED
    BY <1>5, <1>10, <1>11, <2>1
<1>14. at + k - 0 = at + k /\ 0 <= k
  OBVIOUS
<1> QED
  <2>1. q.at <= q.n /\ q.pos <= Len(q.buf) /\ Len(q.out) + Len(q.buf) - q.pos = q.at
    BY <1>12, <1>13, <1>14
  <2>2. Follows(q.out, 0, 0) /\ Follows(q.buf, q.pos, Len(q.out))
    BY <1>13
  <2>3. (q.req = "none" => q.at = q.n) /\ (q.ended = TRUE => Len(q.out) = q.n)
    BY <1>12, <1>13
  <2>4. PortalOK(q)
    <3>1. Len(q.out) + Len(q.buf) - q.pos <= q.at
      BY <1>12, <1>13, <1>14
    <3>2. q.told # TRUE
      BY <1>13
    <3> QED
      BY <1>9, <2>1, <2>2, <2>3, <3>1, <3>2 DEF PortalOK
  <2>5. q.pos < Len(q.buf) \/ q.req = "none"
    BY <1>12, <1>13
  <2> QED
    BY <1>0, <2>4, <2>5

\* One row, the first at hand.
LEMMA OneGiven ==
  ASSUME NEW p, PortalOK(p), p.pos < Len(p.buf)
  PROVE  PortalOK(Delivered([p EXCEPT !.pos = @ + 1], <<p.buf[p.pos + 1]>>, FALSE))
<1>0. PICK q : q = Delivered([p EXCEPT !.pos = @ + 1], <<p.buf[p.pos + 1]>>, FALSE)
  OBVIOUS
<1>1. p \in AnyPortal /\ p.pos <= Len(p.buf) /\ Follows(p.buf, p.pos, Len(p.out))
  BY DEF PortalOK
<1>2. PICK a \in Nat, b \in Nat, pos \in Nat, buf \in Seq(Nat) :
        a = Len(buf) /\ b = Len(p.out) /\ pos = p.pos /\ buf = p.buf
  BY PortalKnown
<1>3. pos < a
  BY <1>2
<1>4. PICK rows \in Seq(Nat) : rows = <<buf[pos + 1]>>
  <2>1. PICK x \in Nat : x = buf[pos + 1]
    BY <1>2, <1>3
  <2>2. <<x>> \in Seq(Nat)
    OBVIOUS
  <2> QED
    BY <2>1, <2>2
<1>5. Len(rows) = 1 /\ Follows(rows, 0, b)
  <2>1. buf[pos + 1] = b + 1
    BY <1>1, <1>2, <1>3 DEF Follows
  <2>2. Len(rows) = 1 /\ rows[1] = b + 1
    BY <1>4, <2>1
  <2>3. ASSUME NEW i \in 1 .. (1 - 0) PROVE rows[0 + i] = b + i
    <3>1. i = 1
      OBVIOUS
    <3> QED
      BY <2>2, <3>1
  <2> QED
    BY <2>2, <2>3 DEF Follows
<1>6. PICK out \in Seq(Nat) : out = p.out \o rows
  <2>1. p.out \in Seq(Nat)
    BY PortalKnown
  <2>2. p.out \o rows \in Seq(Nat)
    BY <2>1
  <2> QED
    BY <2>2
<1>7. PICK m \in Nat : m = pos + 1
  OBVIOUS
<1>8. q = [ n |-> p.n, at |-> p.at, buf |-> buf, pos |-> m, inside |-> p.inside, gone |-> p.gone,
            req |-> p.req, out |-> out, ended |-> (p.ended \/ FALSE), told |-> p.told ]
  BY <1>0, <1>1, <1>2, <1>4, <1>6, <1>7 DEF Delivered, AnyPortal
<1>9. (p.ended \/ FALSE) = p.ended
  <2>1. p.ended \in BOOLEAN
    BY <1>1 DEF AnyPortal
  <2> QED
    BY <2>1, Zenon
<1>10. q = [ n |-> p.n, at |-> p.at, buf |-> buf, pos |-> m, inside |-> p.inside, gone |-> p.gone,
             req |-> p.req, out |-> out, ended |-> p.ended, told |-> p.told ]
  BY <1>8, <1>9, Zenon
<1>11. q \in AnyPortal
  BY <1>1, <1>10 DEF AnyPortal
<1>12. /\ q.n = p.n /\ q.at = p.at /\ q.buf = buf /\ q.pos = m /\ q.req = p.req
       /\ q.out = out /\ q.told = p.told /\ q.ended = p.ended
  BY <1>10
<1>13. Follows(buf, m, b + 1)
  <2>1. Follows(buf, pos + 1, b + 1)
    <3>1. Follows(buf, pos, b) /\ pos <= Len(buf) /\ 1 \in Nat /\ 1 <= Len(buf) - pos
      BY <1>1, <1>2, <1>3
    <3> QED
      BY <3>1, FollowsPart
  <2> QED
    BY <1>7, <2>1
<1>14. Handed(p, 1, rows, q)
  <2>1. 1 \in Nat /\ 1 <= Len(p.buf) - p.pos
    BY <1>2, <1>3
  <2>2. q.pos <= Len(q.buf) /\ Len(q.buf) - q.pos = Len(p.buf) - p.pos - 1
    <3>1. m <= a /\ a - m = a - pos - 1
      BY <1>3, <1>7
    <3> QED
      BY <1>2, <1>12, <3>1
  <2>3. Follows(q.buf, q.pos, Len(p.out) + 1)
    BY <1>2, <1>12, <1>13
  <2> QED
    BY <1>2, <1>5, <1>6, <1>11, <1>12, <2>1, <2>2, <2>3 DEF Handed
<1> QED
  BY <1>0, <1>14, RowsGiven

\* The end: nothing is at hand and nothing will come.
LEMMA NoneGiven ==
  ASSUME NEW p, PortalOK(p), p.pos >= Len(p.buf), p.req = "none"
  PROVE  PortalOK(Delivered(p, <<>>, TRUE))
<1>0. PICK q : q = Delivered(p, <<>>, TRUE)
  OBVIOUS
<1>1. p \in AnyPortal /\ p.pos <= Len(p.buf) /\ Follows(p.buf, p.pos, Len(p.out))
  BY DEF PortalOK
<1>2. PICK a \in Nat, b \in Nat, pos \in Nat, out \in Seq(Nat) :
        a = Len(p.buf) /\ b = Len(out) /\ pos = p.pos /\ out = p.out
  BY PortalKnown
<1>3. pos = a
  BY <1>1, <1>2
<1>4. <<>> \in Seq(Nat) /\ Len(<<>>) = 0 /\ Follows(<<>>, 0, b)
  BY DEF Follows
<1>5. (p.ended \/ TRUE) = TRUE
  OBVIOUS
<1>6. q = [ n |-> p.n, at |-> p.at, buf |-> p.buf, pos |-> p.pos, inside |-> p.inside, gone |-> p.gone,
            req |-> p.req, out |-> p.out \o <<>>, ended |-> TRUE, told |-> p.told ]
  BY <1>0, <1>1, <1>5 DEF Delivered, AnyPortal
<1>7. p.out \o <<>> \in Seq(Nat)
  <2>1. p.out \in Seq(Nat)
    BY PortalKnown
  <2> QED
    BY <1>4, <2>1
<1>8. q \in AnyPortal
  BY <1>1, <1>6, <1>7 DEF AnyPortal
<1>9. /\ q.n = p.n /\ q.at = p.at /\ q.buf = p.buf /\ q.pos = p.pos /\ q.req = p.req
      /\ q.out = p.out \o <<>> /\ q.told = p.told
  BY <1>6
<1>10. Handed(p, 0, <<>>, q)
  <2>1. 0 \in Nat /\ 0 <= Len(p.buf) - p.pos /\ 0 = Len(p.buf) - p.pos
    BY <1>2, <1>3
  <2>2. q.pos <= Len(q.buf) /\ Len(q.buf) - q.pos = Len(p.buf) - p.pos - 0
    <3>1. pos <= a /\ a - pos = a - pos - 0
      BY <1>3
    <3> QED
      BY <1>2, <1>9, <3>1
  <2>3. b + 0 = b
    OBVIOUS
  <2>4. Follows(q.buf, q.pos, Len(p.out) + 0)
    BY <1>1, <1>2, <1>9, <2>3
  <2> QED
    BY <1>2, <1>4, <1>8, <1>9, <2>1, <2>2, <2>4 DEF Handed
<1> QED
  BY <1>0, <1>10, RowsGiven

LEMMA NextSound == ASSUME NEW p, PortalOK(p) PROVE PortalOK(Next1(p).p)
<1>1. PICK q : q = IF p.pos < Len(p.buf) \/ p.req # "ok" THEN p
                   ELSE [Pulled(p) EXCEPT !.buf = ChunkOf(p), !.pos = 0]
  OBVIOUS
<1>2. p.pos \in Nat /\ Len(p.buf) \in Nat /\ p.req \in {"ok", "none", "refused"}
  BY PortalKnown
<1>3. PortalOK(q) /\ (q.pos < Len(q.buf) \/ q.req # "ok")
  <2>1. CASE p.pos < Len(p.buf) \/ p.req # "ok"
    BY <1>1, <2>1
  <2>2. CASE ~(p.pos < Len(p.buf) \/ p.req # "ok")
    <3>1. p.pos >= Len(p.buf) /\ p.req = "ok"
      BY <1>2, <2>2
    <3>2. q = [Pulled(p) EXCEPT !.buf = ChunkOf(p), !.pos = 0]
      BY <1>1, <2>2
    <3>3. PortalOK(q) /\ (q.pos < Len(q.buf) \/ q.req = "none")
      BY <3>1, <3>2, PulledSound
    <3> QED
      BY <3>3
  <2> QED
    BY <2>1, <2>2
<1>4. q.pos \in Nat /\ Len(q.buf) \in Nat /\ q.req \in {"ok", "none", "refused"}
  BY <1>3, PortalKnown
<1>5. Next1(p) = IF q.pos < Len(q.buf)
                 THEN [p |-> Delivered([q EXCEPT !.pos = @ + 1], <<q.buf[q.pos + 1]>>, FALSE), raised |-> FALSE]
                 ELSE IF q.req = "refused" THEN [p |-> RefusedOnce(q), raised |-> TRUE]
                 ELSE [p |-> Delivered(q, <<>>, TRUE), raised |-> FALSE]
  BY <1>1 DEF Next1
<1>6. CASE q.pos < Len(q.buf)
  <2>1. Next1(p).p = Delivered([q EXCEPT !.pos = @ + 1], <<q.buf[q.pos + 1]>>, FALSE)
    BY <1>5, <1>6
  <2>2. PortalOK(Delivered([q EXCEPT !.pos = @ + 1], <<q.buf[q.pos + 1]>>, FALSE))
    BY <1>3, <1>6, OneGiven
  <2> QED
    BY <2>1, <2>2
<1>7. CASE q.pos >= Len(q.buf) /\ q.req = "refused"
  <2>1. ~(q.pos < Len(q.buf))
    BY <1>4, <1>7
  <2> QED
    BY <1>3, <1>5, <1>7, <2>1, OnceSound
<1>8. CASE q.pos >= Len(q.buf) /\ q.req = "none"
  <2>1. ~(q.pos < Len(q.buf))
    BY <1>4, <1>8
  <2> QED
    <3>1. Next1(p).p = Delivered(q, <<>>, TRUE)
      BY <1>5, <1>8, <2>1
    <3>2. PortalOK(Delivered(q, <<>>, TRUE))
      BY <1>3, <1>8, NoneGiven
    <3> QED
      BY <3>1, <3>2
<1> QED
  BY <1>3, <1>4, <1>6, <1>7, <1>8

\* k rows, the first at hand, and the others kept.
LEMMA ManyGiven ==
  ASSUME NEW p, PortalOK(p), NEW k \in Nat, k <= Len(p.buf) - p.pos, NEW last \in {TRUE, FALSE},
         last = TRUE => k = Len(p.buf) - p.pos /\ p.req = "none"
  PROVE  PortalOK(Delivered([p EXCEPT !.buf = SubSeq(@, p.pos + k + 1, Len(@)), !.pos = 0],
                            SubSeq(From(p), 1, k), last))
<1>0. PICK q : q = Delivered([p EXCEPT !.buf = SubSeq(@, p.pos + k + 1, Len(@)), !.pos = 0],
                             SubSeq(From(p), 1, k), last)
  OBVIOUS
<1>1. p \in AnyPortal /\ p.pos <= Len(p.buf) /\ Follows(p.buf, p.pos, Len(p.out))
  BY DEF PortalOK
<1>2. PICK a \in Nat, b \in Nat, pos \in Nat, buf \in Seq(Nat) :
        a = Len(buf) /\ b = Len(p.out) /\ pos = p.pos /\ buf = p.buf
  BY PortalKnown
<1>3. pos <= a /\ k <= a - pos /\ Follows(buf, pos, b) /\ pos <= Len(buf) /\ k <= Len(buf) - pos
  BY <1>1, <1>2
<1>4. PICK hand \in Seq(Nat) : hand = From(p) /\ Len(hand) = a - pos /\ Follows(hand, 0, b)
  <2>1. /\ SubSeq(buf, pos + 0 + 1, Len(buf)) \in Seq(Nat)
        /\ Len(SubSeq(buf, pos + 0 + 1, Len(buf))) = Len(buf) - pos - 0
        /\ Follows(SubSeq(buf, pos + 0 + 1, Len(buf)), 0, b + 0)
    <3>1. 0 \in Nat /\ 0 <= Len(buf) - pos
      BY <1>3
    <3> QED
      BY <1>3, <3>1, FollowsPart
  <2>2. pos + 0 + 1 = pos + 1 /\ b + 0 = b /\ a - pos - 0 = a - pos
    OBVIOUS
  <2>3. From(p) = SubSeq(buf, pos + 1, Len(buf))
    BY <1>2 DEF From
  <2> QED
    BY <1>2, <2>1, <2>2, <2>3
<1>5. PICK rows \in Seq(Nat) : rows = SubSeq(From(p), 1, k) /\ Len(rows) = k /\ Follows(rows, 0, b)
  <2>1. k <= Len(hand) /\ Follows(hand, 0, b)
    BY <1>3, <1>4
  <2>2. SubSeq(hand, 1, k) \in Seq(Nat) /\ Len(SubSeq(hand, 1, k)) = k /\ Follows(SubSeq(hand, 1, k), 0, b)
    BY <2>1, FollowsFirst
  <2> QED
    BY <1>4, <2>2
<1>6. PICK rest \in Seq(Nat) : /\ rest = SubSeq(buf, pos + k + 1, Len(buf))
                              /\ Len(rest) = a - pos - k /\ Follows(rest, 0, b + k)
  <2>1. /\ SubSeq(buf, pos + k + 1, Len(buf)) \in Seq(Nat)
        /\ Len(SubSeq(buf, pos + k + 1, Len(buf))) = Len(buf) - pos - k
        /\ Follows(SubSeq(buf, pos + k + 1, Len(buf)), 0, b + k)
    BY <1>3, FollowsPart
  <2> QED
    BY <1>2, <2>1
<1>7. PICK out \in Seq(Nat) : out = p.out \o rows
  <2>1. p.out \in Seq(Nat)
    BY PortalKnown
  <2>2. p.out \o rows \in Seq(Nat)
    BY <2>1
  <2> QED
    BY <2>2
<1>8. q = [ n |-> p.n, at |-> p.at, buf |-> rest, pos |-> 0, inside |-> p.inside, gone |-> p.gone,
            req |-> p.req, out |-> out, ended |-> (p.ended \/ last), told |-> p.told ]
  BY <1>0, <1>1, <1>2, <1>5, <1>6, <1>7 DEF Delivered, AnyPortal
<1>9. PICK ended \in {TRUE, FALSE} : ended = (p.ended \/ last)
  OBVIOUS
<1>10. ended = TRUE => p.ended = TRUE \/ last = TRUE
  <2>1. p.ended \in {TRUE, FALSE}
    BY PortalKnown
  <2> QED
    BY <1>9, <2>1, Zenon
<1>11. q = [ n |-> p.n, at |-> p.at, buf |-> rest, pos |-> 0, inside |-> p.inside, gone |-> p.gone,
             req |-> p.req, out |-> out, ended |-> ended, told |-> p.told ]
  BY <1>8, <1>9, Zenon
<1>12. q \in AnyPortal
  <2>1. ended \in BOOLEAN
    BY Zenon
  <2> QED
    BY <1>1, <1>11, <2>1 DEF AnyPortal
<1>13. /\ q.n = p.n /\ q.at = p.at /\ q.buf = rest /\ q.pos = 0 /\ q.req = p.req
       /\ q.out = out /\ q.told = p.told /\ q.ended = ended
  BY <1>11
<1>14. Handed(p, k, rows, q)
  <2>1. q.ended = TRUE => p.ended = TRUE \/ (k = Len(p.buf) - p.pos /\ p.req = "none")
    BY <1>10, <1>13
  <2>2. q.pos <= Len(q.buf) /\ Len(q.buf) - q.pos = Len(p.buf) - p.pos - k
    <3>1. 0 <= a - pos - k /\ (a - pos - k) - 0 = a - pos - k
      BY <1>3
    <3> QED
      BY <1>2, <1>6, <1>13, <3>1
  <2>3. Follows(q.buf, q.pos, Len(p.out) + k)
    BY <1>2, <1>6, <1>13
  <2> QED
    BY <1>2, <1>5, <1>7, <1>12, <1>13, <2>1, <2>2, <2>3 DEF Handed
<1> QED
  BY <1>0, <1>14, RowsGiven

LEMMA ReadSound ==
  ASSUME NEW p, PortalOK(p), NEW amount \in Nat
  PROVE  PortalOK(ReadRows(p, amount).p)
<1>1. PICK q : q = Filled(p, amount)
  OBVIOUS
<1>2. PortalOK(q) /\ (Len(q.buf) - q.pos >= amount \/ q.req # "ok")
  BY <1>1, FilledSound
<1>3. PICK a \in Nat, pos \in Nat, buf \in Seq(Nat) : a = Len(buf) /\ buf = q.buf /\ pos = q.pos
  BY <1>2, PortalKnown
<1>4. pos <= a
  BY <1>2, <1>3 DEF PortalOK
<1>5. Len(From(q)) = a - pos
  <2>1. From(q) = SubSeq(buf, pos + 1, Len(buf))
    BY <1>3 DEF From
  <2>2. Len(SubSeq(buf, pos + 1, Len(buf))) = Len(buf) - pos
    BY <1>3, <1>4
  <2> QED
    BY <1>3, <2>1, <2>2
<1>6. PICK k \in Nat : k = IF Len(From(q)) < amount THEN Len(From(q)) ELSE amount
  <2>1. Len(From(q)) \in Nat
    BY <1>4, <1>5
  <2> QED
    BY <2>1
<1>7. k <= a - pos /\ (k < amount => k = a - pos /\ q.req # "ok")
  BY <1>2, <1>3, <1>4, <1>5, <1>6
<1>8. PICK last \in {TRUE, FALSE} : last = (k < amount)
  <2>1. (k < amount) = TRUE \/ (k < amount) = FALSE
    OBVIOUS
  <2> QED
    BY <2>1, Zenon
<1>9. CASE k < amount /\ q.req = "refused"
  <2>1. ReadRows(p, amount) = [p |-> RefusedOnce(q), raised |-> TRUE]
    BY <1>1, <1>6, <1>9 DEF ReadRows
  <2> QED
    BY <1>2, <2>1, OnceSound
<1>10. CASE ~(k < amount /\ q.req = "refused")
  <2>1. ReadRows(p, amount).p =
          Delivered([q EXCEPT !.buf = SubSeq(@, q.pos + k + 1, Len(@)), !.pos = 0],
                    SubSeq(From(q), 1, k), last)
    BY <1>1, <1>6, <1>8, <1>10 DEF ReadRows
  <2>2. last = TRUE => k = Len(q.buf) - q.pos /\ q.req = "none"
    <3>1. q.req \in {"ok", "none", "refused"}
      BY <1>2, PortalKnown
    <3>2. last = TRUE => k < amount
      BY <1>8
    <3> QED
      BY <1>3, <1>7, <1>10, <3>1, <3>2
  <2>3. k <= Len(q.buf) - q.pos
    BY <1>3, <1>7
  <2>4. PortalOK(Delivered([q EXCEPT !.buf = SubSeq(@, q.pos + k + 1, Len(@)), !.pos = 0],
                           SubSeq(From(q), 1, k), last))
    BY <1>2, <2>2, <2>3, ManyGiven
  <2> QED
    BY <2>1, <2>4
<1> QED
  BY <1>9, <1>10

LEMMA TrimmedSound == ASSUME NEW p, PortalOK(p) PROVE PortalOK(Trimmed(p)) /\ Trimmed(p).n = p.n
<1>0. PICK q : q = Trimmed(p)
  OBVIOUS
<1>1. /\ p \in AnyPortal /\ p.at <= p.n /\ p.pos <= Len(p.buf) /\ Follows(p.buf, p.pos, Len(p.out))
      /\ Follows(p.out, 0, 0)
      /\ Len(p.out) + Len(p.buf) - p.pos <= p.at
      /\ p.told = FALSE => Len(p.out) + Len(p.buf) - p.pos = p.at
      /\ p.told = TRUE => p.req = "none"
      /\ p.req = "none" /\ p.told = FALSE => p.at = p.n
      /\ p.ended = TRUE /\ p.told = FALSE => Len(p.out) = p.n
  BY DEF PortalOK
<1>2. PICK a \in Nat, b \in Nat, pos \in Nat, buf \in Seq(Nat) :
        a = Len(buf) /\ b = Len(p.out) /\ pos = p.pos /\ buf = p.buf
  BY PortalKnown
<1>3. pos <= a /\ Follows(buf, pos, b) /\ pos <= Len(buf)
  BY <1>1, <1>2
<1>4. PICK rest \in Seq(Nat) : rest = From(p) /\ Len(rest) = a - pos /\ Follows(rest, 0, b)
  <2>1. /\ SubSeq(buf, pos + 0 + 1, Len(buf)) \in Seq(Nat)
        /\ Len(SubSeq(buf, pos + 0 + 1, Len(buf))) = Len(buf) - pos - 0
        /\ Follows(SubSeq(buf, pos + 0 + 1, Len(buf)), 0, b + 0)
    <3>1. 0 \in Nat /\ 0 <= Len(buf) - pos
      BY <1>3
    <3> QED
      BY <1>3, <3>1, FollowsPart
  <2>2. pos + 0 + 1 = pos + 1 /\ b + 0 = b /\ a - pos - 0 = a - pos
    OBVIOUS
  <2>3. From(p) = SubSeq(buf, pos + 1, Len(buf))
    BY <1>2 DEF From
  <2> QED
    BY <1>2, <2>1, <2>2, <2>3
<1>5. q = [ n |-> p.n, at |-> p.at, buf |-> rest, pos |-> 0, inside |-> p.inside, gone |-> p.gone,
            req |-> p.req, out |-> p.out, ended |-> p.ended, told |-> p.told ]
  BY <1>0, <1>1, <1>4 DEF Trimmed, AnyPortal
<1>6. q \in AnyPortal
  BY <1>1, <1>5 DEF AnyPortal
<1>7. /\ q.n = p.n /\ q.at = p.at /\ q.buf = rest /\ q.pos = 0 /\ q.req = p.req
      /\ q.out = p.out /\ q.told = p.told /\ q.ended = p.ended
  BY <1>5
<1>8. PICK at \in Nat : at = p.at
  BY PortalKnown
<1>9. /\ b + a - pos <= at /\ (p.told = FALSE => b + a - pos = at)
  BY <1>1, <1>2, <1>8
<1>10. /\ Len(q.out) + Len(q.buf) - q.pos <= q.at
       /\ q.told = FALSE => Len(q.out) + Len(q.buf) - q.pos = q.at
       /\ q.pos <= Len(q.buf)
  <2>1. b + (a - pos) - 0 = b + a - pos /\ 0 <= a - pos
    BY <1>3
  <2> QED
    BY <1>2, <1>4, <1>7, <1>8, <1>9, <2>1
<1>11. Follows(q.buf, q.pos, Len(q.out)) /\ Follows(q.out, 0, 0)
  BY <1>1, <1>2, <1>4, <1>7
<1>12. PortalOK(q)
  BY <1>1, <1>6, <1>7, <1>10, <1>11 DEF PortalOK
<1> QED
  BY <1>0, <1>7, <1>12

\* All that is at hand.
LEMMA AllGiven ==
  ASSUME NEW p, PortalOK(p), p.pos = 0, p.req = "none"
  PROVE  PortalOK(Delivered([p EXCEPT !.buf = <<>>], p.buf, TRUE))
<1>0. PICK q : q = Delivered([p EXCEPT !.buf = <<>>], p.buf, TRUE)
  OBVIOUS
<1>1. p \in AnyPortal /\ Follows(p.buf, 0, Len(p.out))
  BY DEF PortalOK
<1>2. PICK a \in Nat, b \in Nat, buf \in Seq(Nat) : a = Len(buf) /\ b = Len(p.out) /\ buf = p.buf
  BY PortalKnown
<1>3. PICK out \in Seq(Nat) : out = p.out \o buf
  <2>1. p.out \in Seq(Nat)
    BY PortalKnown
  <2>2. p.out \o buf \in Seq(Nat)
    BY <2>1
  <2> QED
    BY <2>2
<1>4. PICK none \in Seq(Nat) : none = <<>> /\ Len(none) = 0
  <2>1. <<>> \in Seq(Nat) /\ Len(<<>>) = 0
    OBVIOUS
  <2> QED
    BY <2>1
<1>5. (p.ended \/ TRUE) = TRUE
  OBVIOUS
<1>6. q = [ n |-> p.n, at |-> p.at, buf |-> none, pos |-> 0, inside |-> p.inside, gone |-> p.gone,
            req |-> p.req, out |-> out, ended |-> TRUE, told |-> p.told ]
  BY <1>0, <1>1, <1>2, <1>3, <1>4, <1>5 DEF Delivered, AnyPortal
<1>7. q \in AnyPortal
  BY <1>1, <1>6 DEF AnyPortal
<1>8. /\ q.n = p.n /\ q.at = p.at /\ q.buf = none /\ q.pos = 0 /\ q.req = p.req
      /\ q.out = out /\ q.told = p.told
  BY <1>6
<1>9. Follows(none, 0, b + a)
  <2>1. ASSUME NEW i \in 1 .. (0 - 0) PROVE none[0 + i] = b + a + i
    OBVIOUS
  <2> QED
    BY <1>4, <2>1 DEF Follows
<1>10. Handed(p, a, buf, q)
  <2>1. a - 0 = a /\ 0 - 0 = a - 0 - a /\ 0 <= 0
    OBVIOUS
  <2>2. a <= Len(p.buf) - p.pos /\ a = Len(p.buf) - p.pos
    BY <1>2, <2>1
  <2>3. q.pos <= Len(q.buf) /\ Len(q.buf) - q.pos = Len(p.buf) - p.pos - a
    BY <1>2, <1>4, <1>8, <2>1
  <2>4. Follows(q.buf, q.pos, Len(p.out) + a)
    BY <1>2, <1>8, <1>9
  <2> QED
    BY <1>1, <1>2, <1>3, <1>7, <1>8, <2>2, <2>3, <2>4 DEF Handed
<1> QED
  BY <1>0, <1>10, RowsGiven

LEMMA ReadAllSound == ASSUME NEW p, PortalOK(p) PROVE PortalOK(ReadAllRows(p).p)
<1>1. PICK t : t = Trimmed(p) /\ PortalOK(t) /\ t.pos = 0 /\ t.n = p.n
  <2>1. Trimmed(p).pos = 0
    BY DEF Trimmed, PortalOK, AnyPortal
  <2> QED
    BY <2>1, TrimmedSound
<1>2. PICK m \in Nat : m = p.n + 1 /\ m > t.n
  <2>1. p.n \in Nat
    BY PortalKnown
  <2> QED
    BY <1>1, <2>1
<1>3. PICK q : q = Filled(t, m)
  OBVIOUS
<1>4. PortalOK(q) /\ q.pos = 0 /\ q.n = t.n /\ (Len(q.buf) - q.pos >= m \/ q.req # "ok")
  BY <1>1, <1>3, FilledSound
<1>5. q.req \in {"refused", "none"}
  <2>1. /\ q.req \in {"ok", "none", "refused"} /\ Len(q.buf) \in Nat /\ Len(q.out) \in Nat
        /\ q.at \in Nat /\ q.n \in Nat
    BY <1>4, PortalKnown
  <2>2. Len(q.out) + Len(q.buf) - q.pos <= q.at /\ q.at <= q.n
    BY <1>4 DEF PortalOK
  <2>3. ~(Len(q.buf) - q.pos >= m)
    <3>1. PICK a \in Nat, b \in Nat, at \in Nat, n \in Nat :
            a = Len(q.buf) /\ b = Len(q.out) /\ at = q.at /\ n = q.n
      BY <2>1
    <3>2. b + a - 0 <= at /\ at <= n /\ m > n
      BY <1>2, <1>4, <2>2, <3>1
    <3>3. ~(a - 0 >= m)
      BY <3>2
    <3> QED
      BY <1>4, <3>1, <3>3
  <2> QED
    BY <1>4, <2>1, <2>3
<1>6. ReadAllRows(p) = IF q.req = "refused" THEN [p |-> RefusedOnce(q), raised |-> TRUE]
        ELSE [p |-> Delivered([q EXCEPT !.buf = <<>>], q.buf, TRUE), raised |-> FALSE]
  BY <1>1, <1>2, <1>3 DEF ReadAllRows
<1>7. CASE q.req = "refused"
  <2>1. ReadAllRows(p).p = RefusedOnce(q)
    BY <1>6, <1>7
  <2> QED
    BY <1>4, <2>1, OnceSound
<1>8. CASE q.req = "none"
  <2>1. ReadAllRows(p).p = Delivered([q EXCEPT !.buf = <<>>], q.buf, TRUE)
    BY <1>6, <1>8
  <2>2. PortalOK(Delivered([q EXCEPT !.buf = <<>>], q.buf, TRUE))
    BY <1>4, <1>8, AllGiven
  <2> QED
    BY <2>1, <2>2
<1> QED
  BY <1>5, <1>7, <1>8

LEMMA FetchesSound == ASSUME NEW p, PortalOK(p), NEW r \in Fetches(p) PROVE PortalOK(r.p)
<1>1. CASE r = Next1(p)
  BY <1>1, NextSound
<1>2. CASE r = ReadAllRows(p)
  BY <1>2, ReadAllSound
<1>3. CASE \E k \in 1 .. DbChunk + 1 : r = ReadRows(p, k)
  <2>1. PICK k \in 1 .. DbChunk + 1 : r = ReadRows(p, k)
    BY <1>3
  <2>2. k \in Nat
    BY DbBounds
  <2> QED
    BY <2>1, <2>2, ReadSound
<1> QED
  BY <1>1, <1>2, <1>3 DEF Fetches

-----------------------------------------------------------------------------
PortalsOK == dPortals \in Seq(AnyPortal) /\ \A i \in DOMAIN dPortals : PortalOK(dPortals[i])

LEMMA PortalsKnown ==
  ASSUME NEW s \in Seq(AnyPortal)
  PROVE  \E n \in Nat : n = Len(s) /\ DOMAIN s = 1 .. n /\ s \in [1 .. n -> AnyPortal]
OBVIOUS

LEMMA PortalsMade ==
  ASSUME NEW s, NEW n \in Nat, s \in [1 .. n -> AnyPortal]
  PROVE  s \in Seq(AnyPortal)
OBVIOUS

\* One portal in place of another, or each by what becomes of it.
LEMMA PortalsMapped ==
  ASSUME PortalsOK, NEW f, DOMAIN f = DOMAIN dPortals, f = [i \in DOMAIN dPortals |-> f[i]],
         \A i \in DOMAIN dPortals : PortalOK(f[i]), dPortals' = f
  PROVE  PortalsOK'
<1>1. PICK n \in Nat : n = Len(dPortals) /\ DOMAIN dPortals = 1 .. n
  BY PortalsKnown DEF PortalsOK
<1>2. \A i \in 1 .. n : f[i] \in AnyPortal
  BY <1>1 DEF PortalOK
<1>3. f \in [1 .. n -> AnyPortal]
  BY <1>1, <1>2
<1>4. f \in Seq(AnyPortal)
  BY <1>3, PortalsMade
<1> QED
  BY <1>4 DEF PortalsOK

LEMMA GoneSound ==
  ASSUME NEW p, PortalOK(p) PROVE PortalOK([p EXCEPT !.gone = @ \/ p.inside])
<1>0. PICK q : q = [p EXCEPT !.gone = @ \/ p.inside]
  OBVIOUS
<1>1. p \in AnyPortal
  BY DEF PortalOK
<1>2. PICK gone \in BOOLEAN : gone = (p.gone \/ p.inside)
  OBVIOUS
<1>3. q = [ n |-> p.n, at |-> p.at, buf |-> p.buf, pos |-> p.pos, inside |-> p.inside, gone |-> gone,
            req |-> p.req, out |-> p.out, ended |-> p.ended, told |-> p.told ]
  BY <1>0, <1>1, <1>2 DEF AnyPortal
<1>4. q \in AnyPortal
  BY <1>1, <1>3 DEF AnyPortal
<1>5. /\ q.n = p.n /\ q.at = p.at /\ q.buf = p.buf /\ q.pos = p.pos /\ q.req = p.req
      /\ q.out = p.out /\ q.told = p.told /\ q.ended = p.ended
  BY <1>3
<1>6. PortalOK(q)
  BY <1>4, <1>5 DEF PortalOK
<1> QED
  BY <1>0, <1>6

LEMMA NewSound == ASSUME NEW n \in Nat PROVE PortalOK(NewPortal(n)) /\ NewPortal(n) \in AnyPortal
<1>0. PICK q : q = NewPortal(n)
  OBVIOUS
<1>1. PICK none \in Seq(Nat) : none = <<>> /\ Len(none) = 0
  <2>1. <<>> \in Seq(Nat) /\ Len(<<>>) = 0
    OBVIOUS
  <2> QED
    BY <2>1
<1>2. PICK inside \in BOOLEAN : inside = (dBlock = "T")
  OBVIOUS
<1>3. q = [ n |-> n, at |-> 0, buf |-> none, pos |-> 0, inside |-> inside, gone |-> FALSE,
            req |-> "ok", out |-> none, ended |-> FALSE, told |-> FALSE ]
  BY <1>0, <1>1, <1>2 DEF NewPortal
<1>4. q \in AnyPortal
  BY <1>3 DEF AnyPortal
<1>5. Follows(none, 0, 0) /\ 0 + 0 - 0 = 0
  BY <1>1 DEF Follows
<1>6. /\ q.n = n /\ q.at = 0 /\ q.buf = none /\ q.pos = 0 /\ q.req = "ok"
      /\ q.out = none /\ q.told = FALSE /\ q.ended = FALSE
  BY <1>3
<1>7. PortalOK(q)
  BY <1>1, <1>4, <1>5, <1>6 DEF PortalOK
<1> QED
  BY <1>0, <1>4, <1>7

LEMMA ClashSound ==
  ASSUME NEW p, PortalOK(p), Len(ChunkOf(p)) = DbChunk
  PROVE  PortalOK(RefusedOnce([p EXCEPT !.at = @ + DbChunk]))
<1>0. PICK q : q = RefusedOnce([p EXCEPT !.at = @ + DbChunk])
  OBVIOUS
<1>1. p \in AnyPortal /\ p.at <= p.n
  BY DEF PortalOK
<1>2. PICK n \in Nat, at \in Nat, c \in Nat \ {0} : n = p.n /\ at = p.at /\ c = DbChunk
  BY PortalKnown, DbBounds
<1>3. PICK k \in Nat : k = IF n - at < c THEN n - at ELSE c
  BY <1>1, <1>2
<1>4. k = c
  <2>1. ChunkOf(p) = Rows(p, k)
    BY <1>2, <1>3 DEF ChunkOf
  <2>2. Len(Rows(p, k)) = k
    BY <1>2, RowsKnown
  <2> QED
    BY <1>2, <2>1, <2>2
<1>5. PICK m \in Nat : m = at + c /\ m >= at /\ m <= n
  BY <1>1, <1>2, <1>3, <1>4
<1>6. q = [ n |-> p.n, at |-> m, buf |-> p.buf, pos |-> p.pos, inside |-> p.inside, gone |-> p.gone,
            req |-> "none", out |-> p.out, ended |-> p.ended, told |-> TRUE ]
  BY <1>0, <1>1, <1>2, <1>5 DEF RefusedOnce, AnyPortal
<1>7. q \in AnyPortal
  BY <1>1, <1>6 DEF AnyPortal
<1>8. /\ q.n = p.n /\ q.at = m /\ q.buf = p.buf /\ q.pos = p.pos /\ q.req = "none"
      /\ q.out = p.out /\ q.told = TRUE
  BY <1>6
<1>9. Cut(p, q)
  BY <1>2, <1>5, <1>7, <1>8 DEF Cut
<1> QED
  BY <1>0, <1>9, ToldSound

LEMMA RaisedSound == ASSUME PortalsOK, RaisesPending PROVE PortalsOK'
<1>1. PICK f : f = [ i \in DOMAIN dPortals |->
       IF dPortals[i].req = "refused" THEN RefusedOnce(dPortals[i]) ELSE dPortals[i] ] /\ dPortals' = f
  BY DEF RaisesPending
<1>2. \A i \in DOMAIN dPortals : PortalOK(f[i])
  BY <1>1, OnceSound DEF PortalsOK
<1> QED
  BY <1>1, <1>2, PortalsMapped

LEMMA OrphansSound == ASSUME PortalsOK, dPortals' = Orphans(dPortals) PROVE PortalsOK'
<1>1. PICK f : /\ f = [i \in DOMAIN dPortals |-> [dPortals[i] EXCEPT !.gone = @ \/ dPortals[i].inside]]
               /\ dPortals' = f
  BY DEF Orphans
<1>2. \A i \in DOMAIN dPortals : PortalOK(f[i])
  BY <1>1, GoneSound DEF PortalsOK
<1> QED
  BY <1>1, <1>2, PortalsMapped

LEMMA SameSound == ASSUME PortalsOK, dPortals' = dPortals PROVE PortalsOK'
BY DEF PortalsOK

LEMMA TailSound ==
  ASSUME PortalsOK, dPortals # <<>>, dPortals' = Tail(dPortals)
  PROVE  PortalsOK'
<1>1. PICK s \in Seq(AnyPortal), n \in Nat : s = dPortals /\ n = Len(s) /\ DOMAIN s = 1 .. n /\ n > 0
  BY PortalsKnown DEF PortalsOK
<1>2. PICK t \in Seq(AnyPortal) : t = Tail(s) /\ DOMAIN t = 1 .. (n - 1) /\ \A i \in 1 .. (n - 1) : t[i] = s[i + 1]
  <2>1. s # <<>>
    BY <1>1
  <2>2. Tail(s) \in Seq(AnyPortal) /\ Len(Tail(s)) = n - 1
    BY <1>1, <2>1
  <2>3. DOMAIN Tail(s) = 1 .. (n - 1) /\ \A i \in 1 .. (n - 1) : Tail(s)[i] = s[i + 1]
    BY <1>1, <2>1, <2>2
  <2> QED
    BY <2>2, <2>3
<1>3. \A i \in 1 .. (n - 1) : i + 1 \in 1 .. n
  OBVIOUS
<1>4. \A i \in 1 .. (n - 1) : PortalOK(t[i])
  BY <1>1, <1>2, <1>3 DEF PortalsOK
<1> QED
  BY <1>1, <1>2, <1>4 DEF PortalsOK

LEMMA AddedSound ==
  ASSUME PortalsOK, NEW p, PortalOK(p), dPortals' = <<p>> \o dPortals
  PROVE  PortalsOK'
<1>1. PICK s \in Seq(AnyPortal), n \in Nat : s = dPortals /\ n = Len(s) /\ DOMAIN s = 1 .. n
  BY PortalsKnown DEF PortalsOK
<1>2. p \in AnyPortal
  BY DEF PortalOK
<1>3. PICK t \in Seq(AnyPortal) : t = <<p>> \o s /\ DOMAIN t = 1 .. (n + 1)
  <2>1. <<p>> \in Seq(AnyPortal) /\ Len(<<p>>) = 1
    BY <1>2
  <2>2. <<p>> \o s \in Seq(AnyPortal) /\ Len(<<p>> \o s) = 1 + n
    BY <1>1, <2>1
  <2>3. DOMAIN (<<p>> \o s) = 1 .. (n + 1)
    BY <2>2
  <2> QED
    BY <2>2, <2>3
<1>4. ASSUME NEW i \in 1 .. (n + 1) PROVE PortalOK(t[i])
  <2>1. CASE i = 1
    <3>1. t[1] = p
      BY <1>1, <1>3
    <3> QED
      BY <2>1, <3>1
  <2>2. CASE i # 1
    <3>1. PICK j \in 1 .. n : i = j + 1
      <4>1. i - 1 \in 1 .. n /\ i = (i - 1) + 1
        BY <2>2
      <4> QED
        BY <4>1
    <3>2. t[j + 1] = s[j]
      <4>1. PICK m \in Nat : m = j + 1 /\ m # 1 /\ m - 1 = j /\ m \in 1 .. (1 + n)
        OBVIOUS
      <4>2. t[m] = s[m - 1]
        BY <1>1, <1>3, <4>1
      <4> QED
        BY <4>1, <4>2
    <3>3. PortalOK(s[j])
      BY <1>1 DEF PortalsOK
    <3> QED
      BY <3>1, <3>2, <3>3
  <2> QED
    BY <2>1, <2>2
<1> QED
  BY <1>1, <1>3, <1>4 DEF PortalsOK

LEMMA FetchSound == ASSUME PortalsOK, Fetch PROVE PortalsOK'
<1>1. PICK n \in Nat : n = Len(dPortals) /\ DOMAIN dPortals = 1 .. n /\ 1 \in 1 .. n
  BY PortalsKnown DEF PortalsOK, Fetch
<1>2. PICK p : p = dPortals[1] /\ PortalOK(p)
  BY <1>1 DEF PortalsOK
<1>3. PICK r \in Fetches(p) :
        \/ dPortals' = [dPortals EXCEPT ![1] = r.p]
        \/ /\ Len(ChunkOf(p)) = DbChunk
           /\ dPortals' = [ i \in DOMAIN dPortals |->
                IF i = 1 THEN RefusedOnce([p EXCEPT !.at = @ + DbChunk])
                ELSE IF dPortals[i].req = "refused" THEN RefusedOnce(dPortals[i]) ELSE dPortals[i] ]
  BY <1>2 DEF Fetch
<1>4. CASE dPortals' = [dPortals EXCEPT ![1] = r.p]
  <2>1. PortalOK(r.p)
    BY <1>2, FetchesSound
  <2>2. PICK f : f = [i \in DOMAIN dPortals |-> IF i = 1 THEN r.p ELSE dPortals[i]]
    OBVIOUS
  <2>3. dPortals' = f
    BY <1>1, <1>4, <2>2 DEF PortalsOK
  <2>4. \A i \in DOMAIN dPortals : PortalOK(f[i])
    BY <2>1, <2>2 DEF PortalsOK
  <2>5. DOMAIN f = DOMAIN dPortals /\ f = [i \in DOMAIN dPortals |-> f[i]]
    BY <2>2
  <2> QED
    BY <2>3, <2>4, <2>5, PortalsMapped
<1>5. CASE /\ Len(ChunkOf(p)) = DbChunk
           /\ dPortals' = [ i \in DOMAIN dPortals |->
                IF i = 1 THEN RefusedOnce([p EXCEPT !.at = @ + DbChunk])
                ELSE IF dPortals[i].req = "refused" THEN RefusedOnce(dPortals[i]) ELSE dPortals[i] ]
  <2>1. PICK q : q = RefusedOnce([p EXCEPT !.at = @ + DbChunk]) /\ PortalOK(q)
    BY <1>2, <1>5, ClashSound
  <2>2. PICK f : /\ f = [ i \in DOMAIN dPortals |-> IF i = 1 THEN q
                    ELSE IF dPortals[i].req = "refused" THEN RefusedOnce(dPortals[i]) ELSE dPortals[i] ]
                 /\ dPortals' = f
    BY <1>5, <2>1
  <2>3. \A i \in DOMAIN dPortals : PortalOK(f[i])
    BY <2>1, <2>2, OnceSound DEF PortalsOK
  <2>4. DOMAIN f = DOMAIN dPortals /\ f = [i \in DOMAIN dPortals |-> f[i]]
    BY <2>2
  <2> QED
    BY <2>2, <2>3, <2>4, PortalsMapped
<1> QED
  BY <1>3, <1>4, <1>5

LEMMA ExecuteSound == ASSUME PortalsOK, Execute PROVE PortalsOK'
<1>1. CASE RaisesPending
  BY <1>1, RaisedSound
<1>2. CASE dPortals' = dPortals
  BY <1>2, SameSound
<1>3. CASE \E n \in DbSizes : dPortals' = <<NewPortal(n)>> \o dPortals
  <2>1. PICK n \in DbSizes : dPortals' = <<NewPortal(n)>> \o dPortals
    BY <1>3
  <2>2. PortalOK(NewPortal(n))
    BY DbBounds, NewSound
  <2> QED
    BY <2>1, <2>2, AddedSound
<1>4. CASE dPortals' = IF dPortals = <<>> THEN <<>> ELSE Tail(dPortals)
  <2>1. CASE dPortals = <<>>
    BY <1>4, <2>1, SameSound
  <2>2. CASE dPortals # <<>>
    BY <1>4, <2>2, TailSound
  <2> QED
    BY <2>1, <2>2
<1> QED
  BY <1>1, <1>2, <1>3, <1>4 DEF Execute

LEMMA OthersSound ==
  ASSUME PortalsOK, NextSet \/ Commit \/ Rollback \/ AutocommitOn \/ AutocommitOff \/ Reconnect
  PROVE  PortalsOK'
<1>1. \/ RaisesPending \/ dPortals' = dPortals \/ dPortals' = Orphans(dPortals)
      \/ dPortals # <<>> /\ dPortals' = Tail(dPortals)
  BY DEF NextSet, Commit, Rollback, AutocommitOn, AutocommitOff, Reconnect, Replaced, dbapiVars, TurnedOn
<1> QED
  BY <1>1, RaisedSound, SameSound, OrphansSound, TailSound

LEMMA Delivers ==
  ASSUME NEW p, PortalOK(p)
  PROVE  /\ p.out = [k \in 1 .. Len(p.out) |-> k] /\ Len(p.out) <= p.n
         /\ p.ended /\ ~p.told => Len(p.out) = p.n
<1>1. /\ p.at <= p.n /\ p.pos <= Len(p.buf) /\ Follows(p.out, 0, 0)
      /\ Len(p.out) + Len(p.buf) - p.pos <= p.at
      /\ p.ended = TRUE /\ p.told = FALSE => Len(p.out) = p.n
  BY DEF PortalOK
<1>2. PICK a \in Nat, b \in Nat, pos \in Nat, at \in Nat, n \in Nat, out \in Seq(Nat) :
        a = Len(p.buf) /\ b = Len(out) /\ pos = p.pos /\ out = p.out /\ n = p.n /\ at = p.at
  BY PortalKnown
<1>3. b <= n
  <2>1. at <= n /\ pos <= a /\ b + a - pos <= at
    BY <1>1, <1>2
  <2> QED
    BY <2>1
<1>4. out = [k \in 1 .. b |-> k]
  <2>1. \A k \in 1 .. b : out[k] = k
    <3>1. \A k \in 1 .. (b - 0) : out[0 + k] = 0 + k
      BY <1>1, <1>2 DEF Follows
    <3>2. \A k \in 1 .. b : k \in 1 .. (b - 0) /\ 0 + k = k
      OBVIOUS
    <3> QED
      BY <3>1, <3>2
  <2>2. out = [k \in 1 .. b |-> out[k]]
    BY <1>2
  <2> QED
    BY <2>1, <2>2
<1>5. p.ended /\ ~p.told => Len(p.out) = p.n
  <2>1. p.ended \in {TRUE, FALSE} /\ p.told \in {TRUE, FALSE}
    BY PortalKnown
  <2>2. p.ended /\ ~p.told => p.ended = TRUE /\ p.told = FALSE
    BY <2>1, Zenon
  <2> QED
    BY <1>1, <2>2, Zenon
<1> QED
  BY <1>2, <1>3, <1>4, <1>5

\* Any mix of fetchone, fetchmany and fetchall gives the rows of a statement in order
\* and once, for any size of a chunk, any number of rows and any portals.
THEOREM DeliveryTheorem == DbapiSpec => []FetchesDeliver
<1>1. DbapiInit => PortalsOK
  BY DEF DbapiInit, PortalsOK
<1>2. PortalsOK /\ [DbapiNext]_dbapiVars => PortalsOK'
  <2> SUFFICES ASSUME PortalsOK, [DbapiNext]_dbapiVars PROVE PortalsOK'
    OBVIOUS
  <2>1. CASE UNCHANGED dbapiVars
    BY <2>1, SameSound DEF dbapiVars
  <2>2. CASE DbapiNext
    BY <2>2, FetchSound, ExecuteSound, OthersSound DEF DbapiNext
  <2> QED
    BY <2>1, <2>2
<1>3. PortalsOK => FetchesDeliver
  BY Delivers DEF PortalsOK, FetchesDeliver
<1> QED
  BY <1>1, <1>2, <1>3, PTL DEF DbapiSpec

-----------------------------------------------------------------------------
\* What became of each change, by what the caller was told of it.
Fates ==
  /\ dTold \in [1 .. DbUnits -> {"none", "kept", "pending", "undone", "loose"}]
  /\ \A u \in 1 .. DbUnits :
       /\ dTold[u] = "none" => u \notin dKept /\ u \notin dOpen
       /\ dTold[u] = "kept" => u \in dKept
       /\ dTold[u] = "undone" => u \notin dKept /\ u \notin dOpen
       /\ dTold[u] = "pending" => u \in dOpen /\ dAstray = FALSE
       /\ u \in dOpen => u \notin dKept
\* A connection that is not astray holds the whole block of the server, or there is none.
Held ==
  /\ dAstray = FALSE =>
       \/ dXact = NoTransaction /\ dBlock = "I"
       \/ dXact = [type |-> "block", state |-> "open"] /\ dBlock \in {"T", "E"}
  /\ dAstray \in {TRUE, FALSE} /\ dBlock \in {"I", "T", "E"}
  /\ dBlock = "I" => dOpen = {}
  /\ dXact \in AnyXact \cup {NoTransaction}
DbInv == Fates /\ Held

LEMMA FatesAreTold == Fates => ChangesAsTold
BY DEF Fates, ChangesAsTold, Told

\* A set of numbers has a least one.
LEMMA Earliest ==
  ASSUME NEW S \in SUBSET Nat, S # {}
  PROVE  \E x \in S : \A y \in S : x <= y
<1>1. PICK x \in S : \A y \in S : <<y, x>> \notin OpToRel(<, Nat)
  BY WFMin, NatLessThanWellFounded, Zenon
<1>2. \A y \in S : ~(y < x)
  <2>1. TAKE y \in S
  <2>2. y \in Nat /\ x \in Nat
    OBVIOUS
  <2>3. <<y, x>> \notin {ss \in Nat \X Nat : ss[1] < ss[2]}
    BY <1>1, Zenon DEF OpToRel
  <2>4. QED
    BY <2>2, <2>3
<1>3. QED
  BY <1>2

\* dTold after Tell.
LEMMA Tells ==
  ASSUME Fates, NEW units, NEW what \in {"none", "kept", "pending", "undone", "loose"}, Tell(units, what)
  PROVE  /\ dTold' \in [1 .. DbUnits -> {"none", "kept", "pending", "undone", "loose"}]
         /\ \A u \in 1 .. DbUnits : u \in units => dTold'[u] = what
         /\ \A u \in 1 .. DbUnits : u \notin units => dTold'[u] = dTold[u]
BY DEF Fates, Tell

LEMMA TheTold ==
  ASSUME Fates, NEW what
  PROVE  \A u \in 1 .. DbUnits : u \in Told(what) <=> dTold[u] = what
BY DEF Fates, Told

LEMMA Xacts ==
  /\ NoTransaction.state = "none" /\ NoTransaction.type = "none"
  /\ [type |-> "block", state |-> "open"] # NoTransaction
  /\ [type |-> "block", state |-> "open"].type = "block"
  /\ [type |-> "block", state |-> "open"] \in AnyXact \cup {NoTransaction}
  /\ NoTransaction \in AnyXact \cup {NoTransaction}
  /\ \A block \in {"I", "T", "E"} : Started(block) \in AnyXact
  /\ Started("I") = [type |-> "block", state |-> "open"]
BY DEF NoTransaction, AnyXact, Started

LEMMA ToldInit == DbapiInit => DbInv
BY Xacts DEF DbapiInit, DbInv, Fates, Held

LEMMA Raised ==
  ASSUME DbInv, RaisesPending
  PROVE  DbInv'
<1>1. dBlock' \in {"I", "T", "E"} /\ (dBlock' = "I" <=> dBlock = "I")
  BY DEF RaisesPending, Spoilt, DbInv, Held
<1>2. dXact' = dXact /\ dAstray' = dAstray /\ dOpen' = dOpen /\ dKept' = dKept /\ dTold' = dTold
  BY DEF RaisesPending
<1>3. QED
  BY <1>1, <1>2 DEF DbInv, Fates, Held

LEMMA ToldFetch == ASSUME DbInv, Fetch PROVE DbInv'
<1>1. dXact' = dXact /\ dAstray' = dAstray /\ dOpen' = dOpen /\ dKept' = dKept /\ dTold' = dTold
  BY DEF Fetch
<1>2. dBlock' = dBlock \/ dBlock' = Spoilt(dBlock)
  BY DEF Fetch
<1>3. dBlock' \in {"I", "T", "E"} /\ (dBlock' = "I" <=> dBlock = "I")
  BY <1>2 DEF Spoilt, DbInv, Held
<1>4. QED
  BY <1>1, <1>3 DEF DbInv, Fates, Held

LEMMA ToldNextSet == ASSUME DbInv, NextSet PROVE DbInv'
BY DEF NextSet, DbInv, Fates, Held

LEMMA ToldExecute == ASSUME DbInv, Execute PROVE DbInv'
<1>1. CASE RaisesPending
  BY <1>1, Raised
<1>2. CASE dBlock' = Spoilt(dBlock) /\ UNCHANGED <<dXact, dAstray, dOpen, dKept, dTold>>
  <2>1. dBlock' \in {"I", "T", "E"} /\ (dBlock' = "I" <=> dBlock = "I")
    BY <1>2 DEF Spoilt, DbInv, Held
  <2>2. QED
    BY <1>2, <2>1 DEF DbInv, Fates, Held
<1>3. CASE UNCHANGED <<dXact, dAstray, dBlock, dOpen, dKept, dTold>>
  BY <1>3 DEF DbInv, Fates, Held
<1>4. ASSUME dBlock # "E", Told("none") # {}, UNCHANGED <<dXact, dAstray, dBlock>>,
             NEW u, u = (CHOOSE v \in Told("none") : \A w \in Told("none") : v <= w),
             dOpen' = IF dBlock = "T" THEN dOpen \cup {u} ELSE dOpen,
             dKept' = IF dBlock = "I" THEN dKept \cup {u} ELSE dKept,
             Tell({u}, CASE dAstray -> "loose" [] ~dAstray /\ dXact = NoTransaction -> "kept"
                         [] OTHER -> "pending")
      PROVE  DbInv'
  <2>1. u \in 1 .. DbUnits /\ dTold[u] = "none"
    <3>1. \E v \in Told("none") : \A w \in Told("none") : v <= w
      <4>1. Told("none") \subseteq 1 .. DbUnits
        BY DEF DbInv, Fates, Told
      <4>2. QED
        BY <4>1, <1>4, Earliest, DbBounds
    <3>2. u \in Told("none")
      BY <3>1, <1>4
    <3>3. QED
      BY <3>2 DEF DbInv, Fates, Told
  <2>2. PICK what \in {"loose", "kept", "pending"} :
          /\ Tell({u}, what)
          /\ what = "kept" => dBlock = "I"
          /\ what = "pending" => dBlock = "T" /\ dAstray = FALSE
    BY <1>4, Xacts DEF DbInv, Held
  <2>3. /\ dTold' \in [1 .. DbUnits -> {"none", "kept", "pending", "undone", "loose"}]
        /\ dTold'[u] = what
        /\ \A v \in 1 .. DbUnits : v # u => dTold'[v] = dTold[v]
    BY <2>1, <2>2, Tells DEF DbInv
  <2>4. Fates'
    BY <1>4, <2>1, <2>2, <2>3 DEF DbInv, Fates
  <2>5. Held'
    BY <1>4 DEF DbInv, Held
  <2>6. QED
    BY <2>4, <2>5 DEF DbInv
<1>5. QED
  BY <1>1, <1>2, <1>3, <1>4 DEF Execute

\* A block that ends: what was pending in it is told one thing.
LEMMA BlockEnds ==
  ASSUME DbInv, NEW what \in {"kept", "undone", "loose"}, Tell(Told("pending"), what),
         dOpen' = {},
         \/ dKept' = dKept /\ (what # "kept" \/ \A u \in 1 .. DbUnits : dTold[u] # "pending")
         \/ dKept' = dKept \cup dOpen /\ what # "undone"
  PROVE  Fates'
<1>1. /\ dTold' \in [1 .. DbUnits -> {"none", "kept", "pending", "undone", "loose"}]
      /\ \A u \in 1 .. DbUnits : dTold[u] = "pending" => dTold'[u] = what
      /\ \A u \in 1 .. DbUnits : dTold[u] # "pending" => dTold'[u] = dTold[u]
  BY Tells, TheTold DEF DbInv
<1>2. QED
  BY <1>1 DEF DbInv, Fates

LEMMA ToldCommit == ASSUME DbInv, Commit PROVE DbInv'
<1>1. CASE RaisesPending
  BY <1>1, Raised
<1>2. CASE Replaced(dBlock = "T") /\ Tell(Told("pending"), IF dBlock = "E" THEN "loose" ELSE "kept")
           /\ ~InSavepoint
  <2>1. Held'
    BY <1>2, Xacts DEF Replaced, Held
  <2>2. CASE dBlock = "T"
    BY <1>2, <2>1, <2>2, BlockEnds DEF Replaced, DbInv
  <2>3. CASE dBlock = "E"
    BY <1>2, <2>1, <2>3, BlockEnds DEF Replaced, DbInv
  <2>4. CASE dBlock = "I"
    <3>1. \A u \in 1 .. DbUnits : dTold[u] # "pending"
      BY <2>4 DEF DbInv, Fates, Held
    <3>2. QED
      BY <1>2, <2>1, <2>4, <3>1, BlockEnds DEF Replaced, DbInv
  <2>5. QED
    BY <2>2, <2>3, <2>4 DEF DbInv, Held
<1>3. CASE Strays /\ Tell(Told("pending"), "undone") /\ dBlock' = "I" /\ dOpen' = {}
           /\ UNCHANGED <<dXact, dKept>>
  <2>1. Held'
    BY <1>3 DEF Strays, DbInv, Held
  <2>2. Fates'
    BY <1>3, BlockEnds
  <2>3. QED
    BY <2>1, <2>2 DEF DbInv
<1>4. CASE UNCHANGED dbapiVars
  BY <1>4 DEF dbapiVars, DbInv, Fates, Held
<1>5. QED
  BY <1>1, <1>2, <1>3, <1>4 DEF Commit

LEMMA ToldRollback == ASSUME DbInv, Rollback PROVE DbInv'
<1>1. CASE RaisesPending
  BY <1>1, Raised
<1>2. CASE Replaced(FALSE) /\ Tell(Told("pending"), "undone")
  <2>1. Held'
    BY <1>2, Xacts DEF Replaced, Held
  <2>2. Fates'
    BY <1>2, BlockEnds DEF Replaced
  <2>3. QED
    BY <2>1, <2>2 DEF DbInv
<1>3. CASE InSavepoint /\ dBlock' = "T" /\ UNCHANGED <<dXact, dAstray, dOpen, dKept, dTold>>
  BY <1>3, Xacts DEF InSavepoint, DbInv, Fates, Held
<1>4. QED
  BY <1>1, <1>2, <1>3 DEF Rollback

LEMMA ToldAutocommitOn == ASSUME DbInv, AutocommitOn PROVE DbInv'
<1>1. CASE RaisesPending
  BY <1>1, Raised
<1>2. CASE dXact' = NoTransaction /\ dAstray' = FALSE /\ Tell(Told("pending"), "undone")
           /\ dBlock' = "I" /\ dOpen' = {} /\ UNCHANGED dKept
  <2>1. Held'
    BY <1>2, Xacts DEF Held
  <2>2. Fates'
    BY <1>2, BlockEnds
  <2>3. QED
    BY <2>1, <2>2 DEF DbInv
<1>3. CASE InSavepoint /\ dXact' = NoTransaction /\ dBlock' = "T"
           /\ UNCHANGED <<dAstray, dOpen, dKept, dTold>>
  BY <1>3, Xacts DEF InSavepoint, DbInv, Fates, Held
<1>4. QED
  BY <1>1, <1>2, <1>3 DEF AutocommitOn, TurnedOn

LEMMA ToldAutocommitOff == ASSUME DbInv, AutocommitOff PROVE DbInv'
<1>1. CASE RaisesPending
  BY <1>1, Raised
<1>2. CASE dXact = NoTransaction /\ dXact' = Started(dBlock)
           /\ dBlock' = (IF dBlock = "I" THEN "T" ELSE dBlock)
           /\ UNCHANGED <<dAstray, dOpen, dKept, dTold>>
  <2>1. Fates'
    BY <1>2 DEF DbInv, Fates
  <2>2. Held'
    BY <1>2, Xacts DEF DbInv, Held
  <2>3. QED
    BY <2>1, <2>2 DEF DbInv
<1>3. QED
  BY <1>1, <1>2 DEF AutocommitOff

LEMMA ToldReconnect == ASSUME DbInv, Reconnect PROVE DbInv'
<1>1. CASE dBlock = "I"
  <2>1. dTold' = dTold
    BY <1>1 DEF Reconnect, Tell, DbInv, Fates
  <2>2. dXact' = [type |-> "block", state |-> "open"] /\ dBlock' = "T"
        /\ UNCHANGED <<dAstray, dOpen, dKept>>
    BY <1>1, Xacts DEF Reconnect
  <2>3. Fates'
    BY <2>1, <2>2 DEF DbInv, Fates
  <2>4. Held'
    BY <2>2, Xacts DEF DbInv, Held
  <2>5. QED
    BY <2>3, <2>4 DEF DbInv
<1>2. CASE dBlock # "I"
  <2>1. /\ dTold' \in [1 .. DbUnits -> {"none", "kept", "pending", "undone", "loose"}]
        /\ \A u \in 1 .. DbUnits : dTold[u] = "pending" => dTold'[u] = "loose"
        /\ \A u \in 1 .. DbUnits : dTold[u] # "pending" => dTold'[u] = dTold[u]
    BY <1>2, Tells, TheTold DEF DbInv, Reconnect
  <2>2. dXact' = Started(dBlock) /\ dBlock' = dBlock /\ dAstray' = TRUE /\ UNCHANGED <<dOpen, dKept>>
    BY <1>2 DEF Reconnect, Strays
  <2>3. Fates'
    BY <2>1, <2>2 DEF DbInv, Fates
  <2>4. Held'
    BY <1>2, <2>2, Xacts DEF DbInv, Held
  <2>5. QED
    BY <2>3, <2>4 DEF DbInv
<1>3. QED
  BY <1>1, <1>2

\* What the caller of commit(), rollback(), autocommit and connect() was told of each
\* change is what became of it, for any number of changes, portals and calls.
THEOREM ToldTheorem == DbapiSpec => []ChangesAsTold
<1>1. DbInv /\ [DbapiNext]_dbapiVars => DbInv'
  <2> SUFFICES ASSUME DbInv, [DbapiNext]_dbapiVars PROVE DbInv'
    OBVIOUS
  <2>1. CASE UNCHANGED dbapiVars
    BY <2>1 DEF dbapiVars, DbInv, Fates, Held
  <2>2. QED
    BY <2>1, ToldFetch, ToldNextSet, ToldExecute, ToldCommit, ToldRollback, ToldAutocommitOn,
       ToldAutocommitOff, ToldReconnect DEF DbapiNext
<1>2. DbInv => ChangesAsTold
  BY FatesAreTold DEF DbInv
<1>3. QED
  BY ToldInit, <1>1, <1>2, PTL DEF DbapiSpec

-----------------------------------------------------------------------------
(* The control of a cluster.                                               *)

States == {"starting", "up", "smart", "fast", "exited"}
Failures == {"no", "timeout", "terminated", "not_running", "not_stopped", "initdb"}
Logs == [started : Nat, crashes : Nat, calls : Nat, failed : Failures,
         warned : BOOLEAN, unseen : BOOLEAN]
StepNames ==
  {"init", "start", "wait_started", "stop", "wait", "shutdown", "kill", "drop", "drop_wait",
   "wait_again", "remove", "check_stopped", "temp_drop", "temp_set", "temp_unset"}
Types ==
  /\ kPm \in [pid : Nat, st : States] /\ kFile \in Nat /\ kDaemon \in Nat
  /\ kSteps \in Seq(StepNames) /\ kLog \in Logs

\* The steps that may follow the removal of the directory: none of them tells a
\* caller that the server has stopped.
AfterRemove == {"init", "start", "wait_started", "temp_set"}
OnlyAfterRemove(s) == \A i \in 1 .. Len(s) : s[i] \in AfterRemove
Ordered(s) ==
  \A i \in 1 .. Len(s) :
    /\ s[i] = "remove" => i = 1 \/ s[i - 1] \in {"drop_wait", "wait_again"}
    /\ s[i] \in {"temp_drop", "drop", "remove"} =>
         \A j \in i + 1 .. Len(s) : s[j] \in AfterRemove

\* A postmaster that lives is the subprocess of the object or the one the pid
\* file names, but behind a drop() that gave up waiting for it.
Known == kDaemon = kPm.pid \/ kFile = kPm.pid
Seen ==
  PmAlive => /\ kPm.pid # 0
             /\ kLog.unseen \/ Known \/ (kDaemon = 0 /\ OnlyAfterRemove(kSteps))
Removing ==
  At("remove") /\ PmAlive /\ ~kLog.unseen => kLog.warned /\ kDaemon \in {0, kPm.pid}

CInv == Types /\ Ordered(kSteps) /\ Seen /\ Removing

LEMMA InitCInv == ControlInit => CInv
<1> SUFFICES ASSUME ControlInit PROVE CInv OBVIOUS
<1>1. kSteps = <<>> /\ kSteps \in Seq(StepNames) /\ Len(kSteps) = 0 BY EmptySeq DEF ControlInit
<1>2. \/ kFile = 0 /\ kPm = [pid |-> 0, st |-> "exited"]
      \/ kFile = 1 /\ kPm = [pid |-> 1, st |-> "up"]
  BY DEF ControlInit
<1>3. kPm \in [pid : Nat, st : States] /\ kPm.pid \in Nat /\ kFile \in Nat
  BY <1>2 DEF States
<1>4. kLog \in Logs /\ kDaemon \in Nat
  <2>1. kLog = [started |-> kPm.pid, crashes |-> 0, calls |-> 0, failed |-> "no",
                warned |-> FALSE, unseen |-> FALSE] /\ kDaemon = 0
    BY DEF ControlInit
  <2> QED BY <1>3, <2>1 DEF Logs, Failures
<1>5. Ordered(kSteps)
  <2>1. 1 .. Len(kSteps) = {} BY <1>1
  <2> QED BY <2>1 DEF Ordered
<1>6. Seen BY <1>2 DEF Seen, Known, PmAlive
<1>7. Removing BY <1>1 DEF Removing, At
<1> QED BY <1>1, <1>3, <1>4, <1>5, <1>6, <1>7 DEF CInv, Types

-----------------------------------------------------------------------------
\* What is left of an ordered sequence of steps is ordered, and only a wait is
\* followed by the removal.
LEMMA TailOrdered ==
    ASSUME NEW s \in Seq(StepNames), s # <<>>, Ordered(s)
    PROVE  /\ Tail(s) \in Seq(StepNames) /\ Ordered(Tail(s))
           /\ OnlyAfterRemove(s) => OnlyAfterRemove(Tail(s))
           /\ Tail(s) # <<>> /\ Head(Tail(s)) = "remove" => s[1] \in {"drop_wait", "wait_again"}
           /\ s[1] \in {"temp_drop", "drop", "remove"} => OnlyAfterRemove(Tail(s))
<1>1. /\ Tail(s) \in Seq(StepNames) /\ Len(s) \in Nat \ {0} /\ Len(Tail(s)) = Len(s) - 1
      /\ \A i \in 1 .. Len(Tail(s)) : Tail(s)[i] = s[i + 1]
  BY HeadTailProperties, EmptySeq
<1>2. Ordered(Tail(s))
  <2> SUFFICES ASSUME NEW i \in 1 .. Len(Tail(s))
               PROVE  /\ Tail(s)[i] = "remove" =>
                           i = 1 \/ Tail(s)[i - 1] \in {"drop_wait", "wait_again"}
                      /\ Tail(s)[i] \in {"temp_drop", "drop", "remove"} =>
                           \A j \in i + 1 .. Len(Tail(s)) : Tail(s)[j] \in AfterRemove
    BY DEF Ordered
  <2>1. i + 1 \in 1 .. Len(s) /\ Tail(s)[i] = s[i + 1] BY <1>1
  <2>2. i # 1 => Tail(s)[i - 1] = s[(i + 1) - 1] /\ i + 1 # 1 BY <1>1
  <2>3. \A j \in i + 1 .. Len(Tail(s)) : Tail(s)[j] = s[j + 1] /\ j + 1 \in (i + 1) + 1 .. Len(s)
    BY <1>1
  <2>4. Tail(s)[i] = "remove" => i = 1 \/ Tail(s)[i - 1] \in {"drop_wait", "wait_again"}
    BY <2>1, <2>2 DEF Ordered
  <2>5. Tail(s)[i] \in {"temp_drop", "drop", "remove"} =>
          \A j \in i + 1 .. Len(Tail(s)) : Tail(s)[j] \in AfterRemove
    BY <2>1, <2>3 DEF Ordered
  <2> QED BY <2>4, <2>5
<1>3. OnlyAfterRemove(s) => OnlyAfterRemove(Tail(s)) BY <1>1 DEF OnlyAfterRemove
<1>4. Tail(s) # <<>> /\ Head(Tail(s)) = "remove" => s[1] \in {"drop_wait", "wait_again"}
  <2> SUFFICES ASSUME Tail(s) # <<>>, Head(Tail(s)) = "remove"
               PROVE  s[1] \in {"drop_wait", "wait_again"}
    OBVIOUS
  <2>1. Len(Tail(s)) >= 1 /\ Head(Tail(s)) = Tail(s)[1] BY <1>1, EmptySeq
  <2>2. PICK k \in 1 .. Len(s) : k - 1 = 1 BY <1>1, <2>1
  <2>3. s[k] = Tail(s)[1] /\ k # 1 BY <1>1, <2>1, <2>2
  <2>4. s[k] = "remove" BY <2>1, <2>3
  <2>5. s[k - 1] \in {"drop_wait", "wait_again"} BY <2>3, <2>4 DEF Ordered
  <2> QED BY <2>2, <2>5
<1>5. s[1] \in {"temp_drop", "drop", "remove"} => OnlyAfterRemove(Tail(s))
  <2>1. 1 \in 1 .. Len(s) BY <1>1
  <2>2. \A i \in 1 .. Len(Tail(s)) : i + 1 \in 1 + 1 .. Len(s) BY <1>1
  <2> QED BY <1>1, <2>1, <2>2 DEF Ordered, OnlyAfterRemove
<1> QED BY <1>1, <1>2, <1>3, <1>4, <1>5

\* drop() and its retry put their steps before those that are left.
LEMMA ConcatOrdered ==
    ASSUME NEW p \in Seq(StepNames), Ordered(p), NEW t \in Seq(StepNames), OnlyAfterRemove(t)
    PROVE  p \o t \in Seq(StepNames) /\ Ordered(p \o t)
<1>1. /\ Len(p) \in Nat /\ Len(t) \in Nat
      /\ p \o t \in Seq(StepNames) /\ Len(p \o t) = Len(p) + Len(t)
      /\ \A i \in 1 .. Len(p) + Len(t) :
           (p \o t)[i] = IF i <= Len(p) THEN p[i] ELSE t[i - Len(p)]
  BY ConcatProperties, LenProperties
<1>2. \A i \in 1 .. Len(p \o t) : i > Len(p) => (p \o t)[i] \in AfterRemove
  <2> TAKE i \in 1 .. Len(p \o t)
  <2> HAVE i > Len(p)
  <2>1. i - Len(p) \in 1 .. Len(t) /\ (p \o t)[i] = t[i - Len(p)] BY <1>1
  <2> QED BY <2>1 DEF OnlyAfterRemove
<1>3. \A i \in 1 .. Len(p) : (p \o t)[i] = p[i] BY <1>1
<1>4. Ordered(p \o t)
  <2> SUFFICES ASSUME NEW i \in 1 .. Len(p \o t)
               PROVE  /\ (p \o t)[i] = "remove" =>
                           i = 1 \/ (p \o t)[i - 1] \in {"drop_wait", "wait_again"}
                      /\ (p \o t)[i] \in {"temp_drop", "drop", "remove"} =>
                           \A j \in i + 1 .. Len(p \o t) : (p \o t)[j] \in AfterRemove
    BY DEF Ordered
  <2>1. CASE i > Len(p) BY <1>1, <1>2, <2>1 DEF AfterRemove
  <2>2. CASE i <= Len(p)
    <3>1. i \in 1 .. Len(p) /\ (p \o t)[i] = p[i] BY <1>1, <1>3, <2>2
    <3>2. i # 1 => i - 1 \in 1 .. Len(p) /\ (p \o t)[i - 1] = p[i - 1] BY <1>1, <1>3, <3>1
    <3>3. \A j \in i + 1 .. Len(p \o t) :
            (p \o t)[j] \in AfterRemove
            \/ (j \in i + 1 .. Len(p) /\ (p \o t)[j] = p[j])
      <4> TAKE j \in i + 1 .. Len(p \o t)
      <4>1. j \in 1 .. Len(p \o t) BY <1>1
      <4>2. j <= Len(p) => j \in i + 1 .. Len(p) /\ j \in 1 .. Len(p) BY <1>1
      <4> QED BY <1>1, <1>2, <1>3, <4>1, <4>2
    <3>4. (p \o t)[i] = "remove" => i = 1 \/ (p \o t)[i - 1] \in {"drop_wait", "wait_again"}
      BY <3>1, <3>2 DEF Ordered
    <3>5. (p \o t)[i] \in {"temp_drop", "drop", "remove"} =>
            \A j \in i + 1 .. Len(p \o t) : (p \o t)[j] \in AfterRemove
      BY <3>1, <3>3 DEF Ordered
    <3> QED BY <3>4, <3>5
  <2>3. i > Len(p) \/ i <= Len(p) BY <1>1
  <2> QED BY <2>1, <2>2, <2>3
<1> QED BY <1>1, <1>4

LEMMA NoneOrdered ==
    ASSUME NEW s, Len(s) = 0
    PROVE  Ordered(s) /\ OnlyAfterRemove(s)
<1>1. 1 .. Len(s) = {} OBVIOUS
<1> QED BY <1>1 DEF Ordered, OnlyAfterRemove

LEMMA EmptyOrdered == <<>> \in Seq(StepNames) /\ Ordered(<<>>) /\ OnlyAfterRemove(<<>>)
  BY EmptySeq, NoneOrdered, Zenon

\* The operations that remove nothing, or end with it.
LEMMA PlainOrdered ==
    ASSUME NEW s \in Seq(StepNames),
           \A i \in 1 .. Len(s) : s[i] # "remove" /\ (s[i] \in {"drop", "temp_drop"} => i = Len(s))
    PROVE  Ordered(s)
<1>1. Len(s) \in Nat BY LenProperties
<1>2. \A i \in 1 .. Len(s) : i = Len(s) => i + 1 .. Len(s) = {} BY <1>1
<1> QED BY <1>2 DEF Ordered

Short(s) ==
  /\ s \in Seq(StepNames) /\ s[1] # "remove"
  /\ Len(s) = 1 \/ (Len(s) = 2 /\ s[1] \notin {"drop", "temp_drop"} /\ s[2] # "remove")

LEMMA ShortOrdered == ASSUME NEW s, Short(s) PROVE Ordered(s)
<1>1. s \in Seq(StepNames) BY DEF Short
<1>2. \A i \in 1 .. Len(s) : s[i] # "remove" /\ (s[i] \in {"drop", "temp_drop"} => i = Len(s))
  <2>1. CASE Len(s) = 1
    <3>1. \A i \in 1 .. Len(s) : i = 1 BY <2>1
    <3> QED BY <2>1, <3>1 DEF Short
  <2>2. CASE Len(s) = 2
    <3>1. \A i \in 1 .. Len(s) : i = 1 \/ i = 2 BY <2>2
    <3>2. s[1] \notin {"remove", "drop", "temp_drop"} /\ s[2] # "remove" BY <2>2 DEF Short
    <3> QED BY <2>2, <3>1, <3>2
  <2> QED BY <2>1, <2>2 DEF Short
<1> QED BY <1>1, <1>2, PlainOrdered

LEMMA OperationsOrdered ==
    ASSUME NEW s \in Operations
    PROVE  s \in Seq(StepNames) /\ Ordered(s) /\ s[1] # "remove"
<1>1. Short(<<"init">>) BY DEF Short, StepNames
<1>2. Short(<<"start">>) BY DEF Short, StepNames
<1>3. Short(<<"start", "wait_started">>) BY DEF Short, StepNames
<1>4. Short(<<"stop", "wait">>) BY DEF Short, StepNames
<1>5. Short(<<"stop">>) BY DEF Short, StepNames
<1>6. Short(<<"shutdown">>) BY DEF Short, StepNames
<1>7. Short(<<"kill">>) BY DEF Short, StepNames
<1>8. Short(<<"drop">>) BY DEF Short, StepNames
<1>9. Short(s)
  BY <1>1, <1>2, <1>3, <1>4, <1>5, <1>6, <1>7, <1>8, Zenon DEF Operations
<1> QED BY <1>9, ShortOrdered DEF Short

LEMMA RestartOrdered ==
    RestartSteps \in Seq(StepNames) /\ Ordered(RestartSteps) /\ RestartSteps[1] # "remove"
<1>1. /\ RestartSteps \in Seq(StepNames) /\ Len(RestartSteps) \in Nat \ {0}
      /\ \A i \in 1 .. Len(RestartSteps) :
           RestartSteps[i] \in {"stop", "wait", "check_stopped", "start", "wait_started"}
  <2>1. CASE DaemonRuns
    <3>1. RestartSteps = <<"stop", "wait">> \o <<"check_stopped", "start", "wait_started">>
      BY <2>1 DEF RestartSteps
    <3>2. Len(RestartSteps) = 5 /\ RestartSteps \in Seq(StepNames) BY <3>1 DEF StepNames
    <3>3. /\ RestartSteps[1] = "stop" /\ RestartSteps[2] = "wait"
          /\ RestartSteps[3] = "check_stopped" /\ RestartSteps[4] = "start"
          /\ RestartSteps[5] = "wait_started"
      BY <3>1
    <3> QED BY <3>2, <3>3
  <2>2. CASE ~DaemonRuns
    <3> DEFINE rest == <<"check_stopped", "start", "wait_started">>
    <3>0. rest \in Seq(StepNames) BY DEF StepNames
    <3>1. RestartSteps = rest
      <4>1. RestartSteps = <<>> \o rest BY <2>2 DEF RestartSteps
      <4> HIDE DEF rest
      <4> QED BY <3>0, <4>1, ConcatEmptySeq
    <3>2. RestartSteps \in Seq(StepNames) BY <3>0, <3>1, Zenon
    <3>4. Len(RestartSteps) = 3 BY <3>1
    <3>3. /\ RestartSteps[1] = "check_stopped" /\ RestartSteps[2] = "start"
          /\ RestartSteps[3] = "wait_started"
      BY <3>1
    <3> QED BY <3>2, <3>3, <3>4
  <2> QED BY <2>1, <2>2
<1>2. Ordered(RestartSteps) BY <1>1, PlainOrdered
<1>3. 1 \in 1 .. Len(RestartSteps) BY <1>1
<1>4. RestartSteps[1] # "remove" BY <1>1, <1>3
<1> QED BY <1>1, <1>2, <1>4

LEMMA TempOrdered ==
    /\ TempInit \in Seq(StepNames) /\ Ordered(TempInit) /\ TempInit[1] # "remove"
    /\ TempDestroy \in Seq(StepNames) /\ Ordered(TempDestroy) /\ TempDestroy[1] # "remove"
<1>1. /\ TempInit \in Seq(StepNames) /\ Len(TempInit) = 5
      /\ TempInit[1] = "temp_drop" /\ TempInit[2] = "init" /\ TempInit[3] = "start"
      /\ TempInit[4] = "wait_started" /\ TempInit[5] = "temp_set"
  BY DEF TempInit, StepNames
<1>2. Ordered(TempInit)
  <2>1. \A i \in 1 .. 5 : i = 1 \/ TempInit[i] \in AfterRemove BY <1>1 DEF AfterRemove
  <2>2. \A i \in 1 .. 5 : i # 1 => TempInit[i] \notin {"temp_drop", "drop", "remove"}
    BY <2>1 DEF AfterRemove
  <2>3. \A i \in 1 .. 5 : \A j \in i + 1 .. 5 : TempInit[j] \in AfterRemove BY <2>1
  <2> QED BY <1>1, <2>2, <2>3 DEF Ordered
<1>3. /\ TempDestroy \in Seq(StepNames) /\ Len(TempDestroy) = 4
      /\ TempDestroy[1] = "temp_unset" /\ TempDestroy[2] = "stop"
      /\ TempDestroy[3] = "wait" /\ TempDestroy[4] = "drop"
  BY DEF TempDestroy, StepNames
<1>4. \A i \in 1 .. 4 : TempDestroy[i] # "remove"
                        /\ (TempDestroy[i] \in {"drop", "temp_drop"} => i = 4)
  BY <1>3
<1>5. Ordered(TempDestroy) BY <1>3, <1>4, PlainOrdered
<1> QED BY <1>1, <1>2, <1>3, <1>5

-----------------------------------------------------------------------------
\* What running() does to the object keeps a living postmaster known.
LEMMA PollKnown ==
    ASSUME CInv
    PROVE  /\ Polled \in Nat
           /\ kDaemon = 0 => Polled = 0
           /\ PmAlive /\ Known => Polled \in {0, kPm.pid} /\ (Polled = kPm.pid \/ kFile = kPm.pid)
  BY DEF CInv, Types, Seen, Known, Polled, DaemonLives

LEMMA StepsLeft ==
    ASSUME CInv, kSteps # <<>>, kSteps' = Tail(kSteps)
    PROVE  /\ kSteps' \in Seq(StepNames) /\ Ordered(kSteps')
           /\ OnlyAfterRemove(kSteps) => OnlyAfterRemove(kSteps')
           /\ At("remove")' => Head(kSteps) \in {"drop_wait", "wait_again"}
           /\ Head(kSteps) \in {"temp_drop", "drop", "remove"} => OnlyAfterRemove(kSteps')
<1>1. kSteps \in Seq(StepNames) /\ Ordered(kSteps) BY DEF CInv, Types
<1>2. Head(kSteps) = kSteps[1] BY <1>1
<1> QED BY <1>1, <1>2, TailOrdered DEF At

\* The head of steps that only do what may follow the removal is such a step.
LEMMA HeadAfterRemove ==
    ASSUME CInv, kSteps # <<>>, OnlyAfterRemove(kSteps)
    PROVE  Head(kSteps) \in AfterRemove
<1>1. kSteps \in Seq(StepNames) BY DEF CInv, Types
<1>2. Len(kSteps) \in Nat \ {0} /\ Head(kSteps) = kSteps[1] BY <1>1, EmptySeq
<1> QED BY <1>2 DEF OnlyAfterRemove

\* A step that starts no postmaster and keeps the file of a living one.
LEMMA Kept ==
    ASSUME CInv, Types',
           PmAlive' => PmAlive /\ kPm'.pid = kPm.pid /\ kFile' \in {kFile, kPm.pid},
           kDaemon' \in {kDaemon, Polled}, kLog'.unseen = kLog.unseen,
           Ordered(kSteps'), OnlyAfterRemove(kSteps) => OnlyAfterRemove(kSteps'),
           \/ UNCHANGED <<kSteps, kDaemon>> /\ kLog'.warned = kLog.warned
           \/ ~At("remove")'
           \/ ~PmAlive'
           \/ kLog.unseen
           \/ kLog'.warned /\ kDaemon' = Polled /\ ~OnlyAfterRemove(kSteps)
    PROVE  CInv'
<1>1. Seen' BY PollKnown DEF CInv, Seen, Known
<1>2. Removing' BY PollKnown DEF CInv, Seen, Known, Removing, At
<1> QED BY <1>1, <1>2 DEF CInv

LEMMA SignalStepKeeps ==
    ASSUME CInv, NEW step \in {"stop", "shutdown", "kill"}, NEW sig \in {"TERM", "INT", "KILL"},
           SignalStep(step, sig)
    PROVE  CInv'
<1>1. /\ kSteps # <<>> /\ kSteps' = Tail(kSteps) /\ Head(kSteps) = step
      /\ UNCHANGED <<kFile, kDaemon, kLog>> /\ kPm' = Signalled(sig)
  BY DEF SignalStep, At, Done, NextStep
<1>2. /\ kPm' \in [pid : Nat, st : States] /\ kPm'.pid = kPm.pid
      /\ kPm'.st # "exited" => kPm.st # "exited"
  BY <1>1 DEF Signalled, CInv, Types, States, PmAlive
<1>3. Types' BY <1>1, <1>2, StepsLeft DEF CInv, Types
<1> QED BY <1>1, <1>2, <1>3, StepsLeft, Kept DEF PmAlive

\* A step that fails leaves no steps.
LEMMA FailKeeps ==
    ASSUME CInv, NEW why \in Failures, Fails(why), kDaemon' \in {kDaemon, Polled},
           UNCHANGED <<kPm, kFile>>
    PROVE  CInv'
<1>1. /\ kSteps' = <<>> /\ kLog' \in Logs /\ kLog'.unseen = kLog.unseen
  BY DEF Fails, CInv, Types, Logs
<1>2. Types' BY <1>1, EmptyOrdered, PollKnown DEF CInv, Types
<1>3. Ordered(kSteps') /\ OnlyAfterRemove(kSteps') /\ ~At("remove")'
  BY <1>1, EmptyOrdered DEF At
<1> QED BY <1>1, <1>2, <1>3, Kept DEF PmAlive

\* A step that is done and keeps the log.
LEMMA DoneKeeps ==
    ASSUME CInv, kSteps # <<>>, kSteps' = Tail(kSteps),
           Head(kSteps) \notin {"drop_wait", "wait_again"},
           kDaemon' \in {kDaemon, Polled}, UNCHANGED <<kPm, kFile, kLog>>
    PROVE  CInv'
<1>1. Types' BY StepsLeft, PollKnown DEF CInv, Types
<1> QED BY <1>1, StepsLeft, Kept DEF PmAlive

LEMMA WaitStoppedKeeps == ASSUME CInv, WaitStopped PROVE CInv'
<1>1. kDaemon' = Polled /\ kSteps # <<>> /\ Head(kSteps) \in {"wait", "drop_wait", "wait_again"}
      /\ UNCHANGED <<kPm, kFile>>
  BY DEF WaitStopped, At
<1>2. ~OnlyAfterRemove(kSteps) BY <1>1, HeadAfterRemove DEF AfterRemove
<1>3. CASE ~DaemonRuns /\ Done /\ UNCHANGED kLog
  <2>1. ~PmAlive \/ kLog.unseen
    BY <1>2, <1>3 DEF CInv, Seen, Known, DaemonRuns, DaemonLives, Alive, Types
  <2>2. Types' BY <1>1, <1>3, StepsLeft, PollKnown DEF CInv, Types, Done, NextStep
  <2> QED BY <1>1, <1>2, <1>3, <2>1, <2>2, StepsLeft, Kept DEF PmAlive, Done, NextStep
<1>4. CASE At("wait") /\ Fails("timeout") BY <1>1, <1>4, FailKeeps DEF Failures
<1>5. CASE At("drop_wait") /\ NextStep(AfterTimeout) /\ UNCHANGED kLog
  <2> DEFINE p == <<"kill", "wait_again">>  t == Tail(kSteps)
  <2>1. p \in Seq(StepNames) /\ Len(p) = 2 /\ p[1] = "kill" /\ p[2] = "wait_again"
    BY DEF StepNames
  <2>2. t \in Seq(StepNames) /\ Ordered(t) BY <1>1, TailOrdered DEF CInv, Types
  <2>3. kSteps' = p \o t BY <1>5 DEF NextStep, AfterTimeout
  <2> HIDE DEF p, t
  <2>4. /\ p \o t \in Seq(StepNames) /\ Len(p \o t) = 2 + Len(t) /\ Len(t) \in Nat
        /\ \A i \in 1 .. 2 + Len(t) : (p \o t)[i] = IF i <= 2 THEN p[i] ELSE t[i - 2]
    <3>1. /\ p \o t \in Seq(StepNames) /\ Len(p \o t) = Len(p) + Len(t) /\ Len(t) \in Nat
          /\ \A i \in 1 .. Len(p) + Len(t) :
               (p \o t)[i] = IF i <= Len(p) THEN p[i] ELSE t[i - Len(p)]
      BY <2>1, <2>2, ConcatProperties, LenProperties
    <3> QED BY <2>1, <3>1
  <2>5. Ordered(p \o t)
    <3> SUFFICES ASSUME NEW i \in 1 .. Len(p \o t)
                 PROVE  /\ (p \o t)[i] = "remove" =>
                             i = 1 \/ (p \o t)[i - 1] \in {"drop_wait", "wait_again"}
                        /\ (p \o t)[i] \in {"temp_drop", "drop", "remove"} =>
                             \A j \in i + 1 .. Len(p \o t) : (p \o t)[j] \in AfterRemove
      BY DEF Ordered
    <3>1. CASE i <= 2
      <4>1. i = 1 \/ i = 2 BY <2>4, <3>1
      <4> QED BY <2>1, <2>4, <4>1
    <3>2. CASE i > 2
      <4>1. i - 2 \in 1 .. Len(t) /\ (p \o t)[i] = t[i - 2] BY <2>4, <3>2
      <4>2. i = 3 => (p \o t)[i - 1] = "wait_again" BY <2>1, <2>4
      <4>3. i # 3 => (p \o t)[i - 1] = t[(i - 2) - 1] /\ i - 2 # 1 BY <2>4, <3>2
      <4>4. \A j \in i + 1 .. Len(p \o t) :
              (p \o t)[j] = t[j - 2] /\ j - 2 \in (i - 2) + 1 .. Len(t)
        BY <2>4, <3>2
      <4>5. (p \o t)[i] = "remove" => i = 1 \/ (p \o t)[i - 1] \in {"drop_wait", "wait_again"}
        BY <2>2, <4>1, <4>2, <4>3 DEF Ordered
      <4>6. (p \o t)[i] \in {"temp_drop", "drop", "remove"} =>
              \A j \in i + 1 .. Len(p \o t) : (p \o t)[j] \in AfterRemove
        BY <2>2, <4>1, <4>4 DEF Ordered
      <4> QED BY <4>5, <4>6
    <3> QED BY <2>4, <3>1, <3>2
  <2>6. (p \o t)[1] = "kill" /\ p \o t # <<>> BY <2>1, <2>4, EmptySeq
  <2>7. ~At("remove")'
    <3>1. Head(p \o t) = (p \o t)[1] BY <2>4, <2>6
    <3> QED BY <2>3, <2>6, <3>1 DEF At
  <2>8. Types' BY <1>1, <1>5, <2>3, <2>4, PollKnown DEF CInv, Types, Logs
  <2> QED BY <1>1, <1>2, <1>5, <2>3, <2>5, <2>7, <2>8, Kept DEF PmAlive
<1>6. CASE At("wait_again") /\ Done /\ kLog' = [kLog EXCEPT !.warned = TRUE]
  <2>1. kLog' \in Logs /\ kLog'.warned /\ kLog'.unseen = kLog.unseen
    BY <1>6 DEF CInv, Types, Logs
  <2>2. Types' BY <1>1, <1>6, <2>1, StepsLeft, PollKnown DEF CInv, Types, Done, NextStep
  <2> QED BY <1>1, <1>2, <1>6, <2>1, <2>2, StepsLeft, Kept DEF PmAlive, Done, NextStep
<1> QED BY <1>1, <1>3, <1>4, <1>5, <1>6 DEF WaitStopped, At

LEMMA StartStepKeeps == ASSUME CInv, StartStep PROVE CInv'
<1>1. /\ kSteps # <<>> /\ kSteps' = Tail(kSteps) /\ Head(kSteps) = "start" /\ kFile' = kFile
  BY DEF StartStep, At, Done, NextStep
<1>2. CASE DaemonRuns
  <2>1. kDaemon' = Polled /\ UNCHANGED <<kPm, kLog>> BY <1>2 DEF StartStep
  <2> QED BY <1>1, <2>1, DoneKeeps
<1>3. CASE ~DaemonRuns
  <2>1. /\ kPm' = [pid |-> kLog.started + 1, st |-> "starting"] /\ kDaemon' = kLog.started + 1
        /\ kLog' = [kLog EXCEPT !.started = @ + 1]
    BY <1>3 DEF StartStep
  <2>2. kLog.started + 1 \in Nat \ {0} /\ kLog' \in Logs BY <2>1 DEF CInv, Types, Logs
  <2>3. Types' BY <1>1, <2>1, <2>2, StepsLeft DEF CInv, Types, States
  <2>4. Seen' BY <2>1, <2>2 DEF Seen, Known
  <2>5. Ordered(kSteps') /\ ~At("remove")' BY <1>1, StepsLeft
  <2> QED BY <2>3, <2>4, <2>5 DEF CInv, Removing
<1> QED BY <1>2, <1>3

LEMMA WaitStartedKeeps == ASSUME CInv, WaitStarted PROVE CInv'
<1>1. /\ kSteps # <<>> /\ Head(kSteps) = "wait_started" /\ UNCHANGED <<kPm, kFile>>
      /\ kDaemon' = Polled
  BY DEF WaitStarted, At
<1>2. CASE Done /\ UNCHANGED kLog BY <1>1, <1>2, DoneKeeps DEF Done, NextStep
<1>3. CASE \E why \in Failures : Fails(why) BY <1>1, <1>3, FailKeeps
<1> QED BY <1>2, <1>3 DEF WaitStarted, Failures

LEMMA StillRunningKeeps == ASSUME CInv, StillRunning PROVE CInv'
<1>1. /\ kSteps # <<>> /\ Head(kSteps) = "check_stopped" /\ UNCHANGED <<kPm, kFile>>
      /\ kDaemon' = Polled
  BY DEF StillRunning, At
<1>2. CASE Done /\ UNCHANGED kLog BY <1>1, <1>2, DoneKeeps DEF Done, NextStep
<1>3. CASE Fails("not_stopped") BY <1>1, <1>3, FailKeeps DEF Failures
<1> QED BY <1>2, <1>3 DEF StillRunning

LEMMA InitStepKeeps == ASSUME CInv, InitStep PROVE CInv'
<1>1. /\ kSteps # <<>> /\ Head(kSteps) = "init" /\ UNCHANGED <<kPm, kFile, kDaemon>>
  BY DEF InitStep, At
<1>2. CASE Done /\ UNCHANGED kLog BY <1>1, <1>2, DoneKeeps DEF Done, NextStep
<1>3. CASE Fails("initdb") BY <1>1, <1>3, FailKeeps DEF Failures
<1> QED BY <1>2, <1>3 DEF InitStep

\* What drop() puts before the steps that are left.
LEMMA DropOrdered ==
    ASSUME NEW c \in Seq(StepNames), NEW t \in Seq(StepNames), OnlyAfterRemove(t),
           \/ Len(c) = 3 /\ c[1] = "shutdown" /\ c[2] = "drop_wait" /\ c[3] = "remove"
           \/ Len(c) = 1 /\ c[1] \in {"remove", "drop"}
           \/ Len(c) = 0
    PROVE  /\ c \o t \in Seq(StepNames) /\ Ordered(c \o t)
           /\ Len(c) # 0 => c \o t # <<>> /\ Head(c \o t) = c[1]
           /\ Len(c) = 0 => c \o t = t
<1>1. Ordered(c)
  <2>1. CASE Len(c) = 3 /\ c[1] = "shutdown" /\ c[2] = "drop_wait" /\ c[3] = "remove"
    <3>1. \A i \in 1 .. Len(c) : i = 1 \/ i = 2 \/ (i = 3 /\ i + 1 .. Len(c) = {})
      BY <2>1
    <3>2. \A i \in 1 .. Len(c) : c[i] \in {"temp_drop", "drop", "remove"} => i = 3
      BY <2>1, <3>1
    <3>3. \A i \in 1 .. Len(c) : i = 3 => c[i - 1] = "drop_wait" BY <2>1
    <3> QED BY <2>1, <3>1, <3>2, <3>3 DEF Ordered
  <2>2. CASE Len(c) = 1
    <3>1. \A i \in 1 .. Len(c) : i = 1 /\ i + 1 .. Len(c) = {} BY <2>2
    <3> QED BY <2>2, <3>1 DEF Ordered
  <2>3. CASE Len(c) = 0 BY <2>3, NoneOrdered
  <2> QED BY <2>1, <2>2, <2>3
<1>2. Len(c) # 0 => c \o t # <<>> /\ Head(c \o t) = c[1]
  <2> SUFFICES ASSUME Len(c) # 0 PROVE c \o t # <<>> /\ Head(c \o t) = c[1] OBVIOUS
  <2>1. /\ c \o t \in Seq(StepNames) /\ Len(c \o t) = Len(c) + Len(t)
        /\ \A i \in 1 .. Len(c) + Len(t) :
             (c \o t)[i] = IF i <= Len(c) THEN c[i] ELSE t[i - Len(c)]
    BY ConcatProperties
  <2>2. Len(c) \in Nat \ {0} /\ Len(t) \in Nat BY LenProperties
  <2>3. (c \o t)[1] = c[1] /\ Len(c \o t) # 0 BY <2>1, <2>2
  <2>4. c \o t # <<>> BY <2>3, EmptySeq
  <2> QED BY <2>1, <2>3, <2>4
<1>3. Len(c) = 0 => c \o t = t
  <2> SUFFICES ASSUME Len(c) = 0 PROVE c \o t = t OBVIOUS
  <2>1. c = <<>> BY EmptySeq
  <2> QED BY <2>1, ConcatEmptySeq
<1> QED BY <1>1, <1>2, <1>3, ConcatOrdered

\* drop() goes straight to the removal only when running() says that nothing runs.
LEMMA DropStepKeeps == ASSUME CInv, DropStep PROVE CInv'
<1> DEFINE c == (IF DaemonRuns THEN <<"shutdown", "drop_wait">> ELSE <<>>) \o <<"remove">>
           t == Tail(kSteps)
<1>1. /\ kSteps # <<>> /\ Head(kSteps) = "drop" /\ UNCHANGED <<kPm, kFile>>
      /\ kDaemon' = Polled /\ kLog' = [kLog EXCEPT !.warned = FALSE] /\ kSteps' = c \o t
  BY DEF DropStep, At, NextStep
<1>2. ~OnlyAfterRemove(kSteps) BY <1>1, HeadAfterRemove DEF AfterRemove
<1>3. t \in Seq(StepNames) /\ OnlyAfterRemove(t)
  <2>1. kSteps \in Seq(StepNames) /\ Ordered(kSteps) BY DEF CInv, Types
  <2>2. Head(kSteps) = kSteps[1] BY <1>1, <2>1
  <2> QED BY <1>1, <2>1, <2>2, TailOrdered
<1>4. kLog' \in Logs /\ kLog'.unseen = kLog.unseen BY <1>1 DEF CInv, Types, Logs
<1>5. DaemonRuns => /\ c \in Seq(StepNames) /\ Len(c) = 3
                    /\ c[1] = "shutdown" /\ c[2] = "drop_wait" /\ c[3] = "remove"
  BY DEF StepNames
<1>6. ~DaemonRuns => c \in Seq(StepNames) /\ Len(c) = 1 /\ c[1] = "remove"
  <2> SUFFICES ASSUME ~DaemonRuns PROVE c \in Seq(StepNames) /\ Len(c) = 1 /\ c[1] = "remove"
    OBVIOUS
  <2> DEFINE q == <<"remove">>
  <2>1. q \in Seq(StepNames) /\ Len(q) = 1 /\ q[1] = "remove" BY DEF StepNames
  <2>2. c = <<>> \o q OBVIOUS
  <2> HIDE DEF q, c
  <2>3. c = q BY <2>1, <2>2, ConcatEmptySeq
  <2> QED BY <2>1, <2>3
<1> HIDE DEF c, t
<1>7. kSteps' \in Seq(StepNames) /\ Ordered(kSteps') BY <1>1, <1>3, <1>5, <1>6, DropOrdered
<1>8. Types' BY <1>1, <1>4, <1>7, PollKnown DEF CInv, Types
<1>9. DaemonRuns => ~At("remove")'
  <2> SUFFICES ASSUME DaemonRuns PROVE ~At("remove")' OBVIOUS
  <2>1. Len(c) # 0 /\ c[1] = "shutdown" BY <1>5
  <2>2. c \o t # <<>> /\ Head(c \o t) = c[1] BY <1>3, <1>5, <2>1, DropOrdered
  <2>3. kSteps' # <<>> /\ Head(kSteps') = "shutdown" BY <1>1, <2>1, <2>2
  <2> QED BY <2>3 DEF At
<1>10. ~DaemonRuns => ~PmAlive \/ kLog.unseen
  BY <1>2 DEF CInv, Seen, Known, DaemonRuns, DaemonLives, Alive, Types
<1> QED BY <1>1, <1>2, <1>4, <1>7, <1>8, <1>9, <1>10, Kept DEF PmAlive

LEMMA RemoveStepKeeps == ASSUME CInv, RemoveStep PROVE CInv'
<1>1. /\ kSteps # <<>> /\ Head(kSteps) = "remove" /\ kSteps' = Tail(kSteps) /\ At("remove")
      /\ kFile' = 0 /\ UNCHANGED <<kPm, kDaemon, kLog>>
  BY DEF RemoveStep, At, Done, NextStep
<1>2. Ordered(kSteps') /\ OnlyAfterRemove(kSteps') /\ ~At("remove")' BY <1>1, StepsLeft
<1>3. Types' BY <1>1, StepsLeft DEF CInv, Types
<1>4. Seen' BY <1>1, <1>2 DEF CInv, Seen, Known, Removing, PmAlive
<1>5. Removing' BY <1>2 DEF Removing
<1> QED BY <1>2, <1>3, <1>4, <1>5 DEF CInv

LEMMA TempStepKeeps == ASSUME CInv, TempStep PROVE CInv'
<1>1. kSteps # <<>> /\ UNCHANGED <<kPm, kFile, kDaemon, kLog>> BY DEF TempStep, At
<1>2. CASE kSteps' = Tail(kSteps) /\ Head(kSteps) \in {"temp_set", "temp_unset"}
  BY <1>1, <1>2, DoneKeeps
<1>3. CASE At("temp_drop")
  <2> DEFINE c == IF kDir = "initialized" THEN <<"drop">> ELSE <<>>
             t == Tail(kSteps)
  <2>1. Head(kSteps) = "temp_drop" /\ kSteps' = c \o t
    BY <1>3 DEF TempStep, At, NextStep
  <2>2. ~OnlyAfterRemove(kSteps) BY <1>1, <2>1, HeadAfterRemove DEF AfterRemove
  <2>3. t \in Seq(StepNames) /\ OnlyAfterRemove(t)
    <3>1. kSteps \in Seq(StepNames) /\ Ordered(kSteps) BY DEF CInv, Types
    <3>2. Head(kSteps) = kSteps[1] BY <1>1, <3>1
    <3> QED BY <1>1, <2>1, <3>1, <3>2, TailOrdered
  <2>4. c \in Seq(StepNames) /\ ((Len(c) = 1 /\ c[1] = "drop") \/ Len(c) = 0)
    <3>1. CASE kDir = "initialized" BY <3>1 DEF StepNames
    <3>2. CASE kDir # "initialized"
      <4>1. c = <<>> BY <3>2
      <4> HIDE DEF c
      <4> QED BY <4>1, EmptySeq
    <3> QED BY <3>1, <3>2
  <2> HIDE DEF c, t
  <2>5. kSteps' \in Seq(StepNames) /\ Ordered(kSteps') BY <2>1, <2>3, <2>4, DropOrdered
  <2>6. ~At("remove")'
    <3>1. CASE Len(c) = 1
      <4>1. kSteps' # <<>> /\ Head(kSteps') = "drop" BY <2>1, <2>3, <2>4, <3>1, DropOrdered
      <4> QED BY <4>1 DEF At
    <3>2. CASE Len(c) = 0
      <4>1. kSteps' = Tail(kSteps) BY <2>1, <2>3, <2>4, <3>2, DropOrdered DEF t
      <4> QED BY <1>1, <2>1, <4>1, StepsLeft
    <3> QED BY <2>4, <3>1, <3>2
  <2>7. Types' BY <1>1, <2>5 DEF CInv, Types
  <2> QED BY <1>1, <2>2, <2>5, <2>6, <2>7, Kept DEF PmAlive
<1> QED BY <1>2, <1>3 DEF TempStep, At, Done, NextStep

\* A call of the program begins with a step that is no removal; the server that
\* it does not see is remembered.
LEMMA ClusterCallKeeps == ASSUME CInv, ClusterCall PROVE CInv'
<1>1. /\ kSteps' \in Seq(StepNames) /\ Ordered(kSteps') /\ kSteps'[1] # "remove"
      /\ kDaemon' \in {0, kDaemon} /\ UNCHANGED <<kPm, kFile>>
  BY OperationsOrdered, RestartOrdered, TempOrdered DEF ClusterCall, NextStep
<1>2. /\ kLog' \in Logs
      /\ kLog'.unseen = (kLog.unseen \/ (kDaemon' = 0 /\ kFile # kPm.pid /\ PmAlive))
  <2> DEFINE blind == kLog.unseen \/ (kDaemon' = 0 /\ kFile # kPm.pid /\ PmAlive)
             called == [kLog EXCEPT !.calls = @ + 1, !.failed = "no"]
  <2>1. kLog' = [called EXCEPT !.unseen = blind] BY DEF ClusterCall
  <2>2. called \in Logs /\ called.unseen = kLog.unseen
    <3> DEFINE counted == [kLog EXCEPT !.calls = @ + 1]
    <3>1. kLog \in Logs /\ "no" \in Failures BY DEF CInv, Types, Failures
    <3>2. counted \in Logs /\ counted.unseen = kLog.unseen BY <3>1 DEF Logs
    <3>3. called = [counted EXCEPT !.failed = "no"] BY <3>1 DEF Logs
    <3> HIDE DEF counted, called
    <3> QED BY <3>1, <3>2, <3>3 DEF Logs
  <2> HIDE DEF called
  <2>3. CASE blind
    <3>1. kLog' = [called EXCEPT !.unseen = TRUE] BY <2>1, <2>3
    <3>2. kLog' \in Logs /\ kLog'.unseen = TRUE BY <2>2, <3>1 DEF Logs
    <3> QED BY <2>3, <3>2
  <2>4. CASE ~blind
    <3>1. kLog' = [called EXCEPT !.unseen = FALSE] BY <2>1, <2>4
    <3>2. kLog' \in Logs /\ kLog'.unseen = FALSE BY <2>2, <3>1 DEF Logs
    <3> QED BY <2>4, <3>2
  <2> QED BY <2>3, <2>4
<1>3. Types' BY <1>1, <1>2 DEF CInv, Types
<1>4. Seen' BY <1>1, <1>2 DEF CInv, Seen, Known, PmAlive
<1>5. ~At("remove")'
  <2>1. kSteps' # <<>> => Head(kSteps') = kSteps'[1] BY <1>1
  <2> QED BY <1>1, <2>1 DEF At
<1> QED BY <1>1, <1>3, <1>4, <1>5 DEF CInv, Removing

\* The postmaster and its clients, a crash, and a pid that is given again.
LEMMA EnvironmentKeeps ==
    ASSUME CInv, PostmasterStarts \/ Clients \/ PostmasterEnds \/ Misfortune
    PROVE  CInv'
<1>1. /\ UNCHANGED <<kSteps, kDaemon>> /\ kLog' \in Logs
      /\ kLog'.unseen = kLog.unseen /\ kLog'.warned = kLog.warned
  BY DEF PostmasterStarts, Clients, PostmasterEnds, Misfortune, CInv, Types, Logs
<1>2. /\ kPm' \in [pid : Nat, st : States] /\ kFile' \in Nat
      /\ PmAlive' => PmAlive /\ kPm'.pid = kPm.pid /\ kFile' \in {kFile, kPm.pid}
  BY DEF PostmasterStarts, Clients, PostmasterEnds, Misfortune, CInv, Types, States, PmAlive
<1>3. Types' BY <1>1, <1>2 DEF CInv, Types
<1> QED BY <1>1, <1>2, <1>3, Kept DEF CInv

LEMMA NextKeepsCInv == CInv /\ [ControlNext]_controlVars => CInv'
<1> SUFFICES ASSUME CInv, [ControlNext]_controlVars PROVE CInv' OBVIOUS
<1>1. CASE UNCHANGED controlVars
  BY <1>1 DEF controlVars, CInv, Types, Seen, Known, Removing, PmAlive, At
<1>2. CASE ControlNext
  BY <1>2, ClusterCallKeeps, WaitStoppedKeeps, StartStepKeeps, WaitStartedKeeps,
     StillRunningKeeps, InitStepKeeps, DropStepKeeps, RemoveStepKeeps, TempStepKeeps,
     SignalStepKeeps, EnvironmentKeeps
  DEF ControlNext
<1> QED BY <1>1, <1>2

LEMMA CInvHolds == ControlSpec => []CInv
  BY InitCInv, NextKeepsCInv, PTL DEF ControlSpec

-----------------------------------------------------------------------------
Waits ==
  /\ StepReturns("wait") /\ ~kLog.unseen => ~PmAlive
  /\ StepReturns("wait_started") => kPm.st = "up"
  /\ StepReturns("remove") /\ ~kLog.unseen => ~PmAlive \/ kLog.warned

\* A step that returns is the one whose turn it is.
LEMMA StepsTrue == CInv /\ [ControlNext]_controlVars => [Waits]_controlVars
<1> SUFFICES ASSUME CInv, ControlNext PROVE Waits BY Zenon
<1>1. StepReturns("remove") /\ ~kLog.unseen => ~PmAlive \/ kLog.warned
  BY DEF StepReturns, CInv, Removing
<1>2. ASSUME StepReturns("wait") \/ StepReturns("wait_started")
      PROVE  WaitStopped \/ WaitStarted
  <2>1. kSteps # <<>> /\ kSteps' = Tail(kSteps) /\ Head(kSteps) \in {"wait", "wait_started"}
    BY <1>2 DEF StepReturns, At
  <2>2. kSteps' # kSteps
    <3>1. kSteps \in Seq(StepNames) BY DEF CInv, Types
    <3>2. Len(Tail(kSteps)) = Len(kSteps) - 1 /\ Len(kSteps) \in Nat
      BY <2>1, <3>1, HeadTailProperties, LenProperties
    <3>3. Len(Tail(kSteps)) # Len(kSteps) BY <3>2
    <3>4. Tail(kSteps) # kSteps BY <3>3
    <3> QED BY <2>1, <3>4
  <2> QED BY <2>1, <2>2
          DEF ControlNext, ClusterCall, StartStep, StillRunning, InitStep, DropStep, RemoveStep,
              TempStep, SignalStep, PostmasterStarts, Clients, PostmasterEnds, Misfortune, At
<1>3. StepReturns("wait") /\ ~kLog.unseen => ~PmAlive
  <2> SUFFICES ASSUME StepReturns("wait"), ~kLog.unseen PROVE ~PmAlive OBVIOUS
  <2>1. kSteps # <<>> /\ Head(kSteps) = "wait" /\ kLog'.failed = "no" BY DEF StepReturns, At
  <2>2. WaitStopped BY <1>2, <2>1 DEF WaitStarted, At
  <2>3. ~OnlyAfterRemove(kSteps) BY <2>1, HeadAfterRemove DEF AfterRemove
  <2>4. ~DaemonRuns
    BY <2>1, <2>2 DEF WaitStopped, At, Fails, CInv, Types, Logs
  <2> QED BY <2>3, <2>4 DEF CInv, Seen, Known, DaemonRuns, DaemonLives, Alive, Types
<1>4. StepReturns("wait_started") => kPm.st = "up"
  <2> SUFFICES ASSUME StepReturns("wait_started") PROVE kPm.st = "up" OBVIOUS
  <2>1. kSteps # <<>> /\ Head(kSteps) = "wait_started" /\ kLog'.failed = "no"
    BY DEF StepReturns, At
  <2>2. WaitStarted BY <1>2, <2>1 DEF WaitStopped, At
  <2> QED BY <2>1, <2>2 DEF WaitStarted, Fails, CInv, Types, Logs
<1> QED BY <1>1, <1>3, <1>4 DEF Waits

\* Whatever the pid file, a crash or a reused pid make of running(), for any number
\* of calls and postmasters: a wait for the stop returns without an exception only
\* when no postmaster lives, one for the start only when it is ready, and drop()
\* removes the directory of a living one only with a warning.
THEOREM WaitsAreTrueTheorem == ControlSpec => WaitsAreTrue
<1>1. CInv /\ [ControlNext]_controlVars => [Waits]_controlVars BY StepsTrue
<1> QED BY <1>1, CInvHolds, PTL DEF ControlSpec, WaitsAreTrue, Waits

=============================================================================
