------------------------------ MODULE PqDbapi ------------------------------
(***************************************************************************)
(* The DB-API 2.0 layer of the driver (driver/dbapi20.py): a Cursor's stack of *)
(* Portals, which read rows out of chunks in three ways, and the Connection's  *)
(* _xact, the transaction that commit(), rollback() and autocommit replace.     *)
(* The chunks are those of pq3.MultiXactStream: a full one has asked for the     *)
(* next, in the block of that moment.                                             *)
(***************************************************************************)
EXTENDS Integers, Sequences, FiniteSets, SequencesExt

CONSTANTS
  DbChunk,     \* MultiXactStream.chunksize
  DbSizes,     \* bound: rows that a query may have
  DbPortals,   \* bound: portals on the stack
  DbUnits      \* bound: statements that change data

ASSUME DbBounds == DbChunk \in Nat \ {0} /\ DbSizes \subseteq Nat /\ {DbPortals, DbUnits} \subseteq Nat

VARIABLES
  dPortals,  \* Cursor.__portals, the current one first
  dPend,     \* the running request was refused and nobody has read that yet
  dXact,     \* Connection._xact: None, or its type and state
  dAstray,   \* _xact is not the block of the server: see Strays
  dBlock,    \* pq.state of the server: I, T or E
  dOpen,     \* changes of the open block
  dKept,     \* changes that are durable
  dTold      \* what the caller was told of each change

dbapiVars == <<dPortals, dPend, dXact, dAstray, dBlock, dOpen, dKept, dTold>>

NoTransaction == [type |-> "none", state |-> "none"]
AnyXact == [type : {"block", "savepoint"}, state : {"initialized", "open"}]

-----------------------------------------------------------------------------
(* Portal *)
NewPortal(n) ==
  [ n |-> n, at |-> 0, buf |-> <<>>, pos |-> 0, inside |-> dBlock = "T", gone |-> FALSE,
    req |-> "ok", out |-> <<>>, ended |-> FALSE, told |-> FALSE ]

\* The request that a full chunk sends: refused by a failed block, and when the
\* server has closed the portal with its block.
Asked(p) == IF dBlock = "E" \/ p.gone THEN "refused" ELSE "ok"
\* next(chunks), when its request was served.
Rows(p, k) == [i \in 1..k |-> p.at + i]
ChunkOf(p) == Rows(p, IF p.n - p.at < DbChunk THEN p.n - p.at ELSE DbChunk)
Pulled(p) == [ p EXCEPT !.at = @ + Len(ChunkOf(p)),
                        !.req = IF Len(ChunkOf(p)) = DbChunk THEN Asked(p) ELSE "none" ]
\* Chunks until `amount` rows are at hand, or no other request was served.
Filled(p, amount) ==
  LET left   == p.n - p.at
      short  == amount - (Len(p.buf) - p.pos)
      wanted == IF Asked(p) = "ok" THEN DbChunk * ((short + DbChunk - 1) \div DbChunk) ELSE DbChunk
      taken  == IF wanted < left THEN wanted ELSE left
  IN IF short <= 0 \/ p.req # "ok" THEN p
     ELSE [ p EXCEPT !.at = @ + taken, !.buf = @ \o Rows(p, taken),
                     !.req = IF taken = wanted THEN Asked(p) ELSE "none" ]

From(p) == SubSeq(p.buf, p.pos + 1, Len(p.buf))
Delivered(p, rows, ended) == [p EXCEPT !.out = @ \o rows, !.ended = @ \/ ended]
\* Asking for more raises what refused the request, once; then the chunks end.
RefusedOnce(p) == [p EXCEPT !.req = "none", !.told = TRUE]

\* __next__: the next row of buf, or of the next chunk.
Next1(p) ==
  LET q == IF p.pos < Len(p.buf) \/ p.req # "ok" THEN p
           ELSE [Pulled(p) EXCEPT !.buf = ChunkOf(p), !.pos = 0]
  IN IF q.pos < Len(q.buf)
     THEN [p |-> Delivered([q EXCEPT !.pos = @ + 1], <<q.buf[q.pos + 1]>>, FALSE), raised |-> FALSE]
     ELSE IF q.req = "refused" THEN [p |-> RefusedOnce(q), raised |-> TRUE]
     ELSE [p |-> Delivered(q, <<>>, TRUE), raised |-> FALSE]
\* read(amount): what was read before an exception stays in buf.
ReadRows(p, amount) ==
  LET q == Filled(p, amount)
      k == IF Len(From(q)) < amount THEN Len(From(q)) ELSE amount
  IN IF k < amount /\ q.req = "refused" THEN [p |-> RefusedOnce(q), raised |-> TRUE]
     ELSE [ p |-> Delivered([q EXCEPT !.buf = SubSeq(@, q.pos + k + 1, Len(@)), !.pos = 0],
                            SubSeq(From(q), 1, k), k < amount),
            raised |-> FALSE ]
\* readall(): the rows from pos on, and every chunk there is.
Trimmed_not(p) == [p EXCEPT !.pos = 0]
Trimmed(p) == [p EXCEPT !.buf = From(p), !.pos = 0]
ReadAllRows(p) ==
  LET q == Filled(Trimmed(p), p.n + 1)
  IN IF q.req = "refused" THEN [p |-> RefusedOnce(q), raised |-> TRUE]
     ELSE [p |-> Delivered([q EXCEPT !.buf = <<>>], q.buf, TRUE), raised |-> FALSE]

-----------------------------------------------------------------------------
(* What a statement does to the block, and what the connection was told *)
Spoilt(block) == IF block = "I" THEN "I" ELSE "E"
\* The next push completes the running request and raises its error to its caller;
\* the portal it belonged to ends without an exception.
RaisesPending ==
  /\ dPend /\ dPend' = FALSE /\ dBlock' = Spoilt(dBlock)
  /\ dPortals' = [ i \in DOMAIN dPortals |->
       IF dPortals[i].req = "refused" THEN RefusedOnce(dPortals[i]) ELSE dPortals[i] ]
  /\ UNCHANGED <<dXact, dAstray, dOpen, dKept, dTold>>
Tell(units, what) == dTold' = [u \in DOMAIN dTold |-> IF u \in units THEN what ELSE dTold[u]]
Told(what) == {u \in DOMAIN dTold : dTold[u] = what}
\* A block that ends takes its portals along.
Orphans(portals) == [i \in DOMAIN portals |-> [portals[i] EXCEPT !.gone = @ \/ portals[i].inside]]

\* Cursor.fetchone, __next__, fetchmany and fetchall on the current portal.
Fetches(p) == {Next1(p), ReadAllRows(p)} \cup {ReadRows(p, k) : k \in 1..DbChunk + 1}
Fetch ==
  /\ dPortals # <<>>
  /\ LET p == dPortals[1]
         own == p.req = "refused"
         clash == dPend /\ ~own /\ p.req = "ok" /\ Len(ChunkOf(p)) = DbChunk
     IN \E r \in Fetches(p) :
          \/ /\ ~clash \/ r.p.at = p.at
             /\ dPortals' = [dPortals EXCEPT ![1] = r.p]
             /\ dPend' = (r.p.req = "refused" \/ (dPend /\ ~own))
             /\ dBlock' = IF r.raised THEN Spoilt(dBlock) ELSE dBlock
          \* The push of the next request meets the error of another portal's: it
          \* is raised, and the chunk just taken is lost.
          \/ /\ clash /\ r.p.at # p.at
             /\ dPortals' = [ i \in DOMAIN dPortals |->
                  IF i = 1 THEN RefusedOnce([p EXCEPT !.at = @ + DbChunk])
                  ELSE IF dPortals[i].req = "refused" THEN RefusedOnce(dPortals[i]) ELSE dPortals[i] ]
             /\ dPend' = FALSE /\ dBlock' = Spoilt(dBlock)
  /\ UNCHANGED <<dXact, dAstray, dOpen, dKept, dTold>>

NextSet ==
  /\ dPortals # <<>> /\ dPortals' = Tail(dPortals)
  /\ UNCHANGED <<dPend, dXact, dAstray, dBlock, dOpen, dKept, dTold>>

\* Cursor.execute: a query adds its portal, anything else drops the current one.
\* A statement that fails leaves the stack as it was.
Execute ==
  \/ RaisesPending
  \/ /\ ~dPend
     /\ \/ /\ dBlock # "E" /\ Len(dPortals) < DbPortals
           /\ \E n \in DbSizes : dPortals' = <<NewPortal(n)>> \o dPortals
           /\ UNCHANGED <<dBlock, dOpen, dKept, dTold>>
        \/ /\ dBlock # "E" /\ Told("none") # {}
           /\ dPortals' = IF dPortals = <<>> THEN <<>> ELSE Tail(dPortals)
           /\ LET u == CHOOSE v \in Told("none") : \A w \in Told("none") : v <= w
              IN /\ dOpen' = IF dBlock = "T" THEN dOpen \cup {u} ELSE dOpen
                 /\ dKept' = IF dBlock = "I" THEN dKept \cup {u} ELSE dKept
                 /\ Tell({u}, CASE dAstray -> "loose" [] ~dAstray /\ dXact = NoTransaction -> "kept"
                                [] OTHER -> "pending")
           /\ UNCHANGED dBlock
        \/ dBlock' = Spoilt(dBlock) /\ UNCHANGED <<dPortals, dOpen, dKept, dTold>>
     /\ UNCHANGED <<dPend, dXact, dAstray>>

-----------------------------------------------------------------------------
(* Connection *)
\* xact().start(): a block, or a savepoint inside one; in a failed block it raises.
Started(block) ==
  CASE block = "I" -> [type |-> "block", state |-> "open"]
    [] block = "T" -> [type |-> "savepoint", state |-> "open"]
    [] block = "E" -> [type |-> "savepoint", state |-> "initialized"]
\* _xact leads away from the server's block: connect() on an open connection
\* (Connection.__enter__ is connect(), so `with connect(...) as c` does it), and a
\* COMMIT that the server refused, which has ended the block.
Strays == dAstray' = TRUE

\* The transaction ends on the server, and a new one takes its place.
Replaced(kept) ==
  /\ dBlock' = "T" /\ dXact' = [type |-> "block", state |-> "open"] /\ dAstray' = FALSE
  /\ dKept' = IF kept THEN dKept \cup dOpen ELSE dKept
  /\ dOpen' = {} /\ dPortals' = Orphans(dPortals)
InSavepoint == dXact.type = "savepoint" /\ dXact.state = "open"

\* COMMIT in a failed block is a rollback and no error; a deferred constraint may
\* refuse it.
Commit ==
  /\ dXact.state = "open"
  /\ \/ RaisesPending
     \/ /\ ~dPend /\ ~InSavepoint
        /\ Replaced(dBlock = "T")
        /\ Tell(Told("pending"), IF dBlock = "E" THEN "loose" ELSE "kept") /\ UNCHANGED dPend
     \/ /\ ~dPend /\ ~InSavepoint /\ dBlock = "T"
        /\ Strays /\ Tell(Told("pending"), "undone")
        /\ dBlock' = "I" /\ dOpen' = {} /\ dPortals' = Orphans(dPortals)
        /\ UNCHANGED <<dPend, dXact, dKept>>
     \/ ~dPend /\ InSavepoint /\ UNCHANGED dbapiVars  \* RELEASE, SAVEPOINT
Rollback ==
  /\ dXact.state = "open"
  /\ \/ RaisesPending
     \/ /\ ~dPend /\ ~InSavepoint
        /\ Replaced(FALSE) /\ Tell(Told("pending"), "undone") /\ UNCHANGED dPend
     \/ /\ ~dPend /\ InSavepoint /\ dBlock' = "T"     \* ROLLBACK TO, RELEASE, SAVEPOINT
        /\ UNCHANGED <<dPortals, dPend, dXact, dAstray, dOpen, dKept, dTold>>

\* autocommit = True rolls the transaction back first; False starts one.
TurnedOn_unended == FALSE
TurnedOn == TRUE
AutocommitOn ==
  /\ dXact.state = "open"
  /\ \/ RaisesPending
     \/ /\ ~dPend /\ ~InSavepoint /\ dXact' = NoTransaction /\ dAstray' = FALSE
        /\ Tell(Told("pending"), "undone")
        /\ IF TurnedOn
           THEN dBlock' = "I" /\ dOpen' = {} /\ dPortals' = Orphans(dPortals)
           ELSE UNCHANGED <<dBlock, dOpen, dPortals>>
        /\ UNCHANGED <<dPend, dKept>>
     \* only the savepoint is rolled back: "autocommit", and the block is open
     \/ /\ ~dPend /\ InSavepoint /\ dXact' = NoTransaction /\ dBlock' = "T"
        /\ UNCHANGED <<dPortals, dPend, dAstray, dOpen, dKept, dTold>>
AutocommitOff ==
  /\ dXact = NoTransaction
  /\ \/ RaisesPending
     \/ /\ ~dPend /\ dXact' = Started(dBlock) /\ dBlock' = (IF dBlock = "I" THEN "T" ELSE dBlock)
        /\ UNCHANGED <<dPortals, dPend, dAstray, dOpen, dKept, dTold>>

\* connect() again: the driver's returns at once, and _xact is started anew.
Reconnect ==
  /\ ~dPend /\ ~dAstray
  /\ dXact' = Started(dBlock) /\ dBlock' = (IF dBlock = "I" THEN "T" ELSE dBlock)
  /\ IF dBlock = "I" THEN UNCHANGED dAstray ELSE Strays
  /\ Tell(IF dBlock = "I" THEN {} ELSE Told("pending"), "loose")
  /\ UNCHANGED <<dPortals, dPend, dOpen, dKept>>

DbapiInit ==
  /\ dPortals = <<>> /\ dPend = FALSE /\ dAstray = FALSE
  /\ dXact = [type |-> "block", state |-> "open"] /\ dBlock = "T"
  /\ dOpen = {} /\ dKept = {} /\ dTold = [u \in 1..DbUnits |-> "none"]
DbapiNext ==
  Fetch \/ NextSet \/ Execute \/ Commit \/ Rollback \/ AutocommitOn \/ AutocommitOff \/ Reconnect
DbapiSpec == DbapiInit /\ [][DbapiNext]_dbapiVars

DbapiTypeOK ==
  /\ dXact \in AnyXact \cup {NoTransaction} /\ dBlock \in {"I", "T", "E"}
  /\ dPend \in BOOLEAN /\ dAstray \in BOOLEAN
  /\ dOpen \subseteq 1..DbUnits /\ dKept \subseteq 1..DbUnits \ dOpen
  /\ \A i \in DOMAIN dPortals : dPortals[i].pos <= Len(dPortals[i].buf) /\ dPortals[i].at <= dPortals[i].n

\* Any mix of fetchone, fetchmany and fetchall gives the rows of a statement in
\* order and once, across the chunks, across an exception and across commit(); a
\* portal that ends has given all of them, unless an error came of it.
FetchesDeliver ==
  \A i \in DOMAIN dPortals :
    LET p == dPortals[i]
    IN /\ p.out = [k \in 1..Len(p.out) |-> k] /\ Len(p.out) <= p.n
       /\ p.ended /\ ~p.told => Len(p.out) = p.n

\* What the caller was told of a change is what became of it: commit() returned
\* and it is durable, rollback() or a failed commit() and it is not, and until then it
\* is in the block.  A commit() that answered for a failed block, and a connection
\* that went astray, promise nothing.
ChangesAsTold ==
  /\ Told("kept") \subseteq dKept
  /\ Told("undone") \cap (dKept \cup dOpen) = {}
  /\ ~dAstray => Told("pending") \subseteq dOpen
=============================================================================
