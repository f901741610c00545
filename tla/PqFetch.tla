------------------------------ MODULE PqFetch ------------------------------
(***************************************************************************)
(* Rows streamed over one connection by several cursors and a load at the    *)
(* same time (driver/pq3.py): FetchAll, MultiXactStream inside and outside a  *)
(* block, Statement.chunks, _load_tuple_chunks, and what _pq_push and         *)
(* _pq_complete do with the transaction another caller left running.  The      *)
(* calls interleave in one thread: a cursor is read while another is, or from   *)
(* the generator that feeds a load.  The server's replies are external.         *)
(***************************************************************************)
EXTENDS Integers, Sequences, FiniteSets, SequencesExt

CONSTANTS
  ChunkSize,   \* MultiXactStream.chunksize
  MaxResult,   \* bound: rows of a query
  MaxChunks,   \* bound: chunks of the load
  MaxOthers    \* bound: other statements executed

ASSUME FetchBounds ==
  ChunkSize \in Nat \ {0} /\ MaxResult \in Nat /\ MaxChunks \in Nat /\ MaxOthers \in Nat

VARIABLES
  fPq,     \* whose protocol transaction pq.xact is: a cursor, Loader or 0
  fX,      \* the last transaction of each cursor and of the load
  fCur,    \* the cursors: kind, status, query, portal, rows delivered
  fBlock,  \* pq.state: I, T or E
  fLoad,   \* the load: chunks, the one the server refuses, the one not packed
  fTable,  \* chunks the server has stored
  fLog     \* who was told of an owner's error, other statements executed

fetchVars == <<fPq, fX, fCur, fBlock, fLoad, fTable, fLog>>

Cursors == 1..2
Loader == 3
\* Messages: a row is its number.
Err == -1
Cmp == -2
Rdy == 0
Row(m) == m > 0

\* An Instruction: messages to come, chunks received and not yet taken.
Xact(left) == [left |-> left, got |-> <<>>, err |-> FALSE, done |-> FALSE]
NoX == [Xact(<<>>) EXCEPT !.done = TRUE]
StepX(x, k) ==
  LET part == SubSeq(x.left, 1, k)
  IN [ left |-> SubSeq(x.left, k + 1, Len(x.left)), got |-> Append(x.got, part),
       err |-> x.err \/ Err \in ToSet(part), done |-> k = Len(x.left) ]
CompleteX(x) == IF x.done THEN x ELSE StepX(x, Len(x.left))
\* messages_received, reduced to its rows
RowsIn(chunk) ==
  LET upTo[i \in 0..Len(chunk)] == IF i = 0 THEN <<>>
                                   ELSE IF Row(chunk[i]) THEN Append(upTo[i - 1], chunk[i])
                                   ELSE upTo[i - 1]
  IN upTo[Len(chunk)]
Received(x) == RowsIn(FlattenSeq(x.got))

\* The server's reply to executing query q from row p.
UpTo(a, b) == [i \in 1..(b - a + 1) |-> a + i - 1]
RowsReply(q, p, limit, refused) ==
  LET hi == IF p + limit < q.n THEN p + limit ELSE q.n
  IN IF refused THEN <<Err, Rdy>>
     ELSE IF q.e \in (p + 1)..hi THEN UpTo(p + 1, q.e - 1) \o <<Err, Rdy>>
     ELSE UpTo(p + 1, hi) \o <<Cmp, Rdy>>

\* _pq_push and _pq_complete finish the running transaction, whoever owns it.
Completed == IF fPq = 0 THEN fX ELSE [fX EXCEPT ![fPq] = CompleteX(@)]
PrevErr_ignored == FALSE
PrevErr == fPq # 0 /\ CompleteX(fX[fPq]).err
Failing(err) == IF err /\ fBlock = "T" THEN "E" ELSE fBlock
\* What a transaction that ends does to the table of the load.
Stored(xs) ==
  IF fPq = Loader /\ ~xs[Loader].err THEN fTable \cup {fLoad.i - 1} ELSE fTable
\* The error is raised to caller o, and nothing of o's is pushed.
RaisePrevious(o) ==
  /\ PrevErr
  /\ fX' = Completed /\ fPq' = 0 /\ fBlock' = Failing(TRUE)
  /\ fTable' = fTable
  /\ fLog' = [fLog EXCEPT !.told[fPq] = IF @ # "no" THEN @ ELSE IF fPq = o THEN "self" ELSE "other"]
\* o's new transaction is pushed.
Pushes(o, x) ==
  /\ ~PrevErr
  /\ fX' = [Completed EXCEPT ![o] = x] /\ fPq' = o
  /\ fTable' = Stored(Completed)
  /\ UNCHANGED <<fBlock, fLog>>

\* Statement.chunks and __call__: the cursor class by the state and the statement.
KindOf(hasRows, state, known) ==
  IF ~hasRows THEN "all"
  ELSE IF state = "I" THEN IF known THEN "outside" ELSE "all" ELSE "inside"
\* The first request of each class: all rows, or the first chunk.  DECLARE ...
\* WITH HOLD outside a block runs the whole query at once.
First(kind, q) ==
  LET refused == fBlock = "E"
  IN CASE kind = "all" -> RowsReply(q, 0, q.n + 1, refused)
       [] kind = "outside" -> RowsReply(q, 0, ChunkSize, refused \/ q.e > 0)
       [] kind = "inside" -> RowsReply(q, 0, ChunkSize, refused)

\* A cursor of this kind gets its first transaction.  FetchAll._init steps until the
\* first data message or the end.
Opened(c, kind, q) ==
  LET x == Xact(First(kind, q))
  IN \E k \in 1..Len(x.left) :
       LET y == IF kind = "all" THEN StepX(x, k) ELSE x
           fails == y.err /\ y.done
       IN /\ IF kind = "all" THEN Received(y) # <<>> \/ y.done ELSE k = 1
          /\ fX' = [Completed EXCEPT ![c] = y]
          /\ fPq' = IF y.done THEN 0 ELSE c
          /\ fBlock' = Failing(fails)
          /\ fTable' = Stored(Completed)
          /\ fCur' = [fCur EXCEPT ![c] =
               [ @ EXCEPT !.kind = kind, !.query = q, !.pos = ChunkSize,
                          !.status = IF fails THEN "raised" ELSE "open" ]]
          /\ fLog' = [fLog EXCEPT !.told[c] = IF fails THEN "self" ELSE @]
\* A cursor is made.  Bound: a query fails at its last row or not at all, and the
\* second cursor is not used together with the load.
Open(c) ==
  /\ fCur[c].status = "new" /\ (c = 2 => fLoad.status = "new")
  /\ \E n \in 0..MaxResult, hasRows \in BOOLEAN, known \in BOOLEAN :
     \E e \in {0, n} :
       /\ hasRows \/ known
       /\ IF PrevErr THEN RaisePrevious(c) /\ UNCHANGED fCur
          ELSE Opened(c, KindOf(hasRows, fBlock, known), [n |-> n, e |-> e])
  /\ UNCHANGED fLoad

Ends(c) == fCur' = [fCur EXCEPT ![c].status = "ended"]
CursorRaises(c) ==
  /\ fCur' = [fCur EXCEPT ![c].status = "raised"]
  /\ fLog' = [fLog EXCEPT !.told[c] = IF @ = "no" THEN "self" ELSE @]
Delivers(c, rows) == fCur' = [fCur EXCEPT ![c].out = @ \o rows]

\* FetchAll.__next__: step until a chunk is there or the transaction complete.  An
\* error is raised as soon as it was read; when Ready comes in a later chunk the
\* transaction still runs, and the next push raises the same error again.
StepAll(c) ==
  /\ fCur[c].kind = "all" /\ fCur[c].status = "open"
  /\ fX[c].got = <<>> /\ ~fX[c].done
  /\ \E k \in 1..Len(fX[c].left) :
       LET y == StepX(fX[c], k)
       IN /\ fX' = [fX EXCEPT ![c] = y]
          /\ fPq' = IF y.done THEN 0 ELSE fPq
          /\ fBlock' = Failing(y.err /\ y.done)
  /\ UNCHANGED <<fCur, fLoad, fTable, fLog>>
TakeChunk(x) == [x EXCEPT !.got = Tail(@)]
NextAll(c) ==
  /\ fCur[c].kind = "all" /\ fCur[c].status = "open"
  /\ fX[c].got # <<>> \/ fX[c].done
  /\ CASE fX[c].err -> CursorRaises(c) /\ UNCHANGED fX
       [] ~fX[c].err /\ fX[c].got = <<>> -> Ends(c) /\ UNCHANGED <<fX, fLog>>
       [] OTHER -> /\ Delivers(c, RowsIn(Head(fX[c].got)))
                   /\ fX' = [fX EXCEPT ![c] = TakeChunk(@)] /\ UNCHANGED fLog
  /\ UNCHANGED <<fPq, fBlock, fLoad, fTable>>

\* MultiXactStream.__next__: the running request is completed; a full chunk
\* sends the next request, any other is the last.
More_strictly(rows) == Len(rows) > ChunkSize
More(rows) == Len(rows) = ChunkSize
NextRequest(c) ==
  LET cur == fCur[c]
      refused == fBlock = "E" \/ (cur.kind = "inside" /\ cur.gone)
  IN Xact(RowsReply(cur.query, cur.pos, ChunkSize, refused))
NextStream(c) ==
  /\ fCur[c].kind \in {"inside", "outside"} /\ fCur[c].status = "open"
  /\ LET own  == fPq = c
         x    == CompleteX(fX[c])
         rows == Received(x)
     IN CASE own /\ x.err -> /\ fCur' = [fCur EXCEPT ![c].status = "raised"] /\ RaisePrevious(c)
          [] ~(own /\ x.err) /\ ~More(rows) ->
               /\ fCur' = [fCur EXCEPT ![c].out = @ \o rows, ![c].status = "ended"]
               /\ fX' = IF own THEN Completed ELSE fX
               /\ fPq' = IF own THEN 0 ELSE fPq
               /\ UNCHANGED <<fBlock, fTable, fLog>>
          [] ~(own /\ x.err) /\ More(rows) ->
               IF ~own /\ PrevErr
               THEN fCur' = [fCur EXCEPT ![c].status = "raised"] /\ RaisePrevious(c)
               ELSE /\ Pushes(c, NextRequest(c))
                    /\ fCur' = [fCur EXCEPT ![c].out = @ \o rows, ![c].pos = @ + ChunkSize]
  /\ UNCHANGED fLoad

\* Connection.execute of something else: a statement, or the begin or end of a
\* block, which takes the portals of the block with it.
Other ==
  /\ fLog.others < MaxOthers
  /\ \E what \in {"query", "bad", "begin", "end"} :
       /\ what \in {"begin", "end"} => fLoad.status # "loading"
       /\ what = "begin" => fBlock = "I"
       /\ what = "end" => fBlock # "I"
       /\ IF PrevErr THEN RaisePrevious(0) /\ UNCHANGED fCur
          ELSE /\ fX' = Completed /\ fPq' = 0 /\ fTable' = Stored(Completed)
               /\ fBlock' = CASE what = "begin" -> "T" [] what = "end" -> "I"
                              [] what = "bad" -> Failing(TRUE) [] OTHER -> fBlock
               /\ fCur' = IF what = "end"
                          THEN [c \in Cursors |-> [fCur[c] EXCEPT !.gone = @ \/ fCur[c].status = "open"]]
                          ELSE fCur
               /\ fLog' = [fLog EXCEPT !.others = @ + 1]
  /\ UNCHANGED fLoad

\* _load_tuple_chunks: every chunk of rows is a transaction with its own Sync;
\* pushing one completes the one before.
StartLoad ==
  /\ fLoad.status = "new" /\ fBlock = "I" /\ fCur[2].status = "new"
  /\ \E n \in 1..MaxChunks : \E bad \in 0..n, unpacked \in 0..n :
       fLoad' = [fLoad EXCEPT !.status = "loading", !.n = n, !.bad = bad, !.unpacked = unpacked]
  /\ UNCHANGED <<fPq, fX, fCur, fBlock, fTable, fLog>>
LoadFails == fLoad' = [fLoad EXCEPT !.status = "raised"]
LoadChunk ==
  /\ fLoad.status = "loading" /\ fLoad.i <= fLoad.n /\ fLoad.i # fLoad.unpacked
  /\ \/ PrevErr /\ RaisePrevious(Loader) /\ LoadFails
     \/ /\ Pushes(Loader, Xact(IF fLoad.i = fLoad.bad THEN <<Err, Rdy>> ELSE <<Cmp, Rdy>>))
        /\ fLoad' = [fLoad EXCEPT !.i = @ + 1]
  /\ UNCHANGED fCur
\* A row that cannot be packed: synchronize() completes what runs, its error is
\* dropped, and the packing error is raised.
LoadUnpacked ==
  /\ fLoad.status = "loading" /\ fLoad.i = fLoad.unpacked
  /\ fX' = Completed /\ fPq' = 0 /\ fTable' = Stored(Completed) /\ fBlock' = Failing(PrevErr)
  /\ fLog' = IF PrevErr /\ fPq # Loader THEN [fLog EXCEPT !.told[fPq] = "dropped"] ELSE fLog
  /\ LoadFails /\ UNCHANGED fCur
LastErr_unseen == FALSE
LastErr == PrevErr
LoadEnds ==
  /\ fLoad.status = "loading" /\ fLoad.i > fLoad.n
  /\ \/ LastErr /\ RaisePrevious(Loader) /\ LoadFails
     \/ /\ ~LastErr /\ fX' = Completed /\ fPq' = 0 /\ fTable' = Stored(Completed)
        /\ fLoad' = [fLoad EXCEPT !.status = "ended"]
        /\ UNCHANGED <<fBlock, fLog>>
  /\ UNCHANGED fCur

FetchInit ==
  /\ fPq = 0 /\ fX = [o \in 1..3 |-> NoX]
  /\ fCur = [c \in Cursors |-> [ kind |-> "none", status |-> "new", query |-> [n |-> 0, e |-> 0],
                                 pos |-> 0, gone |-> FALSE, out |-> <<>> ]]
  /\ fBlock = "I" /\ fTable = {}
  /\ fLoad = [status |-> "new", n |-> 0, i |-> 1, bad |-> 0, unpacked |-> 0]
  /\ fLog = [told |-> [o \in 1..3 |-> "no"], others |-> 0]
FetchNext ==
  \/ \E c \in Cursors : Open(c) \/ StepAll(c) \/ NextAll(c) \/ NextStream(c)
  \/ Other \/ StartLoad \/ LoadChunk \/ LoadUnpacked \/ LoadEnds
FetchSpec == FetchInit /\ [][FetchNext]_fetchVars

FetchTypeOK ==
  /\ fPq \in 0..3 /\ fBlock \in {"I", "T", "E"}
  /\ \A o \in 1..3 : fX[o].done => fX[o].left = <<>>
  /\ fTable \subseteq 1..MaxChunks

\* Every cursor delivers the rows of its query in order and once, whatever runs
\* on the connection between two calls; one that ends without an exception has
\* delivered all of them, unless its error was raised to the caller whose statement
\* completed it.  A load that ends has stored every chunk, one that fails a prefix
\* of them.
CursorsDeliver ==
  /\ \A c \in Cursors :
       LET cur == fCur[c]
       IN /\ cur.out = UpTo(1, Len(cur.out)) /\ Len(cur.out) <= cur.query.n
          /\ cur.status = "ended" => Len(cur.out) = cur.query.n \/ fLog.told[c] \in {"other", "dropped"}
  /\ LET through == fTable = 1..Cardinality(fTable)
     IN /\ fLoad.status = "ended" /\ fLog.told[Loader] # "other" => fTable = 1..fLoad.n
        /\ fLog.told[Loader] # "other" => through
=============================================================================
