------------------------------ MODULE PqScroll ------------------------------
(***************************************************************************)
(* A scrollable cursor (Cursor in driver/pq3.py): read, iteration, seek and   *)
(* the direction that turns them round.  MOVE and FETCH of the server are      *)
(* external; a position is the number of the row the server's cursor is on,     *)
(* 0 before the first and scRows + 1 behind the last.                           *)
(***************************************************************************)
EXTENDS Integers, Sequences

CONSTANTS
  MaxScroll,  \* bound: rows of the result
  Offsets     \* offsets given to seek

ASSUME ScrollBounds == MaxScroll \in Nat /\ Offsets \subseteq Int

VARIABLES
  scRows,    \* rows of the result
  scPos,     \* the server's position
  scDir,     \* Cursor.direction: TRUE is FORWARD
  scIdeal,   \* rows before the position in the direction of reading, for the properties
  scRead     \* the rows the last read returned

scrollVars == <<scRows, scPos, scDir, scIdeal, scRead>>

End == scRows + 1
Clamp(p) == IF p < 0 THEN 0 ELSE IF p > End THEN End ELSE p

\* MOVE of the server: one command, a pair of a word and a number.
Moved(p, cmd) ==
  CASE cmd[1] = "FORWARD"  -> Clamp(p + cmd[2])
    [] cmd[1] = "BACKWARD" -> Clamp(p - cmd[2])
    [] cmd[1] = "RELATIVE" -> Clamp(p + cmd[2])
    [] cmd[1] = "ABSOLUTE" -> IF cmd[2] < 0 THEN Clamp(End + cmd[2]) ELSE Clamp(cmd[2])
    [] cmd[1] = "LAST"     -> scRows
    [] cmd[1] = "NEXT"     -> Clamp(p + 1)

\* FETCH of the server: the rows passed, and the position behind.
FetchedTo(p, forward, q) == Clamp(IF forward THEN p + q ELSE p - q)
Passed(p, forward, q) ==
  SelectSeq([i \in 1..q |-> IF forward THEN p + i ELSE p - i], LAMBDA r : r \in 1..scRows)

\* Cursor._which_way: the direction asked for, relative to the cursor's.
WhichWay(asked) == IF asked = "same" THEN scDir ELSE (scDir = (asked = "forward"))

Reversed_not(o) == o
Reversed(o) == -o
\* Cursor.seek: offset and whence turned into the MOVE commands to send.
Turned(offset, whence) ==
  LET minus == offset < 0 /\ whence = "BACKWARD"
      o == IF minus THEN -offset ELSE offset
      w == IF minus THEN "FORWARD" ELSE whence
  IN IF scDir THEN <<w, o>>
     ELSE CASE w = "RELATIVE" -> <<w, Reversed(o)>>
            [] w = "ABSOLUTE" -> <<"FROM_END", o>>
            [] OTHER -> <<"ABSOLUTE", o>>
\* The MOVE commands of a seek: to count from the end, the cursor is first put
\* behind the last row.
Sought(p, t) ==
  CASE t[1] \in {"RELATIVE", "BACKWARD", "FORWARD"} ->
         IF t[2] < 0 THEN Moved(p, <<"BACKWARD", -t[2]>>) ELSE Moved(p, t)
    [] t[1] = "ABSOLUTE" -> Moved(p, t)
    [] t[1] = "FROM_END" ->
         Moved(Moved(Moved(p, <<"LAST", 0>>), <<"NEXT", 0>>), <<"BACKWARD", t[2]>>)
\* seek('ALL'): to one end, the one the cursor reads to unless whence names it.
AllCommand(whence) ==
  <<IF whence \in {"BACKWARD", "FORWARD"} THEN whence
    ELSE IF scDir THEN "FORWARD" ELSE "BACKWARD", End>>

Whences == {"ABSOLUTE", "RELATIVE", "FROM_END", "FORWARD", "BACKWARD"}
\* Where a reader going in the cursor's direction should be then.
Ideal(offset, whence) ==
  Clamp(CASE whence = "ABSOLUTE" -> offset [] whence = "FROM_END" -> End - offset
          [] whence \in {"RELATIVE", "FORWARD"} -> scIdeal + offset
          [] whence = "BACKWARD" -> scIdeal - offset)
Consumed(p, dir) == IF dir THEN p ELSE End - p
\* Turning round is documented for ABSOLUTE, RELATIVE and FROM_END; the code
\* turns FORWARD and BACKWARD into ABSOLUTE.
Documented(whence) == scDir \/ whence \in {"ABSOLUTE", "RELATIVE", "FROM_END"}

Declare ==
  /\ scRows = -1 /\ scRows' \in 0..MaxScroll
  /\ UNCHANGED <<scPos, scDir, scIdeal, scRead>>
Seek ==
  /\ scRows >= 0
  /\ \E offset \in Offsets, whence \in Whences :
       /\ scPos' = Sought(scPos, Turned(offset, whence))
       /\ scIdeal' = IF Documented(whence) /\ (offset >= 0 \/ whence \notin {"ABSOLUTE", "FROM_END"})
                     THEN Ideal(offset, whence) ELSE Consumed(scPos', scDir)
  /\ UNCHANGED <<scRows, scDir, scRead>>
SeekAll ==
  /\ scRows >= 0
  /\ \E whence \in Whences :
       /\ scPos' = Moved(scPos, AllCommand(whence))
       /\ scIdeal' = IF Documented(whence) THEN IF whence = "BACKWARD" THEN 0 ELSE End
                     ELSE Consumed(scPos', scDir)
  /\ UNCHANGED <<scRows, scDir, scRead>>
\* Cursor.read and __next__: FETCH of a quantity, or of all there is.
ReadSome ==
  /\ scRows >= 0
  /\ \E asked \in {"same", "forward", "backward"}, q \in {1, 2, End} :
       LET forward == WhichWay(asked)
       IN /\ scRead' = Passed(scPos, forward, q)
          /\ scPos' = FetchedTo(scPos, forward, q)
          /\ scIdeal' = Clamp(IF forward = scDir THEN scIdeal + q ELSE scIdeal - q)
  /\ UNCHANGED <<scRows, scDir>>
SetDirection ==
  /\ scRows >= 0
  /\ scDir' = ~scDir /\ scIdeal' = End - scIdeal
  /\ UNCHANGED <<scRows, scPos, scRead>>

ScrollInit == scRows = -1 /\ scPos = 0 /\ scDir = TRUE /\ scIdeal = 0 /\ scRead = <<>>
ScrollNext == Declare \/ Seek \/ SeekAll \/ ReadSome \/ SetDirection
ScrollSpec == ScrollInit /\ [][ScrollNext]_scrollVars

ScrollTypeOK == scRows >= 0 => scPos \in 0..End /\ scIdeal \in 0..End

\* A cursor that reads backward behaves as a forward one over the rows in
\* reverse, after any sequence of seeks, reads and turns (driver.rst, "the
\* result of any read or seek operation on those cursors is the same").
ReverseMirrors == scRows >= 0 => Consumed(scPos, scDir) = scIdeal
=============================================================================
