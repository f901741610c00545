----------------------------- MODULE PqFrames -----------------------------
(***************************************************************************)
(* The buffer between the socket and the protocol transaction: bytes come in   *)
(* pieces of any size, messages go out whole.  There are two implementations,   *)
(* protocol/pbuffer.py (one byte string and a position) and _optimized/buffer.c  *)
(* (a list of the pieces and a place in it), and protocol/buffer.py takes          *)
(* whichever was built.  Both get the same calls here.                               *)
(***************************************************************************)
EXTENDS Integers, Sequences, SequencesExt, FiniteSetsExt

CONSTANTS
  Bodies,      \* the sizes of the bodies of the messages that arrive, in order
  Pieces,      \* the sizes in which recv() returns them
  FrameLimit   \* pq_message_stream._limit, scaled down

ASSUME FrameBounds == Bodies \in Seq(Nat) /\ Pieces \subseteq Nat \ {0} /\ FrameLimit \in Nat

VARIABLES
  wIn,     \* bytes received so far
  wPy,     \* pbuffer: _strio and _start
  wC,      \* buffer.c: position.list and position.offset
  wOut     \* the messages each of them has returned

framesVars == <<wIn, wPy, wC, wOut>>

-----------------------------------------------------------------------------
(* The stream.  A byte is its place in it; five bytes head a message. *)
Header == 5
FrameStart[i \in 1..Len(Bodies) + 1] == IF i = 1 THEN 0 ELSE FrameStart[i - 1] + Header + Bodies[i - 1]
StreamSize == FrameStart[Len(Bodies) + 1]
UpFrom(a, n) == [j \in 1..n |-> a + j]
\* xl_unpack of a header: the size of the body, or nonsense when the five bytes are
\* not the head of a message.
BodySize(head) ==
  LET here == {i \in 1..Len(Bodies) : head = UpFrom(FrameStart[i], Header)}
  IN IF here = {} THEN -1 ELSE Bodies[CHOOSE i \in here : TRUE]
NoMessage == <<>>
FrameOf(head, body) == <<head[1], body>>
Least(a, b) == IF a < b THEN a ELSE b
Cut(s, n) == SubSeq(s, 1, Least(n, Len(s)))
Rest(s, n) == SubSeq(s, n + 1, Len(s))

-----------------------------------------------------------------------------
(* pbuffer.py *)
\* _get_message at the position: the message and where it ends.
GetMessage(io, at) ==
  LET head == Cut(Rest(io, at), Header)
      size == BodySize(head)
      body == Cut(Rest(io, at + Header), size)
  IN IF Len(head) < Header \/ size < 0 \/ Len(body) < size
     THEN [msg |-> NoMessage, at |-> at]
     ELSE [msg |-> FrameOf(head, body), at |-> at + Header + size]
\* What was read is cut off, with _rtruncate, only once it is more than the limit.
Compacted_kept(b) == IF b.start > FrameLimit THEN [b EXCEPT !.io = Rest(@, b.start)] ELSE b
Compacted(b) == IF b.start > FrameLimit THEN [io |-> Rest(b.io, b.start), start |-> 0] ELSE b
\* The loop of read(): one turn of it, and all of them. A turn without a message
\* changes nothing, so that it stands for leaving the loop.
GetNext(io, r) ==
  LET got == GetMessage(io, r.at)
  IN IF got.msg = NoMessage THEN r ELSE [msgs |-> Append(r.msgs, got.msg), at |-> got.at]
ReadFrom(io, at, num) ==
  LET read[i \in 0..num] ==
        IF i = 0 THEN [msgs |-> <<>>, at |-> at] ELSE GetNext(io, read[i - 1])
  IN read[num]
\* read(num); next_message() and __next__() are its case of one message.
PyRead(b, num) ==
  LET c == Compacted(b)
      r == ReadFrom(c.io, c.start, num)
  IN [msgs |-> r.msgs, b |-> [c EXCEPT !.start = r.at]]
PyHas(b) == GetMessage(b.io, b.start).msg # NoMessage
\* __len__ does not move the position.
PyLength(b) == Len(ReadFrom(b.io, b.start, Len(Bodies)).msgs)
PyValue(b) == Rest(b.io, b.start)

-----------------------------------------------------------------------------
(* buffer.c *)
\* The bytes from a place on.
FlatFrom(p) == Rest(FlattenSeq(p.list), p.offset)
MemCpy(p, n) == Cut(FlatFrom(p), n)
AtLeast_whole(p, n) == Len(FlattenSeq(p.list)) >= n
AtLeast(p, n) == Len(FlatFrom(p)) >= n
\* p_seek: a place is never behind the last byte of its piece.
SeekPiece(t) ==
  LET left == Len(Head(t.p.list)) - t.p.offset
  IN IF t.n = 0 \/ t.p.list = <<>> THEN t
     ELSE IF t.n < left THEN [p |-> [t.p EXCEPT !.offset = @ + t.n], n |-> 0]
     ELSE [p |-> [list |-> Tail(t.p.list), offset |-> 0], n |-> t.n - left]
SeekTo(p, n) ==
  LET seek[i \in 0..Len(p.list)] == IF i = 0 THEN [p |-> p, n |-> n] ELSE SeekPiece(seek[i - 1])
  IN seek[Len(p.list)].p
SeekPlace(p, n) == IF p.list # <<>> /\ p.offset = Len(Head(p.list)) THEN p ELSE SeekTo(p, n)
\* p_build_tuple: the message and the place behind it.
BuildTuple(p) ==
  LET head == MemCpy(p, Header)
      size == BodySize(head)
      q == SeekPlace(p, Header)
  IN IF Len(head) < Header \/ size < 0 \/ ~AtLeast(q, size)
     THEN [msg |-> NoMessage, p |-> p]
     ELSE [msg |-> FrameOf(head, MemCpy(q, size)), p |-> SeekPlace(q, size)]
\* p_length: headers and bodies are skipped as long as they are whole.
CountNext(t) ==
  LET size == BodySize(MemCpy(t.p, Header))
      q == SeekPlace(t.p, Header)
  IN IF size < 0 \/ ~AtLeast(q, size) THEN t ELSE [n |-> t.n + 1, p |-> SeekPlace(q, size)]
CLength(p) ==
  LET count[i \in 0..Len(Bodies)] == IF i = 0 THEN [n |-> 0, p |-> p] ELSE CountNext(count[i - 1])
  IN count[Len(Bodies)].n
\* The loop of p_read.
BuildNext(t) ==
  LET got == BuildTuple(t.p)
  IN IF got.msg = NoMessage THEN t ELSE [msgs |-> Append(t.msgs, got.msg), p |-> got.p]
Build(p, num) ==
  LET built[i \in 0..num] == IF i = 0 THEN [msgs |-> <<>>, p |-> p] ELSE BuildNext(built[i - 1])
  IN built[num]
\* p_read, p_next and p_next_message: what was passed is freed.
CRead(p, num) == Build(p, Least(num, CLength(p)))
CHas(p) ==
  LET size == BodySize(MemCpy(p, Header))
  IN size >= 0 /\ AtLeast(SeekPlace(p, Header), size)
\* p_getvalue
CValue(p) == FlatFrom(p)

-----------------------------------------------------------------------------
Written(data) ==
  /\ wPy' = [wPy EXCEPT !.io = @ \o data]
  /\ wC' = [wC EXCEPT !.list = Append(@, data)]

\* read_into: what recv() returned is written to the buffer.
Receive ==
  /\ \E k \in Pieces :
       /\ wIn + k <= StreamSize
       /\ wIn' = wIn + k /\ Written(UpFrom(wIn, k))
  /\ UNCHANGED wOut

\* standard_read and step(): all the messages, or the next one.
Take ==
  /\ \E num \in {1, 2, Len(Bodies)} :
       LET py == PyRead(wPy, num)
           c == CRead(wC, num)
       IN /\ wPy' = py.b /\ wC' = c.p
          /\ wOut' = [py |-> wOut.py \o py.msgs, c |-> wOut.c \o c.msgs]
  /\ UNCHANGED wIn

\* CopyManager and WireState take the wire over: getvalue(), truncate(), and the
\* rest is written back.
HandOver ==
  /\ wPy' = [io |-> PyValue(wPy), start |-> 0]
  /\ wC' = [list |-> IF CValue(wC) = <<>> THEN <<>> ELSE <<CValue(wC)>>, offset |-> 0]
  /\ UNCHANGED <<wIn, wOut>>

FramesInit ==
  /\ wIn = 0 /\ wPy = [io |-> <<>>, start |-> 0] /\ wC = [list |-> <<>>, offset |-> 0]
  /\ wOut = [py |-> <<>>, c |-> <<>>]
FramesNext == Receive \/ Take \/ HandOver
FramesSpec == FramesInit /\ [][FramesNext]_framesVars

FramesTypeOK ==
  /\ wIn \in 0..StreamSize /\ wPy.start <= Len(wPy.io)
  /\ wC.list = <<>> => wC.offset = 0
  /\ wC.list # <<>> => wC.offset < Len(Head(wC.list))

\* Both buffers return the messages of the stream, each once, whole and in order,
\* however recv() cuts it and however reads, peeks and hand-overs alternate; both say
\* alike whether there is one, and what they hold is the rest of what was received.
BuffersAgree ==
  LET sent(n) == [i \in 1..n |-> FrameOf(UpFrom(FrameStart[i], Header), UpFrom(FrameStart[i] + Header, Bodies[i]))]
      rest(n) == UpFrom(FrameStart[n + 1], wIn - FrameStart[n + 1])
  IN wIn > 0 =>
     /\ wOut.py = wOut.c /\ wOut.py = sent(Len(wOut.py))
     /\ PyHas(wPy) = CHas(wC) /\ PyLength(wPy) = CLength(wC)
     /\ PyValue(wPy) = rest(Len(wOut.py)) /\ CValue(wC) = rest(Len(wOut.c))
=============================================================================
