---------------------------- MODULE PqElements ----------------------------
(***************************************************************************)
(* The messages of the wire protocol and their bytes (protocol/element3.py and  *)
(* _optimized/element3.c): what each class serializes and parses, and the two     *)
(* cat_messages, which join what is sent.  One letter names several classes, and    *)
(* who reads decides.  A message is a record with the slots of its class.             *)
(***************************************************************************)
EXTENDS Integers, Sequences, SequencesExt

CONSTANTS
  FromServer, FromClient,  \* samples of each direction: sets of messages
  Opening                  \* samples of the messages that have no letter

VARIABLES
  eSent,   \* the messages, with the direction
  eWire,   \* their bytes as Python joins them, and as C does
  eRead    \* what the other side makes of them

elementsVars == <<eSent, eWire, eRead>>

-----------------------------------------------------------------------------
(* Bytes: structlib, and the slices and splits of Python *)
NUL == <<0>>
U16(n) == <<(n \div 256) % 256, n % 256>>
U32(n) == <<(n \div 16777216) % 256, (n \div 65536) % 256>> \o U16(n)
AsU16(d) == d[1] * 256 + d[2]
AsU32(d) == ((d[1] * 256 + d[2]) * 256 + d[3]) * 256 + d[4]
NullSize == <<255, 255, 255, 255>>
Upto(d, n) == SubSeq(d, 1, IF n < Len(d) THEN n ELSE Len(d))
Past(d, n) == SubSeq(d, n + 1, Len(d))
\* data.split(b'\x00', 1)
Zero(d) == CHOOSE i \in 1..Len(d) + 1 : (i = Len(d) + 1 \/ d[i] = 0) /\ \A j \in 1..i - 1 : d[j] # 0
Field(d) == Upto(d, Zero(d) - 1)
AfterField(d) == Past(d, Zero(d))
RECURSIVE Fields(_)
Fields(d) == IF d = <<>> THEN <<>> ELSE <<Field(d)>> \o Fields(AfterField(d))
\* n items of the given width
Items(d, n, width) == [i \in 1..n |-> Upto(Past(d, (i - 1) * width), width)]
Each(s, F(_)) == FlattenSeq([i \in DOMAIN s |-> F(s[i])])
Mapped(s, F(_)) == [i \in DOMAIN s |-> F(s[i])]
ParseError == [cls |-> "ValueError"]

-----------------------------------------------------------------------------
(* Attributes: a value or NULL *)
Att(data) == [null |-> FALSE, data |-> data]
NullAtt == [null |-> TRUE, data |-> <<>>]
\* pack_tuple_data, in Python and in C
PackAtt_falsy(x) == IF x.null \/ x.data = <<>> THEN NullSize ELSE U32(Len(x.data)) \o x.data
PackAtt(x) == IF x.null THEN NullSize ELSE U32(Len(x.data)) \o x.data
PackAtts(atts) == Each(atts, PackAtt)
\* The loop of Tuple.parse, Bind.parse and Function.parse.
RECURSIVE TakeAtts(_, _)
TakeAtts(d, n) ==
  IF n = 0 THEN [atts |-> <<>>, rest |-> d]
  ELSE LET null == Upto(d, 4) = NullSize
           size == IF null THEN 0 ELSE AsU32(d)
           more == TakeAtts(Past(d, 4 + size), n - 1)
       IN [ atts |-> <<IF null THEN NullAtt ELSE Att(Upto(Past(d, 4), size))>> \o more.atts,
            rest |-> more.rest ]
\* _unpack_tuple_data: C insists that the sizes add up.
RECURSIVE AttsFit(_, _)
AttsFit(d, n) ==
  IF n = 0 THEN d = <<>>
  ELSE /\ Len(d) >= 4
       /\ IF Upto(d, 4) = NullSize THEN AttsFit(Past(d, 4), n - 1)
          ELSE Len(d) - 4 >= AsU32(d) /\ AttsFit(Past(d, 4 + AsU32(d)), n - 1)

-----------------------------------------------------------------------------
(* The classes *)
SerString(m) == m.data \o NUL
ParseString(cls, d) == IF d = <<>> \/ Last(d) # 0 THEN ParseError ELSE [cls |-> cls, data |-> Front(d)]
ParseEmpty(cls, d) == IF d = <<>> THEN [cls |-> cls] ELSE ParseError

SerNotify(m) == U32(m.pid) \o m.channel \o NUL \o m.payload \o NUL
ParseNotify(d) ==
  LET f == Past(d, 4)
  IN [cls |-> "Notify", pid |-> AsU32(d), channel |-> Field(f), payload |-> Field(AfterField(f))]

SerShowOption(m) == m.name \o NUL \o m.value \o NUL
ParseShowOption(d) == [cls |-> "ShowOption", name |-> Field(d), value |-> Field(AfterField(d))]

\* Complete: every NUL at the end is stripped.
RECURSIVE StrippedNULs(_)
StrippedNULs(d) == IF d # <<>> /\ Last(d) = 0 THEN StrippedNULs(Front(d)) ELSE d
ParseComplete(d) == [cls |-> "Complete", data |-> StrippedNULs(d)]

ReadyStates == {73, 69, 84}
ParseReady(d) == IF Len(d) = 1 /\ d[1] \in ReadyStates THEN [cls |-> "Ready", state |-> d[1]] ELSE ParseError

\* Notice and Error: fields of a letter and a value.
SerNotice(m) == Each(m.fields, LAMBDA f : <<f[1]>> \o f[2] \o NUL)
ParseNotice(cls, d) ==
  LET parts == SelectSeq(Fields(d), LAMBDA f : f # <<>>)
  IN [cls |-> cls, fields |-> Mapped(parts, LAMBDA f : <<f[1], Tail(f)>>)]

SerFunctionResult(m) == PackAtt(m.result)
ParseFunctionResult(d) ==
  IF d = NullSize THEN [cls |-> "FunctionResult", result |-> NullAtt]
  ELSE IF AsU32(d) # Len(d) - 4 THEN ParseError
  ELSE [cls |-> "FunctionResult", result |-> Att(Past(d, 4))]

SerAttributeTypes(m) == U16(Len(m.types)) \o Each(m.types, U32)
ParseAttributeTypes(d) ==
  LET n == AsU16(d)
  IN IF Len(d) - 2 # n * 4 THEN ParseError
     ELSE [cls |-> "AttributeTypes", types |-> Mapped(Items(Past(d, 2), n, 4), AsU32)]

\* TupleDescriptor: a name, then relation, column, type, length, modifier, format.
ColumnWidth == 18
SerTupleDescriptor(m) ==
  U16(Len(m.cols)) \o Each(m.cols, LAMBDA c : c.name \o NUL \o U32(c.rel) \o U16(c.col) \o U32(c.type)
                                     \o U16(c.len) \o U32(c.mod) \o U16(c.format))
RECURSIVE TakeColumns(_, _)
TakeColumns(d, n) ==
  IF n = 0 THEN <<>>
  ELSE LET s == Upto(AfterField(d), ColumnWidth)
       IN <<[ name |-> Field(d), rel |-> AsU32(s), col |-> AsU16(Past(s, 4)), type |-> AsU32(Past(s, 6)),
              len |-> AsU16(Past(s, 10)), mod |-> AsU32(Past(s, 12)), format |-> AsU16(Past(s, 16)) ]>>
          \o TakeColumns(Past(AfterField(d), ColumnWidth), n - 1)
ParseTupleDescriptor(d) == [cls |-> "TupleDescriptor", cols |-> TakeColumns(Past(d, 2), AsU16(d))]

SerTuple(m) == U16(Len(m.atts)) \o PackAtts(m.atts)
ParseTuple(d) == [cls |-> "Tuple", atts |-> TakeAtts(Past(d, 2), AsU16(d)).atts]
ParseTupleC(d) == IF Len(d) < 2 \/ ~AttsFit(Past(d, 2), AsU16(d)) THEN ParseError ELSE ParseTuple(d)

SerKill(m) == U32(m.pid) \o U32(m.key)
ParseKill(d) == [cls |-> "KillInformation", pid |-> AsU32(d), key |-> AsU32(Past(d, 4))]

SerAuthentication(m) == U32(m.request) \o m.salt
ParseAuthentication(d) == [cls |-> "Authentication", request |-> AsU32(d), salt |-> Past(d, 4)]

SerParse(m) == m.name \o NUL \o m.statement \o NUL \o U16(Len(m.argtypes)) \o Each(m.argtypes, U32)
ParseParse(d) ==
  LET f == AfterField(AfterField(d))
  IN IF Len(f) - 2 # AsU16(f) * 4 THEN ParseError
     ELSE [ cls |-> "Parse", name |-> Field(d), statement |-> Field(AfterField(d)),
            argtypes |-> Mapped(Items(Past(f, 2), AsU16(f), 4), AsU32) ]

\* Bind: one argument format for each argument.
SerBind(m) ==
  m.name \o NUL \o m.statement \o NUL \o U16(Len(m.arguments)) \o FlattenSeq(m.aformats)
    \o U16(Len(m.arguments)) \o PackAtts(m.arguments) \o U16(Len(m.rformats)) \o FlattenSeq(m.rformats)
ParseBind(d) ==
  LET f == AfterField(AfterField(d))
      a == Past(f, 2 + 2 * AsU16(f))
      args == TakeAtts(Past(a, 2), AsU16(a))
  IN [ cls |-> "Bind", name |-> Field(d), statement |-> Field(AfterField(d)),
       aformats |-> Items(Past(f, 2), AsU16(f), 2), arguments |-> args.atts,
       rformats |-> Items(Past(args.rest, 2), AsU16(args.rest), 2) ]

SerExecute(m) == m.name \o NUL \o U32(m.max)
ParseExecute(d) == [cls |-> "Execute", name |-> Field(d), max |-> AsU32(AfterField(d))]

\* Describe and Close: the first byte tells a statement from a portal.
Subtype(cls) == IF cls \in {"DescribeStatement", "CloseStatement"} THEN 83 ELSE 80
SerNamed(m) == <<Subtype(m.cls)>> \o m.data \o NUL
ParseNamed(cls, d) == IF d[1] # Subtype(cls) THEN ParseError ELSE ParseString(cls, Tail(d))

SerFunction(m) ==
  U32(m.oid) \o U16(Len(m.arguments)) \o FlattenSeq(m.aformats)
    \o U16(Len(m.arguments)) \o PackAtts(m.arguments) \o m.rformat
ParseFunction(d) ==
  LET n == AsU16(Past(d, 4))
      a == Past(d, 6 + 2 * n)
      args == TakeAtts(Past(a, 2), AsU16(a))
  IN [ cls |-> "Function", oid |-> AsU32(d), aformats |-> Items(Past(d, 6), n, 2),
       arguments |-> args.atts, rformat |-> args.rest ]

SerCopyBegin(m) == <<m.format>> \o U16(Len(m.formats)) \o Each(m.formats, U16)
ParseCopyBegin(cls, d) ==
  LET n == AsU16(Tail(d))
  IN IF Len(d) - 3 # n * 2 THEN ParseError
     ELSE [cls |-> cls, format |-> d[1], formats |-> Mapped(Items(Past(d, 3), n, 2), AsU16)]

\* The first messages have a version for a letter.
CancelCode == U16(1234) \o U16(5678)
SSLCode == U16(1234) \o U16(5679)
Version3 == U16(3) \o U16(0)
SerStartup(m) == Version3 \o Each(m.options, LAMBDA o : o[1] \o NUL \o o[2] \o NUL) \o NUL
\* split(b'\x00')[:-2] is every field before the empty one at the end.
ParseStartup(d) ==
  LET f == Front(Fields(Past(d, 4)))
  IN IF Upto(d, 4) # Version3 THEN ParseError
     ELSE [cls |-> "Startup", options |-> [i \in 1..Len(f) \div 2 |-> <<f[2 * i - 1], f[2 * i]>>]]
ParseCancel(d) ==
  IF Upto(d, 4) # CancelCode THEN ParseError
  ELSE [cls |-> "CancelRequest", pid |-> AsU32(Past(d, 4)), key |-> AsU32(Past(d, 8))]
ParseSSL(d) == IF d = SSLCode THEN [cls |-> "NegotiateSSL"] ELSE ParseError

-----------------------------------------------------------------------------
(* Letters *)
EmptyFromServer ==
  [Null |-> 73, NoData |-> 110, ParseComplete |-> 49, BindComplete |-> 50, CloseComplete |-> 51,
   Suspension |-> 115, CopyDone |-> 99]
EmptyFromClient == [Disconnect |-> 88, Flush |-> 72, Synchronize |-> 83, CopyDone |-> 99]
FullFromServer ==
  [Notify |-> 65, ShowOption |-> 83, Complete |-> 67, Ready |-> 90, Notice |-> 78, Error |-> 69,
   FunctionResult |-> 86, AttributeTypes |-> 116, TupleDescriptor |-> 84, Tuple |-> 68,
   KillInformation |-> 75, Authentication |-> 82, CopyToBegin |-> 72, CopyFromBegin |-> 71, CopyData |-> 100]
FullFromClient ==
  [Password |-> 112, Query |-> 81, Parse |-> 80, Bind |-> 66, Execute |-> 69, DescribeStatement |-> 68,
   DescribePortal |-> 68, CloseStatement |-> 67, ClosePortal |-> 67, Function |-> 70, CopyFail |-> 102,
   CopyData |-> 100]
Letters(side) ==
  CASE side = "server" -> EmptyFromServer @@ FullFromServer
    [] side = "client" -> EmptyFromClient @@ FullFromClient

Serialized(m) ==
  CASE m.cls \in DOMAIN EmptyFromServer \cup DOMAIN EmptyFromClient -> <<>>
    [] m.cls \in {"Complete", "Password", "Query", "CopyFail"} -> SerString(m)
    [] m.cls = "Notify" -> SerNotify(m)          [] m.cls = "ShowOption" -> SerShowOption(m)
    [] m.cls = "Ready" -> <<m.state>>            [] m.cls \in {"Notice", "Error"} -> SerNotice(m)
    [] m.cls = "FunctionResult" -> SerFunctionResult(m)
    [] m.cls = "AttributeTypes" -> SerAttributeTypes(m)
    [] m.cls = "TupleDescriptor" -> SerTupleDescriptor(m)
    [] m.cls = "Tuple" -> SerTuple(m)            [] m.cls = "KillInformation" -> SerKill(m)
    [] m.cls = "Authentication" -> SerAuthentication(m)
    [] m.cls \in {"CopyToBegin", "CopyFromBegin"} -> SerCopyBegin(m)
    [] m.cls = "CopyData" -> m.data              [] m.cls = "Parse" -> SerParse(m)
    [] m.cls = "Bind" -> SerBind(m)              [] m.cls = "Execute" -> SerExecute(m)
    [] m.cls \in {"DescribeStatement", "DescribePortal", "CloseStatement", "ClosePortal"} -> SerNamed(m)
    [] m.cls = "Function" -> SerFunction(m)      [] m.cls = "Startup" -> SerStartup(m)
    [] m.cls = "CancelRequest" -> CancelCode \o SerKill(m)
    [] m.cls = "NegotiateSSL" -> SSLCode
\* The class by the letter; Describe and Close by the first byte of the data.
ClassOf(side, letter, d) ==
  CHOOSE cls \in DOMAIN Letters(side) :
    Letters(side)[cls] = letter /\ (side = "client" /\ letter \in {67, 68} => d[1] = Subtype(cls))
Parsed(cls, d) ==
  CASE cls \in DOMAIN EmptyFromServer \cup DOMAIN EmptyFromClient -> ParseEmpty(cls, d)
    [] cls \in {"Password", "Query", "CopyFail"} -> ParseString(cls, d)
    [] cls = "Complete" -> ParseComplete(d)      [] cls = "Notify" -> ParseNotify(d)
    [] cls = "ShowOption" -> ParseShowOption(d)  [] cls = "Ready" -> ParseReady(d)
    [] cls \in {"Notice", "Error"} -> ParseNotice(cls, d)
    [] cls = "FunctionResult" -> ParseFunctionResult(d)
    [] cls = "AttributeTypes" -> ParseAttributeTypes(d)
    [] cls = "TupleDescriptor" -> ParseTupleDescriptor(d)
    [] cls = "Tuple" -> ParseTuple(d)            [] cls = "KillInformation" -> ParseKill(d)
    [] cls = "Authentication" -> ParseAuthentication(d)
    [] cls \in {"CopyToBegin", "CopyFromBegin"} -> ParseCopyBegin(cls, d)
    [] cls = "CopyData" -> [cls |-> cls, data |-> d]
    [] cls = "Parse" -> ParseParse(d)            [] cls = "Bind" -> ParseBind(d)
    [] cls = "Execute" -> ParseExecute(d)        [] cls = "Function" -> ParseFunction(d)
    [] OTHER -> ParseNamed(cls, d)

-----------------------------------------------------------------------------
(* cat_messages.  A bytes object is copy data, a tuple a row; `bare` is neither. *)
Bare(m) == IF m.cls \in {"bytes", "tuple"} THEN m.cls ELSE "element"
AsElement(m) ==
  CASE m.cls = "bytes" -> [cls |-> "CopyData", data |-> m.data]
    [] m.cls = "tuple" -> [cls |-> "Tuple", atts |-> m.atts]
    [] OTHER -> m
Letter(side, m) == IF side = "opening" THEN <<>> ELSE <<Letters(side)[m.cls]>>
\* Message.bytes, and the short cuts for copy data and rows.
CatPython(side, msgs) ==
  Each(msgs, LAMBDA m :
    CASE Bare(m) = "bytes" -> <<100>> \o U32(Len(m.data) + 4) \o m.data
      [] Bare(m) = "tuple" -> <<68>> \o U32(Len(PackAtts(m.atts)) + 6) \o U16(Len(m.atts)) \o PackAtts(m.atts)
      [] OTHER -> Letter(side, m) \o U32(Len(Serialized(m)) + 4) \o Serialized(m))

\* C takes a run of equals at a time, makes room for it and fills it.  The room is
\* what it returns, whatever was filled.
DataSize(m) == IF Bare(m) = "bytes" THEN Len(m.data)
               ELSE 4 * Len(m.atts) + Len(Each(m.atts, LAMBDA x : x.data))
RowOverhead_short == 6
RowOverhead == 7
RunRoom(run) ==
  LET head == IF Bare(run[1]) = "bytes" THEN 5 ELSE RowOverhead
  IN head * Len(run) + FoldSeq(LAMBDA m, n : n + DataSize(m), 0, run)
RunOf(msgs) ==
  LET n == CHOOSE k \in 1..Len(msgs) :
             /\ \A j \in 1..k : Bare(msgs[j]) = Bare(msgs[1])
             /\ k = Len(msgs) \/ Bare(msgs[k + 1]) # Bare(msgs[1])
  IN IF Bare(msgs[1]) = "element" THEN 1 ELSE n
RunBytes(side, run) ==
  IF Bare(run[1]) = "element"
  THEN Letter(side, run[1]) \o U32(Len(Serialized(run[1])) + 4) \o Serialized(run[1])
  ELSE Each(run, LAMBDA m :
    LET body == IF Bare(m) = "bytes" THEN m.data ELSE U16(Len(m.atts)) \o PackAtts(m.atts)
    IN <<IF Bare(m) = "bytes" THEN 100 ELSE 68>> \o U32(Len(body) + 4) \o body)
RECURSIVE CatC(_, _)
CatC(side, msgs) ==
  IF msgs = <<>> THEN [bytes |-> <<>>, room |-> 0]
  ELSE LET run == Upto(msgs, RunOf(msgs))
           more == CatC(side, Past(msgs, Len(run)))
           own == RunBytes(side, run)
       IN [ bytes |-> own \o more.bytes,
            room |-> more.room + (IF Bare(run[1]) = "element" THEN Len(own) ELSE RunRoom(run)) ]

-----------------------------------------------------------------------------
\* What the other side reads: frames, each parsed by its class.
RECURSIVE ReadFrames(_, _)
ReadFrames(side, wire) ==
  IF wire = <<>> THEN <<>>
  ELSE LET size == AsU32(Tail(wire)) - 4
           d == Upto(Past(wire, 5), size)
       IN <<Parsed(ClassOf(side, wire[1], d), d)>> \o ReadFrames(side, Past(wire, 5 + size))
ReadOpening(wire) ==
  LET d == Past(wire, 4)
  IN CASE Upto(d, 4) = Version3 -> ParseStartup(d) [] Upto(d, 4) = CancelCode -> ParseCancel(d)
       [] OTHER -> ParseSSL(d)

Nothing == [side |-> "none", msgs |-> <<>>]
Send ==
  /\ eSent = Nothing
  /\ \E s \in [side : {"server"}, msgs : UNION {[1..n -> FromServer] : n \in 1..2}]
           \cup [side : {"client"}, msgs : UNION {[1..n -> FromClient] : n \in 1..2}]
           \cup [side : {"opening"}, msgs : [1..1 -> Opening]] :
       /\ eSent' = s
       /\ eWire' = [python |-> CatPython(s.side, s.msgs), c |-> CatC(s.side, s.msgs)]
  /\ UNCHANGED eRead
ReadBack ==
  /\ eSent # Nothing /\ eRead = <<>>
  /\ eRead' = IF eSent.side = "opening" THEN <<ReadOpening(eWire.python)>>
              ELSE ReadFrames(eSent.side, eWire.python)
  /\ UNCHANGED <<eSent, eWire>>

ElementsInit ==
  eSent = Nothing /\ eWire = [python |-> <<>>, c |-> [bytes |-> <<>>, room |-> 0]] /\ eRead = <<>>
ElementsNext == Send \/ ReadBack
ElementsSpec == ElementsInit /\ [][ElementsNext]_elementsVars

ElementsTypeOK ==
  /\ eSent.side \in {"none", "server", "client", "opening"}
  /\ \A i \in DOMAIN eWire.python : eWire.python[i] \in 0..255

\* What is sent is what is read, whatever the messages and their neighbours: NULL is
\* not the empty value, and the lengths, counts and terminators that each class writes are
\* the ones its parser takes.  (Message.__eq__ compares the slots only, and Notice, Error
\* and Startup have none: the round trip of test_protocol.py cannot fail for them.)
\* The two cat_messages send the same bytes, and the C one fills the room it made, no
\* more and no less; the two parsers of a row agree.
RoundTrips ==
  /\ eRead # <<>> => eRead = Mapped(eSent.msgs, AsElement)
  /\ eWire.c.bytes = eWire.python /\ eWire.c.room = Len(eWire.python)
  /\ \A i \in DOMAIN eRead : eRead[i].cls = "Tuple" => ParseTupleC(SerTuple(eRead[i])) = eRead[i]
=============================================================================
