------------------------------- MODULE PqWire -------------------------------
(***************************************************************************)
(* The protocol connection of the driver (protocol/client3.py) running the  *)
(* transactions of protocol/xact3.py against a PostgreSQL session.          *)
(*                                                                          *)
(* An instruction is a list of request messages.  The connection sends the  *)
(* whole list, then puts every chunk of received messages into the          *)
(* instruction, which walks its commands with the hook table until the last *)
(* one is answered.  The session is external: it answers each request with  *)
(* any answer the protocol allows, enters COPY, fails, sends notices and    *)
(* dies.  How bytes become chunks of messages is PqFrames's subject; here a *)
(* chunk is any non-empty prefix of what is in flight.                      *)
(***************************************************************************)
EXTENDS Integers, Sequences, FiniteSets, SequencesExt, FiniteSetsExt

CONSTANTS
  Scripts,          \* the instructions the driver pushes: sequences of commands
  MaxPush,          \* bound: instructions pushed
  RowCounts,        \* bound: the numbers of rows or COPY lines an answer may have
  MaxNotices,       \* bound: asynchronous messages
  MaxData,          \* bound: COPY data messages supplied by the client
  Names,            \* statements and cursors the garbage collector may drop
  WireFaults,       \* bound: deaths of the session
  MaxUpsets,        \* bound: notices, dropped names and deaths together
  InterruptPoints,  \* where an exception may leave the receive step
  CopyInTimeouts    \* may the session fail a COPY while it waits for data?

ASSUME WireBounds ==
  /\ {MaxPush, MaxNotices, MaxData, WireFaults, MaxUpsets} \subseteq Nat
  /\ RowCounts \subseteq Nat
  /\ InterruptPoints \subseteq {"hook", "return"}
  /\ CopyInTimeouts \in BOOLEAN

VARIABLES
  wXact,     \* Connection.xact: the current instruction, or NoXact
  wCall,     \* the Connection method being executed, and the pushed instruction
  wRead,     \* Connection.read: the chunk being processed, with its identity
  wGarbage,  \* Connection.garbage_cursors and garbage_statements
  wToSrv, wToCli,  \* the two directions of the socket
  wSrv,      \* the session
  wOptimized,  \* is the C extension, which takes the leading rows, built?
  wLog       \* what happened, for the properties only

wireVars == <<wXact, wCall, wRead, wGarbage, wToSrv, wToCli, wSrv, wOptimized,
              wLog>>

NoXact == [state |-> "none"]
Idle == [op |-> "idle", next |-> NoXact]
P0 == [off |-> 1, step |-> 1]

(***************************************************************************)
(* Instruction                                                              *)
(***************************************************************************)
\* For each command and step: the messages expected, and the step each leads
\* to; 0 ends the command.
Hook ==
  [ Q |-> << [T |-> 4, I |-> 1, C |-> 1, H |-> 3, G |-> 2, Z |-> 0],
             [C |-> 1],
             [d |-> 3, c |-> 2],
             [D |-> 4, C |-> 1, Z |-> 0] >>,
    F |-> << [V |-> 2], [Z |-> 0] >>,
    P |-> << [p |-> 0] >>,
    B |-> << [b |-> 0] >>,
    D |-> << [t |-> 2, T |-> 0], [n |-> 0, T |-> 0] >>,
    X |-> << [x |-> 0] >>,
    E |-> << [D |-> 2, H |-> 3, G |-> 4, I |-> 0, C |-> 0],
             [D |-> 2, s |-> 0, C |-> 0],
             [d |-> 3, c |-> 4],
             [C |-> 0] >>,
    S |-> << [Z |-> 0] >> ]

Tagged(id, cmds, ks) == [i \in 1..Len(ks) |->
  [k |-> ks[i], id |-> id, at |-> Len(cmds) - Len(ks) + i, no |-> 0]]

\* An instruction about to send all its commands.
Instruction(id, cmds) ==
  [ id |-> id, cmds |-> cmds, state |-> "Sending", op |-> "standard_sent",
    messages |-> Tagged(id, cmds, cmds), last |-> [of |-> 0, from |-> P0, to |-> P0],
    stored |-> 0, rows |-> <<>>, asyncs |-> {}, fatal |-> "None" ]

\* The position after the command at o: Flush has no answer.
NextCmd(cmds, o) ==
  CHOOSE j \in (o + 1)..(Len(cmds) + 1) :
    /\ j = Len(cmds) + 1 \/ cmds[j] # "L"
    /\ \A i \in (o + 1)..(j - 1) : cmds[i] = "L"

\* The first Sync at or after o; 0 if there is none.
SyncFrom(cmds, o) ==
  LET S == {j \in o..Len(cmds) : cmds[j] = "S"} IN IF S = {} THEN 0 ELSE Min(S)

AfterError_skips(x, off, sync) == Len(x.cmds) + 1
\* Where an error leads: to the Sync that ends it.
AfterError(x, off, sync) == IF sync = 0 THEN off ELSE sync

\* One message of standard_put, where row says what is expected.  a: the position, what
\* was processed, the messages consumed, the notices handed to the hook; "end" says how
\* the loop ended: "no" still running, "done" all commands answered, "early" returned.
PutOne(x, a, m, row) ==
  LET b    == [a EXCEPT !.n = @ + 1]
      sync == IF x.cmds[a.off] \in {"Q", "F"} THEN a.off ELSE SyncFrom(x.cmds, a.off)
      off  == IF row[m.k] = 0 THEN NextCmd(x.cmds, a.off) ELSE a.off
  IN CASE m.k \in DOMAIN row ->
            [b EXCEPT !.proc = Append(@, m), !.off = off,
                      !.step = IF row[m.k] = 0 THEN 1 ELSE row[m.k],
                      !.stray = @ \/ <<m.id, m.at>> # <<x.id, a.off>>,
                      !.end = IF off > Len(x.cmds) THEN "done" ELSE "no"]
       [] m.k = "FATAL" -> [b EXCEPT !.fatal = "Yes", !.end = "early"]
       [] m.k = "ERROR" ->
            [b EXCEPT !.fatal = "No", !.off = AfterError(x, @, sync), !.step = 1,
                      !.end = IF sync = 0 THEN "early"
                              ELSE IF AfterError(x, a.off, sync) > Len(x.cmds) THEN "done" ELSE "no",
                      !.stray = @ \/ m.id # x.id]
       [] m.k = "A" ->
            [b EXCEPT !.told = IF m.no \in x.asyncs THEN @ ELSE Append(@, m.no)]
       [] OTHER -> [b EXCEPT !.fatal = "Yes", !.end = "early", !.broke = TRUE]

\* Where the processing of a chunk begins.
Resume(x, r) == IF r.id = x.last.of THEN x.last.from ELSE x.last.to

\* The loop over a chunk: a chunk seen before is processed again from where its
\* processing began, and keeps the notices it has told.
PutAll(x, r, n) ==
  LET again == r.id = x.last.of
      from  == Resume(x, r)
      x1    == IF again THEN x ELSE [x EXCEPT !.asyncs = {}]
      put[i \in 0 .. n] ==
        IF i = 0
        THEN [ off |-> from.off, step |-> from.step, proc |-> <<>>, n |-> 0, told |-> <<>>,
               fatal |-> x.fatal, end |-> "no", stray |-> FALSE, broke |-> FALSE, kept |-> x1.asyncs ]
        ELSE LET a == put[i - 1]
             IN IF a.end # "no" THEN a ELSE PutOne(x1, a, r.msgs[i], Hook[x.cmds[a.off]][a.step])
  IN put[n]

RowsOf(ms) == LET rs == SelectSeq(ms, LAMBDA m : m.k \in {"D", "d"})
              IN [i \in 1..Len(rs) |-> rs[i].no]

Store_replaces(x, r, ms) ==
  IF x.stored = r.id THEN x ELSE [x EXCEPT !.stored = r.id, !.rows = RowsOf(ms)]
\* Append what was processed unless this chunk has been stored already.
Store(x, r, ms) ==
  IF x.stored = r.id THEN x ELSE [x EXCEPT !.stored = r.id, !.rows = @ \o RowsOf(ms)]

\* The state an instruction is in after standard_put: done, or switched to the
\* processor the last message calls for.
Switched(x, a) ==
  IF a.off > Len(x.cmds) THEN [x EXCEPT !.state = "Complete"]
  ELSE IF x.cmds[a.off] \notin {"E", "Q"} \/ a.proc = <<>> THEN x
  ELSE CASE Last(a.proc).k \in {"d", "H"} ->
              [x EXCEPT !.state = "Receiving", !.op = "put_copydata"]
         [] Last(a.proc).k = "D" -> [x EXCEPT !.state = "Receiving", !.op = "put_tupledata"]
         [] Last(a.proc).k = "G" -> [x EXCEPT !.state = "Sending", !.op = "sent_from_stdin"]
         [] OTHER -> x

\* Instruction.standard_put: the instruction after the chunk and the account of
\* the loop.
Accounted(x, r, a) ==
  LET x1 == [x EXCEPT !.fatal = a.fatal, !.asyncs = a.kept \cup ToSet(a.told)]
      x2 == [Store(x1, r, a.proc) EXCEPT
               !.last = [of |-> r.id, from |-> x.last.to,
                         to |-> [off |-> a.off, step |-> a.step]]]
  IN [ x |-> IF a.end = "early" THEN [x1 EXCEPT !.state = "Complete"] ELSE Switched(x2, a),
       a |-> a ]
StandardPut(x, r) == Accounted(x, r, PutAll(x, r, Len(r.msgs)))

\* The fast paths: a chunk of COPY lines only, the leading rows of a chunk;
\* anything else goes back to standard_put.
FastPut(x, r, kind, whole) ==
  LET k == CHOOSE j \in 0..Len(r.msgs) :
             /\ \A i \in 1..j : r.msgs[i].k = kind
             /\ j = Len(r.msgs) \/ r.msgs[j + 1].k # kind
      x1 == Store(x, r, SubSeq(r.msgs, 1, k))
  IN IF k = 0 \/ (whole /\ k < Len(r.msgs))
     THEN StandardPut([x EXCEPT !.op = "standard_put"], r)
     ELSE [ x |-> [x1 EXCEPT !.last = [of |-> r.id, from |-> x.last.to, to |-> x.last.to]],
            a |-> [ n |-> k, told |-> <<>>, broke |-> FALSE,
                    stray |-> \E i \in 1..k : <<r.msgs[i].id, r.msgs[i].at>>
                                                # <<x.id, x.last.to.off>> ] ]

\* x.state[1](messages) while receiving.
Put(x, r) ==
  CASE x.op = "put_copydata"  -> FastPut(x, r, "d", TRUE)
    [] x.op = "put_tupledata" -> FastPut(x, r, "D", ~wOptimized)
    [] OTHER                  -> StandardPut(x, r)

Reissued_none(x, o) == <<>>
Reissued(x, o) == Tagged(x.id, x.cmds, SubSeq(x.cmds, o + 1, Len(x.cmds)))
\* What is sent after the data of a COPY: its end, and again every command that
\* follows the one that began it.
CopySequence(x, k) ==
  LET o == x.last.to.off
  IN <<[k |-> k, id |-> x.id, at |-> o, no |-> 0]>> \o
     Reissued(x, o)

\* standard_sent and sent_from_stdin, called when x.messages have been written.
Sent(x) ==
  IF \/ x.op = "standard_sent"
     \/ x.messages # <<>> /\ Head(x.messages).k \in {"done", "fail"}
  THEN [x EXCEPT !.messages = <<>>, !.state = "Receiving", !.op = "standard_put"]
  ELSE [x EXCEPT !.messages = CopySequence(x, "fail")]

(***************************************************************************)
(* Connection                                                               *)
(***************************************************************************)
Looping == {"complete", "push", "trash", "sync"}
Running == wXact # NoXact /\ wXact.state # "Complete" /\ wCall.op \in Looping \cup {"step"}

\* The end of a transition: step() runs one and drops an instruction that is
\* complete and not fatal; complete() loops.
AfterStep(x) ==
  IF wCall.op = "step"
  THEN /\ wXact' = IF x.state = "Complete" /\ x.fatal # "Yes" THEN NoXact ELSE x
       /\ wCall' = Idle
  ELSE wXact' = x /\ wCall' = wCall

Dead(x)  == [x EXCEPT !.state = "Complete", !.fatal = "Yes"]

\* write_messages and the op: all the messages leave.
WireWrite ==
  /\ Running /\ wXact.state = "Sending" /\ wSrv.open
  /\ wToSrv' = wToSrv \o wXact.messages
  /\ AfterStep(Sent(wXact))
  /\ UNCHANGED <<wRead, wGarbage, wToCli, wSrv, wLog, wOptimized>>

\* The peer is gone: the bytes are lost until a send fails, and that is fatal.
\* step() runs the op even then.
WireWriteLost ==
  /\ Running /\ wXact.state = "Sending" /\ ~wSrv.open
  /\ \E failed \in {wSrv.reset, TRUE} :
       LET x == IF ~failed THEN Sent(wXact)
                ELSE IF wCall.op = "step" THEN Sent(Dead(wXact)) ELSE Dead(wXact)
       IN AfterStep(x) /\ wSrv' = [wSrv EXCEPT !.reset = failed]
  /\ UNCHANGED <<wRead, wGarbage, wToSrv, wToCli, wOptimized, wLog>>

\* The chunk the receive step works on: what is left, or new messages.  Two
\* identities are enough, an instruction remembers the last chunk only.
Chunks ==
  IF wRead.msgs # <<>> THEN {wRead}
  ELSE {[id |-> wRead.id, msgs |-> SubSeq(wToCli, 1, n)] : n \in 1..Len(wToCli)}
Taken(r) == IF wRead.msgs # <<>> THEN wToCli
            ELSE SubSeq(wToCli, Len(r.msgs) + 1, Len(wToCli))

Unread_all(r, n) == r.msgs
\* What the op has not consumed stays in Connection.read.
Unread(r, n) == SubSeq(r.msgs, n + 1, Len(r.msgs))
WireReceive ==
  /\ Running /\ wXact.state = "Receiving"
  /\ \E r \in Chunks :
       \E p \in {Put(wXact, r)} :
         /\ wRead' = [id |-> 3 - r.id, msgs |-> Unread(r, p.a.n)]
         /\ wToCli' = Taken(r)
         /\ AfterStep(p.x)
         /\ wLog' = [wLog EXCEPT !.told = @ \cup ToSet(p.a.told), !.stray = @ \/ p.a.stray,
                                       !.broke = @ \/ p.a.broke]
  /\ UNCHANGED <<wGarbage, wToSrv, wSrv, wOptimized>>

\* The peer closed and everything has been read.  step() calls the op on the
\* empty chunk: the C row fast path goes back to standard_put, the others raise
\* IndexError.
WireEof ==
  /\ Running /\ wXact.state = "Receiving" /\ wRead.msgs = <<>> /\ wToCli = <<>> /\ ~wSrv.open
  /\ LET x == IF wCall.op = "step" /\ wXact.op = "put_tupledata" /\ wOptimized
              THEN [wXact EXCEPT !.fatal = "Yes", !.op = "standard_put"] ELSE Dead(wXact)
     IN AfterStep(x)
  /\ UNCHANGED <<wRead, wGarbage, wToSrv, wToCli, wSrv, wOptimized, wLog>>

\* An exception leaves the receive step: from the notice hook ("hook", the
\* chunk is abandoned in the middle) or after the op returned and before
\* Connection.read is cut ("return").  The method in progress is abandoned.
WireInterrupt ==
  /\ Running /\ wXact.state = "Receiving"
  /\ \E r \in Chunks, where \in InterruptPoints :
       /\ wLog.interrupts = 0
       /\ wRead' = r /\ wToCli' = Taken(r) /\ wCall' = Idle
       /\ \/ /\ where = "hook"
             /\ \E n \in 1..Len(r.msgs) : \E a \in {PutAll(wXact, r, n)} :
                  /\ r.msgs[n].k = "A" /\ a.end = "no" /\ a.n = n
                  /\ a.told # <<>> /\ Last(a.told) = r.msgs[n].no
                  /\ wXact' = [wXact EXCEPT !.fatal = a.fatal, !.op = "standard_put",
                                 !.asyncs = a.kept \cup ToSet(Front(a.told))]
                  /\ wLog' = [wLog EXCEPT !.told = @ \cup ToSet(a.told), !.interrupts = 1]
          \/ /\ where = "return"
             /\ \E p \in {Put(wXact, r)} :
                  /\ wXact' = p.x
                  /\ wLog' = [wLog EXCEPT !.told = @ \cup ToSet(p.a.told), !.stray = @ \/ p.a.stray,
                                             !.broke = @ \/ p.a.broke, !.interrupts = 1]
  /\ UNCHANGED <<wGarbage, wToSrv, wSrv, wOptimized>>

\* The transaction that closes the dropped statements and cursors.
TrashOut(id, garbage) ==
  [Instruction(id, [i \in 1..Len(garbage) |-> "X"] \o <<"S">>)
     EXCEPT !.messages = [i \in DOMAIN @ |-> IF i > Len(garbage) THEN @[i]
                                              ELSE [@[i] EXCEPT !.no = garbage[i]]]]

\* complete() left its loop: a complete instruction is dropped unless it was
\* fatal.  push() then takes the trash out and sets the new one, unless a fatal
\* one stays; synchronize() replaces whatever is there.
WireCompleted ==
  /\ wCall.op \in Looping
  /\ wXact = NoXact \/ wXact.state = "Complete"
  /\ LET free == wXact = NoXact \/ wXact.fatal # "Yes"
         next == /\ wXact' = wCall.next /\ wCall' = [op |-> "step", next |-> NoXact]
                 /\ UNCHANGED <<wGarbage, wLog>>
         trash == wLog.pushed + 1
     IN CASE wCall.op = "complete" \/ (~free /\ wCall.op # "sync") ->
               /\ wXact' = IF free THEN NoXact ELSE wXact
               /\ wCall' = Idle /\ UNCHANGED <<wGarbage, wLog>>
          [] wCall.op = "sync" ->
               /\ wXact' = wCall.next /\ wCall' = [op |-> "complete", next |-> NoXact]
               /\ UNCHANGED <<wGarbage, wLog>>
          [] wCall.op = "push" /\ free /\ wGarbage # <<>> ->
               /\ wXact' = TrashOut(trash, wGarbage)
               /\ wGarbage' = <<>> /\ wCall' = [wCall EXCEPT !.op = "trash"]
               /\ wLog' = [wLog EXCEPT !.pushed = trash]
          [] OTHER -> next
  /\ UNCHANGED <<wRead, wToSrv, wToCli, wSrv, wOptimized>>

\* Connection.push of a new instruction, Connection.synchronize, .complete and
\* .step, called by the driver between two calls.
WirePush ==
  /\ wCall = Idle /\ wLog.pushed < MaxPush
  /\ \E s \in Scripts :
       wCall' = [op |-> "push", next |-> Instruction(wLog.pushed + 1, s)]
  /\ wLog' = [wLog EXCEPT !.pushed = @ + 1]
  /\ UNCHANGED <<wXact, wRead, wGarbage, wToSrv, wToCli, wSrv, wOptimized>>
WireSynchronize ==
  /\ wCall = Idle /\ wLog.pushed < MaxPush
  /\ wCall' = [op |-> "sync", next |-> Instruction(wLog.pushed + 1, <<"S">>)]
  /\ wLog' = [wLog EXCEPT !.pushed = @ + 1]
  /\ UNCHANGED <<wXact, wRead, wGarbage, wToSrv, wToCli, wSrv, wOptimized>>
WireComplete ==
  /\ wCall = Idle /\ wXact # NoXact
  /\ wCall' = [op |-> "complete", next |-> NoXact]
  /\ UNCHANGED <<wXact, wRead, wGarbage, wToSrv, wToCli, wSrv, wLog, wOptimized>>
WireStep ==
  /\ wCall = Idle /\ wXact # NoXact /\ wXact.state # "Complete"
  /\ wCall' = [op |-> "step", next |-> NoXact]
  /\ UNCHANGED <<wXact, wRead, wGarbage, wToSrv, wToCli, wSrv, wLog, wOptimized>>

\* The copy manager sets the messages of a COPY FROM STDIN before each step:
\* data, or the sequence that ends the COPY.
WireSupply ==
  /\ wCall = Idle /\ wXact # NoXact
  /\ wXact.state = "Sending" /\ wXact.op = "sent_from_stdin"
  /\ \/ /\ wLog.data < MaxData
        /\ wXact' = [wXact EXCEPT !.messages =
                       <<[k |-> "data", id |-> wXact.id, at |-> wXact.last.to.off, no |-> 0]>>]
        /\ wLog' = [wLog EXCEPT !.data = @ + 1]
     \/ wXact' = [wXact EXCEPT !.messages = CopySequence(wXact, "done")] /\ UNCHANGED wLog
  /\ wCall' = [op |-> "step", next |-> NoXact]
  /\ UNCHANGED <<wRead, wGarbage, wToSrv, wToCli, wSrv, wOptimized>>

Upsets == wLog.notices + wLog.faults + Cardinality(wLog.trashed)

\* trash_cursor and trash_statement: the weak reference of a registered object
\* dies, at any moment.
WireTrash ==
  /\ Upsets < MaxUpsets
  /\ \E n \in Names \ wLog.trashed :
       wGarbage' = Append(wGarbage, n) /\ wLog' = [wLog EXCEPT !.trashed = @ \cup {n}]
  /\ UNCHANGED <<wXact, wCall, wRead, wToSrv, wToCli, wSrv, wOptimized>>

(***************************************************************************)
(* The session (external)                                                   *)
(***************************************************************************)
Rep(n, k) == [i \in 1..n |-> k]
Failed == {<<"ERROR">>}
RowSets == UNION {{Rep(n, "D") \o <<e>> : e \in {"C", "ERROR"}} : n \in RowCounts}
Streams == {<<"H">> \o Rep(n, "d") \o <<"c", "C">> : n \in RowCounts}
           \cup {<<"H">> \o Rep(n, "d") \o <<"ERROR">> : n \in RowCounts}

\* The answers to a command; a simple query and a function call end with Ready.
Answers ==
  [ Q |-> {<<"T">> \o r : r \in RowSets} \cup Streams \cup Failed
          \cup {<<"C">>, <<"I">>, <<"C", "C">>, <<"G">>},
    F |-> {<<"V">>} \cup Failed,
    P |-> {<<"p">>} \cup Failed,
    B |-> {<<"b">>} \cup Failed,
    D |-> {<<"t", "T">>, <<"t", "n">>, <<"T">>} \cup Failed,
    X |-> {<<"x">>},
    E |-> RowSets \cup {<<"I">>, <<"G">>} \cup Streams
          \cup {Rep(n, "D") \o <<"s">> : n \in RowCounts \ {0}} ]

\* Messages ks in answer to m, the rows numbered from the count so far.
Reply(m, ks, n) ==
  [i \in 1..Len(ks) |-> [k |-> ks[i], id |-> m.id, at |-> m.at,
     no |-> n + Len(SelectSeq(SubSeq(ks, 1, i), LAMBDA k : k \in {"D", "d"}))]]

\* The session sends messages ks in answer to m and goes on in mode.
Says(m, ks, mode) ==
  LET n   == IF wSrv.id = m.id THEN wSrv.rows ELSE 0
      out == Reply(m, ks, n)
  IN /\ wToCli' = wToCli \o out
     /\ wSrv' = [wSrv EXCEPT !.mode = mode, !.id = m.id,
                   !.simple = IF wSrv.mode = "copyin" THEN @ ELSE m.k \in {"Q", "F"},
                   !.rows = n + Len(RowsOf(out)),
                   !.closed = IF m.k = "X" THEN Append(@, m.no) ELSE @]
\* It fails a COPY: the other requests are ignored up to Sync, except in a simple query.
FailsCopy(m) ==
  IF wSrv.simple THEN Says(m, <<"ERROR", "Z">>, "idle") ELSE Says(m, <<"ERROR">>, "ignore")

\* The session answers the next request.
SessionAnswer ==
  /\ wSrv.open /\ wToSrv # <<>>
  /\ wToSrv' = Tail(wToSrv)
  /\ LET m    == Head(wToSrv)
         data == m.k \in {"data", "done", "fail"}
     IN \/ /\ wSrv.mode = "idle" /\ m.k \in DOMAIN Answers
           /\ \E ks \in Answers[m.k] :
                \/ Last(ks) = "G" /\ Says(m, ks, "copyin")
                \/ Last(ks) # "G" /\ m.k \in {"Q", "F"} /\ Says(m, Append(ks, "Z"), "idle")
                \/ /\ Last(ks) # "G" /\ m.k \notin {"Q", "F"}
                   /\ Says(m, ks, IF Last(ks) = "ERROR" THEN "ignore" ELSE "idle")
        \/ wSrv.mode # "copyin" /\ m.k = "S" /\ Says(m, <<"Z">>, "idle")
        \/ /\ wSrv.mode # "copyin" /\ m.k # "S"
           /\ wSrv.mode = "ignore" \/ data \/ m.k = "L"
           /\ UNCHANGED <<wToCli, wSrv>>
        \/ wSrv.mode = "copyin" /\ m.k \in {"S", "L", "data"} /\ UNCHANGED <<wToCli, wSrv>>
        \/ /\ wSrv.mode = "copyin" /\ m.k = "done"
           /\ Says(m, IF wSrv.simple THEN <<"C", "Z">> ELSE <<"C">>, "idle")
        \/ wSrv.mode = "copyin" /\ m.k \notin {"S", "L"} /\ FailsCopy(m)
        \/ CopyInTimeouts /\ wSrv.mode = "copyin" /\ m.k = "S" /\ FailsCopy(m)
  /\ UNCHANGED <<wXact, wCall, wRead, wGarbage, wOptimized, wLog>>

\* A notice, a notification or a changed option arrives between two answers.
SessionNotice ==
  /\ wSrv.open /\ wLog.notices < MaxNotices /\ Upsets < MaxUpsets
  /\ wToCli' = Append(wToCli, [k |-> "A", id |-> 0, at |-> 0, no |-> wLog.notices + 1])
  /\ wLog' = [wLog EXCEPT !.notices = @ + 1]
  /\ UNCHANGED <<wXact, wCall, wRead, wGarbage, wToSrv, wSrv, wOptimized>>

\* The session dies: terminated with a last message, or silently.
SessionDies ==
  /\ wSrv.open /\ wLog.faults < WireFaults /\ Upsets < MaxUpsets
  /\ wSrv' = [wSrv EXCEPT !.open = FALSE]
  /\ wToSrv' = <<>>
  /\ \E ks \in {<<>>, <<"FATAL">>} : wToCli' = wToCli \o Reply([id |-> 0, at |-> 0], ks, 0)
  /\ wLog' = [wLog EXCEPT !.faults = @ + 1]
  /\ UNCHANGED <<wXact, wCall, wRead, wGarbage, wOptimized>>

WireInit ==
  /\ wXact = NoXact /\ wCall = Idle /\ wGarbage = <<>>
  /\ wRead = [id |-> 1, msgs |-> <<>>]
  /\ wToSrv = <<>> /\ wToCli = <<>>
  /\ wSrv = [open |-> TRUE, reset |-> FALSE, mode |-> "idle", simple |-> FALSE, id |-> 0, rows |-> 0,
             closed |-> <<>>]
  /\ wOptimized \in BOOLEAN
  /\ wLog = [ pushed |-> 0, notices |-> 0, data |-> 0, faults |-> 0, interrupts |-> 0,
              trashed |-> {}, told |-> {}, stray |-> FALSE, broke |-> FALSE ]

WireClient ==
  WireWrite \/ WireWriteLost \/ WireReceive \/ WireEof \/ WireCompleted
WireNext ==
  \/ WireClient \/ WireInterrupt \/ WirePush \/ WireSynchronize \/ WireComplete
  \/ WireStep \/ WireSupply \/ WireTrash \/ SessionAnswer \/ SessionNotice \/ SessionDies

WireSpec == WireInit /\ [][WireNext]_wireVars

(***************************************************************************)
(* Properties                                                               *)
(***************************************************************************)
InFlight == wRead.msgs \o wToCli

WireTypeOK ==
  /\ wCall.op \in Looping \cup {"idle", "step"}
  /\ wXact.state \in {"none", "Sending", "Receiving", "Complete"}
  /\ wXact # NoXact => /\ wXact.fatal \in {"None", "No", "Yes"}
                       /\ wXact.last.to.off \in 1..(Len(wXact.cmds) + 1)
  /\ wSrv.mode \in {"idle", "ignore", "copyin"}

\* No answer is taken for the answer of another request: every message that
\* moves an instruction forward was produced by the session for the command the
\* instruction is at, whatever the chunks, errors and COPY re-issues
\* (xact3.Instruction.standard_put and its fast paths); the driver never
\* reports a protocol violation against a session that keeps to the protocol; and
\* when an instruction has ended without being fatal nothing of it is left on the
\* wire, so that the next one cannot read it.
InStep ==
  /\ ~wLog.stray /\ ~wLog.broke
  /\ wSrv.open /\ (wXact = NoXact \/ (wXact.state = "Complete" /\ wXact.fatal # "Yes")) =>
       /\ wSrv.mode = "idle"
       /\ \A m \in ToSet(wToSrv) : m.k \in {"data", "done", "fail"}
       /\ \A m \in ToSet(InFlight) : m.k \in {"A", "FATAL"}

\* Client and session never wait for each other with nothing on the wire: a
\* receiving instruction is owed an answer.  "the commands that were sent past
\* message starting the COPY, need to be re-issued" (xact3.py).
NoStandoff ==
  ~ /\ wSrv.open /\ wXact # NoXact /\ wXact.state = "Receiving"
    /\ wToSrv = <<>> /\ InFlight = <<>>

\* Nothing is lost or taken twice: rows and COPY lines are stored once each, in
\* order, and all of them when the instruction ends without being fatal, whichever
\* path stored them; a notice is on its way to the hook or has been handed to it;
\* a statement or cursor dropped by the garbage collector is in exactly one place:
\* the lists, the transaction that takes the trash out, the wire, or closed.
WireKeepsAll ==
  /\ wXact # NoXact =>
       /\ \A i \in DOMAIN wXact.rows : wXact.rows[i] = i
       /\ wXact.state = "Complete" /\ wXact.fatal # "Yes" /\ wSrv.id = wXact.id
            => Len(wXact.rows) = wSrv.rows
  /\ wSrv.open =>
       /\ \A n \in 1..wLog.notices :
            n \in wLog.told \/ \E m \in ToSet(InFlight) : m.k = "A" /\ m.no = n
       /\ LET names(ms) == LET xs == SelectSeq(ms, LAMBDA m : m.k = "X")
                           IN [i \in DOMAIN xs |-> xs[i].no]
              all == wGarbage \o (IF wXact = NoXact THEN <<>> ELSE names(wXact.messages))
                     \o names(wToSrv) \o wSrv.closed
          IN IsInjective(all) /\ ToSet(all) = wLog.trashed
=============================================================================
