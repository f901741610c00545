------------------------------- MODULE PqCopy -------------------------------
(***************************************************************************)
(* copyman.py: a CopyManager that moves a COPY stream from a producer to       *)
(* several receivers, the WireState that follows message boundaries through    *)
(* arbitrary pieces of the stream, realignment after a failure, and the exit    *)
(* of the manager.  A byte of the stream is its position; a message is a type    *)
(* byte, four length bytes and a body.  The two ends' servers are external.       *)
(***************************************************************************)
EXTENDS Integers, Sequences, FiniteSets, FiniteSetsExt

CONSTANTS
  Stream,     \* the messages of the source: data, or asynchronous, with a body length
  Receivers,  \* the receivers
  Callers     \* those that are CallReceivers; the others are StatementReceivers

ASSUME CopyBounds ==
  /\ Stream \in Seq([data : BOOLEAN, body : Nat])
  /\ Callers \subseteq Receivers

VARIABLES
  yPhase,   \* the manager: new, user (between two calls), transmit, leaving, done
  yTyp,     \* the exception __exit__ will see: none, error or base
  yProd,    \* the producer
  yRecv,    \* the receivers, and who is still in the manager's set
  ySeen,    \* _seen_stop_iteration
  yOut,     \* outcome: running, ok, CopyFail or base
  yLog      \* for the properties

copyVars == <<yPhase, yTyp, yProd, yRecv, ySeen, yOut, yLog>>

Messages == DOMAIN Stream
StartOf[i \in 1..(Len(Stream) + 1)] ==
  IF i = 1 THEN 0 ELSE StartOf[i - 1] + 5 + Stream[i - 1].body
Boundaries == {StartOf[i] : i \in 1..(Len(Stream) + 1)}
Total == StartOf[Len(Stream) + 1]
DataStarts == {StartOf[i] : i \in {j \in Messages : Stream[j].data}}
EndAt(p) == Min({q \in Boundaries : q > p})
DataBytes(a, b) ==
  Cardinality({p \in a..(b - 1) : \E s \in DataStarts : s <= p /\ p < EndAt(s)})
Bytes(a, b) == [i \in 1..(b - a) |-> a + i - 1]
\* ulong_unpack of four bytes: the length of a message, garbage when they are not
\* the length bytes of one.
GetLen(bs) ==
  LET at == {s \in DataStarts : bs = Bytes(s + 1, s + 5)}
  IN IF at = {} THEN 9 ELSE EndAt(CHOOSE s \in at : TRUE) - (CHOOSE s \in at : TRUE) - 1

Fresh == [rem |-> 0, frag |-> <<>>, final |-> -1, n |-> 0]
\* WireState.update on the view of bytes a to b - 1; wirestate.c does the same.
Continued_whole(frag, o) == GetLen(frag)
Continued(frag, o) == GetLen(frag) - o
HeaderPart(ws, a, b) ==
  LET o == Len(ws.frag)
      frag == ws.frag \o Bytes(a, IF a + 4 - o < b THEN a + 4 - o ELSE b)
  IN IF ws.rem # -1 THEN ws
     ELSE IF Len(frag) = 4 THEN [ws EXCEPT !.rem = Continued(frag, o), !.frag = <<>>]
     ELSE [ws EXCEPT !.frag = frag]
AfterBody(ws, a, b) ==
  IF ws.rem = 0 THEN ws
  ELSE IF ws.rem <= b - a THEN [ws EXCEPT !.rem = 0, !.n = @ + 1]
  ELSE [ws EXCEPT !.rem = @ - (b - a)]
\* One turn of its while loop, with the view from t.at on: to the end of the body,
\* then out of the loop, or on with the next message's length.
Turn(t, b) ==
  LET w == AfterBody(t.ws, t.at, b)
      p == IF t.at + t.ws.rem < b THEN t.at + t.ws.rem ELSE b
      Break(ws) == [at |-> p, ws |-> ws, over |-> TRUE]
  IN CASE t.over -> t
       [] ~t.over /\ p = b -> Break(w)
       [] ~t.over /\ p < b /\ p \notin DataStarts -> Break([w EXCEPT !.final = p])
       [] ~t.over /\ p < b /\ p \in DataStarts /\ b - p < 5 ->
            Break([w EXCEPT !.rem = -1, !.frag = @ \o Bytes(p + 1, b)])
       [] OTHER -> [t EXCEPT !.at = p, !.ws = [w EXCEPT !.rem = GetLen(Bytes(p + 1, p + 5)) + 1]]
Update(ws0, a, b) ==
  LET h == HeaderPart(ws0, a, b)
      turn[i \in 0..(b - a + 1)] ==
        IF i = 0 THEN [at |-> a, ws |-> h, over |-> h.rem < 0] ELSE Turn(turn[i - 1], b)
  IN turn[b - a + 1].ws

In == {r \in Receivers : yRecv[r].in}
\* Every receiver in the set accepts n bytes: its view.
Accepts(n) == yRecv' = [r \in Receivers |-> IF r \in In THEN [yRecv[r] EXCEPT !.view = n]
                                            ELSE [yRecv[r] EXCEPT !.missed = @ \/ n > 0]]

\* ProtocolProducer.process_copy_data: what of the view is published, and where
\* the producer stands; bytes that are no COPY data go back to the connection.
Processed(ws, a, b) ==
  LET w == Update([ws EXCEPT !.n = 0], a, b)
      ended == w.final # -1
      e == IF ended THEN w.final ELSE b
  IN [ view |-> e - a,
       prod |-> [ yProd EXCEPT !.at = e, !.ws = w, !.tracked = ~ended, !.msgs = @ + w.n,
                               !.next = IF ended THEN "confiscate" ELSE "recv" ] ]

\* StatementProducer: confiscate what the connection has read, from the next
\* data message on, or receive into the buffer; the end when no data is left.
DataLeft == {s \in DataStarts : s >= yProd.at}
Ahead ==
  CASE yProd.next = "confiscate" /\ DataLeft # {} ->
         {Processed(Fresh, Min(DataLeft), b) : b \in EndAt(Min(DataLeft))..(Total + 1)}
    [] yProd.next = "recv" -> {Processed(yProd.ws, yProd.at, b) : b \in (yProd.at + 1)..(Total + 1)}
    [] OTHER -> {}
\* IteratorProducer: one message at a time.
FromIterator ==
  IF DataLeft = {} THEN {}
  ELSE LET s == Min(DataLeft)
       IN {[view |-> EndAt(s) - s, prod |-> [yProd EXCEPT !.at = EndAt(s), !.msgs = @ + 1]]}
Produced == IF yProd.kind = "iterator" THEN FromIterator ELSE Ahead

\* CopyManager.__enter__: an exception of a receiver's goes to __exit__.
Enter ==
  /\ yPhase = "new"
  /\ \E kind \in {"statement", "iterator"}, ok \in BOOLEAN :
       /\ yProd' = [yProd EXCEPT !.kind = kind, !.running = kind = "statement"]
       /\ yPhase' = IF ok THEN "user" ELSE "leaving"
       /\ yTyp' = IF ok THEN "none" ELSE "error"
  /\ UNCHANGED <<yRecv, ySeen, yOut, yLog>>

\* _service_producer: the next chunk is given to the receivers; without
\* receivers, or at the end of the producer, the iteration stops.
ServiceProducer ==
  /\ yPhase = "user" /\ ~yLog.stopped
  /\ IF In = {} THEN yLog' = [yLog EXCEPT !.stopped = TRUE] /\ UNCHANGED <<yPhase, yProd, yRecv, ySeen>>
     ELSE IF Produced = {}
     THEN /\ ySeen' = TRUE /\ yLog' = [yLog EXCEPT !.stopped = TRUE]
          /\ yProd' = [yProd EXCEPT !.running = FALSE]
          /\ UNCHANGED <<yPhase, yRecv>>
     ELSE /\ \E d \in Produced : yProd' = d.prod /\ Accepts(d.view)
          /\ yPhase' = "transmit" /\ UNCHANGED <<ySeen, yLog>>
  /\ UNCHANGED <<yTyp, yOut>>

\* The source's connection is lost: ProducerFault.
ProducerFault ==
  /\ yPhase = "user" /\ ~yLog.stopped /\ yProd.kind = "statement" /\ yProd.running
  /\ yProd' = [yProd EXCEPT !.dead = TRUE]
  /\ \E trapped \in BOOLEAN :
       /\ yPhase' = "leaving" /\ yTyp' = IF trapped THEN "none" ELSE "error"
       /\ yLog' = [yLog EXCEPT !.early = TRUE]
  /\ UNCHANGED <<yRecv, ySeen, yOut>>

\* _service_receivers: every receiver transmits its view, in as many sends as it
\* takes; those that raise are discarded, and ReceiverFault goes to the program,
\* which goes on or leaves with it.
Sends_once(r, k) == [r EXCEPT !.got = @ + Min({k, 6}), !.view = 0]
Sends(r, k) == [r EXCEPT !.got = @ + k, !.view = @ - k]
Transmit ==
  /\ yPhase = "transmit"
  /\ \E faulty \in SUBSET In : \E part \in {0, 1} :
       /\ Cardinality(faulty) <= 1
       /\ yRecv' = [r \in Receivers |->
            IF r \notin In THEN yRecv[r]
            ELSE IF r \notin faulty THEN Sends(yRecv[r], yRecv[r].view)
            ELSE [Sends(yRecv[r], IF yRecv[r].view > part /\ r \notin Callers THEN part ELSE 0)
                    EXCEPT !.in = FALSE]]
       /\ \/ yPhase' = "user" /\ UNCHANGED yTyp
          \/ faulty # {} /\ yPhase' = "leaving" /\ yTyp' = "error"
  /\ UNCHANGED <<yProd, ySeen, yOut, yLog>>

\* CopyManager.reconcile: the rest of the view is sent, the receiver is back.
Reconcile ==
  /\ yPhase = "user" /\ ~yLog.stopped
  /\ \E r \in Receivers \ In :
       yRecv' = [yRecv EXCEPT ![r] = [Sends(@, @.view) EXCEPT !.in = TRUE]]
  /\ UNCHANGED <<yPhase, yTyp, yProd, ySeen, yOut, yLog>>

\* The program leaves the with block: after the iteration, or before its end
\* by break, an exception or an interrupt.
LeaveBlock ==
  /\ yPhase = "user"
  /\ yTyp' \in {"none", "error", "base"}
  /\ yPhase' = "leaving"
  /\ yLog' = [yLog EXCEPT !.early = @ \/ ~yLog.stopped]
  /\ UNCHANGED <<yProd, yRecv, ySeen, yOut>>

\* ProtocolProducer.realign: the bytes that bring the receivers to the end of
\* the message they are in.  Bodies are short: a part of a length is all zeros.
Padding ==
  IF yProd.kind = "iterator" \/ ~yProd.tracked THEN 0
  ELSE IF yProd.ws.rem = -1 THEN 4 - Len(yProd.ws.frag) ELSE yProd.ws.rem

\* CopyManager.__exit__: realign, one more service of the producer for the
\* padding, the producer's exit, the receivers' exits, and the verdict.
RealignedStop == Padding = 0
Exit ==
  /\ yPhase = "leaving" /\ yTyp # "base"
  /\ LET iterated == yProd.kind = "iterator" /\ FromIterator # {}
         view == IF In = {} THEN 0 ELSE IF iterated THEN (CHOOSE d \in FromIterator : TRUE).view ELSE Padding
         seen == ySeen \/ (In # {} /\ ~iterated /\ RealignedStop)
         interrupts == yProd.kind = "statement" /\ yProd.running /\ ~yProd.dead
     IN \E late \in BOOLEAN, refuse \in BOOLEAN :
          LET profail == interrupts /\ ~late
              fails(r) == r \notin Callers /\ (view > 0 \/ yTyp = "error" \/ refuse)
          IN /\ yRecv' = [r \in Receivers |->
                  IF r \notin In THEN yRecv[r]
                  ELSE [yRecv[r] EXCEPT !.view = view, !.done = IF fails(r) THEN "failed" ELSE "done"]]
             /\ yOut' = IF In = {} \/ yTyp = "error" \/ profail \/ ~seen \/ \E r \in In : fails(r)
                        THEN "CopyFail" ELSE "ok"
             /\ ySeen' = seen
  /\ yPhase' = "done"
  /\ UNCHANGED <<yTyp, yProd, yLog>>
ExitBase ==
  /\ yPhase = "leaving" /\ yTyp = "base"
  /\ yPhase' = "done" /\ yOut' = "base"
  /\ UNCHANGED <<yTyp, yProd, yRecv, ySeen, yLog>>

CopyInit ==
  /\ yPhase = "new" /\ yTyp = "none" /\ ySeen = FALSE /\ yOut = "running"
  /\ yProd = [ kind |-> "statement", at |-> 0, ws |-> Fresh, tracked |-> FALSE, next |-> "confiscate",
               msgs |-> 0, running |-> FALSE, dead |-> FALSE ]
  /\ yRecv = [r \in Receivers |-> [in |-> TRUE, view |-> 0, got |-> 0, missed |-> FALSE, done |-> "open"]]
  /\ yLog = [stopped |-> FALSE, early |-> FALSE]
CopyNext ==
  \/ Enter \/ ServiceProducer \/ ProducerFault \/ Transmit \/ Reconcile \/ LeaveBlock
  \/ Exit \/ ExitBase
CopySpec == CopyInit /\ [][CopyNext]_copyVars

CopyTypeOK ==
  /\ yPhase \in {"new", "user", "transmit", "leaving", "done"}
  /\ yOut \in {"running", "ok", "CopyFail", "base"}
  /\ yProd.at \in 0..(Total + 1)
  /\ \A r \in Receivers : yRecv[r].view \in Nat /\ yRecv[r].got \in Nat

\* However the stream is cut into pieces, the producer knows where it stands in
\* a message and how many messages have passed, so that realign can bring the
\* receivers to a boundary.
WirePosition ==
  LET p == yProd.at
      ws == yProd.ws
      Boundary(q) == q \in Boundaries
  IN /\ yProd.tracked =>
          IF ws.rem = -1 THEN p - 1 - Len(ws.frag) \in DataStarts /\ Len(ws.frag) < 4
          ELSE Boundary(p + ws.rem) /\ ~\E q \in p..(p + ws.rem - 1) : ws.rem > 0 /\ Boundary(q)
     /\ p > 0 => yProd.msgs = Cardinality({s \in DataStarts : EndAt(s) <= p})

\* Between two steps every receiver in the manager's set has accepted exactly the
\* data the producer has passed, after any faults and reconciliations; and a
\* manager that was iterated to its end and left without an exception has given
\* every byte of the source to each of them.  Only a receiver reconciled after
\* the next chunk went by may miss some.
NoSilentTruncation ==
  /\ yPhase \in {"user", "leaving"} =>
       \A r \in In : yRecv[r].missed \/ yRecv[r].got = DataBytes(0, yProd.at)
  /\ yOut = "ok" /\ ~yLog.early =>
       \A r \in In : yRecv[r].done = "done" /\ (yRecv[r].missed \/ yRecv[r].got = DataBytes(0, Total))
=============================================================================
