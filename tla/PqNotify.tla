------------------------------ MODULE PqNotify ------------------------------
(***************************************************************************)
(* NotificationManager (notifyman.py): the loop of __next__ over several     *)
(* connections, with its timeout, while notifications arrive, the program      *)
(* uses the connections between two calls, and connections close or fail.        *)
(* A notification is its number on its connection.                                *)
(***************************************************************************)
EXTENDS Integers, Sequences, FiniteSets, SequencesExt, FiniteSetsExt

CONSTANTS
  Conns,        \* the connections
  MaxNotifies,  \* bound: notifications sent to a connection
  MaxChanges    \* bound: connections closed, failed or taken from the manager

ASSUME NotifyBounds == IsFiniteSet(Conns) /\ MaxNotifies \in Nat /\ MaxChanges \in Nat

VARIABLES
  nSent,     \* notifications the server has sent to each connection
  nRead,     \* those the connection has read
  nPending,  \* Connection._notifies
  nConns,    \* NotificationManager.connections
  nGarbage,  \* NotificationManager.garbage
  nIncoming, \* incoming: None, or an iterator of connections with their notifications
  nTimeout,  \* timeout: "none", "zero" or "some"
  nTimed,    \* is _last_time set?
  nPc,       \* where __next__ is, and checked_wire
  nGone,     \* closed connections
  nLog       \* what has been yielded, and what the properties excuse

notifyVars == <<nSent, nRead, nPending, nConns, nGarbage, nIncoming, nTimeout, nTimed,
                nPc, nGone, nLog>>

None == [there |-> FALSE, pairs |-> <<>>]
Iter(pairs) == [there |-> TRUE, pairs |-> pairs]
Numbers(a, b) == [i \in 1..(b - a) |-> a + i]
Returns(what) == nPc' = [at |-> "user", checked |-> FALSE, out |-> what]
GoesTo(pc) == nPc' = [nPc EXCEPT !.at = pc]

\* __next__ is called.
CallNext ==
  /\ nPc.at = "user"
  /\ nPc' = [at |-> "incoming", checked |-> TRUE, out |-> "running"]
  /\ UNCHANGED <<nSent, nRead, nPending, nConns, nGarbage, nIncoming, nTimeout, nTimed, nGone, nLog>>

\* The next pair of incoming; at its end StopIteration when polling or when no
\* connection is left, or else the loop goes on.
NextIncoming ==
  /\ nPc.at = "incoming"
  /\ CASE ~nIncoming.there -> GoesTo("timed") /\ UNCHANGED <<nIncoming, nLog>>
       [] nIncoming.there /\ nIncoming.pairs # <<>> ->
            LET pair == Head(nIncoming.pairs)
            IN /\ Returns("event") /\ nIncoming' = Iter(Tail(nIncoming.pairs))
               /\ nLog' = [nLog EXCEPT !.got[pair[1]] = @ \o pair[2]]
       [] nIncoming.there /\ nIncoming.pairs = <<>> ->
            /\ nIncoming' = None /\ UNCHANGED nLog
            /\ IF nTimeout = "zero" \/ nConns = {} THEN Returns("stop") ELSE GoesTo("timed")
  /\ UNCHANGED <<nSent, nRead, nPending, nConns, nGarbage, nTimeout, nTimed, nGone>>

\* _timedout, and the choice between the wires and the connections.
Idles(expired) == nTimed /\ nTimeout = "some" /\ expired
TimedOut ==
  /\ nPc.at = "timed"
  /\ \E expired \in BOOLEAN :
       IF Idles(expired) THEN nTimed' = FALSE /\ Returns("idle")
       ELSE /\ nTimed' = ~nTimed
            /\ IF ~nPc.checked /\ nConns # {} THEN GoesTo("wait")
               ELSE nPc' = [nPc EXCEPT !.at = "pull", !.checked = FALSE]
  /\ UNCHANGED <<nSent, nRead, nPending, nConns, nGarbage, nIncoming, nTimeout, nGone, nLog>>

\* _wait_on_wires: closed connections go to garbage; select returns those with
\* something to read or, after the time that is left, none; an empty statement
\* reads each, and one that fails is trashed.
WaitOnWires ==
  /\ nPc.at = "wait"
  /\ LET bad   == {c \in nConns \ nGarbage : c \in nGone}
         check == (nConns \ bad) \ nGarbage
         ready == {c \in check : nRead[c] < nSent[c] \/ c \in nLog.dying}
     IN \E fails \in SUBSET (ready \cap nLog.dying) :
          /\ nRead' = [c \in Conns |-> IF c \in ready THEN nSent[c] ELSE nRead[c]]
          /\ nPending' = [c \in Conns |-> IF c \in ready THEN nPending[c] \o Numbers(nRead[c], nSent[c])
                                          ELSE nPending[c]]
          /\ nConns' = (nConns \ bad) \ fails /\ nGarbage' = nGarbage \cup bad \cup fails
          /\ nGone' = nGone \cup fails
  /\ nPc' = [nPc EXCEPT !.at = "pull", !.checked = TRUE] /\ nTimed' = (nTimed \/ nTimeout # "zero")
  /\ UNCHANGED <<nSent, nIncoming, nTimeout, nLog>>

\* _pull_from_connections and _queue_next.
LeftPending_all(p) == p
LeftPending(p) == <<>>
PullAndQueue ==
  /\ nPc.at = "pull"
  /\ LET full  == {c \in nConns : nPending[c] # <<>>}
         pairs == [c \in full |-> <<c, nPending[c]>>]
     IN /\ \E order \in SetToSeqs(full) :
             nIncoming' = Iter(nIncoming.pairs \o [i \in DOMAIN order |-> pairs[order[i]]])
        /\ nPending' = [c \in Conns |-> IF c \in full THEN LeftPending(nPending[c]) ELSE nPending[c]]
  /\ GoesTo("incoming")
  /\ UNCHANGED <<nSent, nRead, nConns, nGarbage, nTimeout, nTimed, nGone, nLog>>

\* Between two calls the program executes a statement, which reads what has
\* arrived; closes a connection; takes it from the manager; sets the timeout.
UserExecutes ==
  /\ nPc.at = "user"
  /\ \E c \in Conns \ nGone :
       /\ nPending' = [nPending EXCEPT ![c] = @ \o Numbers(nRead[c], nSent[c])]
       /\ nRead' = [nRead EXCEPT ![c] = nSent[c]]
  /\ UNCHANGED <<nSent, nConns, nGarbage, nIncoming, nTimeout, nTimed, nPc, nGone, nLog>>
UserChanges ==
  /\ nPc.at = "user" /\ nLog.changes < MaxChanges
  /\ nLog' = [nLog EXCEPT !.changes = @ + 1]
  /\ \/ \E c \in Conns \ nGone : nGone' = nGone \cup {c} /\ UNCHANGED <<nConns, nTimeout>>
     \/ \E c \in nConns : nConns' = nConns \ {c} /\ UNCHANGED <<nGone, nTimeout>>
     \/ \E c \in Conns \ (nConns \cup nGone) : nConns' = nConns \cup {c} /\ UNCHANGED <<nGone, nTimeout>>
     \/ nTimeout' \in {"none", "zero", "some"} \ {nTimeout} /\ UNCHANGED <<nGone, nConns>>
  /\ UNCHANGED <<nSent, nRead, nPending, nGarbage, nIncoming, nTimed, nPc>>
\* The server sends a notification, or its session is about to end.
NotifySent ==
  /\ \E c \in Conns \ nGone :
       \/ nSent[c] < MaxNotifies /\ nSent' = [nSent EXCEPT ![c] = @ + 1] /\ UNCHANGED nLog
       \/ /\ nLog.changes < MaxChanges /\ c \notin nLog.dying /\ UNCHANGED nSent
          /\ nLog' = [nLog EXCEPT !.dying = @ \cup {c}, !.changes = @ + 1]
  /\ UNCHANGED <<nRead, nPending, nConns, nGarbage, nIncoming, nTimeout, nTimed, nPc, nGone>>

NotifyInit ==
  /\ nSent = [c \in Conns |-> 0] /\ nRead = nSent /\ nPending = [c \in Conns |-> <<>>]
  /\ nConns = Conns /\ nGarbage = {} /\ nIncoming = None /\ nTimed = FALSE
  /\ nTimeout \in {"none", "zero", "some"}
  /\ nPc = [at |-> "user", checked |-> FALSE, out |-> "running"]
  /\ nGone = {}
  /\ nLog = [got |-> [c \in Conns |-> <<>>], changes |-> 0, dying |-> {}]
NotifyNext ==
  \/ CallNext \/ NextIncoming \/ TimedOut \/ WaitOnWires \/ PullAndQueue
  \/ UserExecutes \/ UserChanges \/ NotifySent
NotifySpec == NotifyInit /\ [][NotifyNext]_notifyVars

NotifyTypeOK ==
  /\ nPc.at \in {"user", "incoming", "timed", "wait", "pull"}
  /\ nPc.out \in {"running", "event", "idle", "stop"}
  /\ nConns \subseteq Conns /\ nGarbage \subseteq nGone
  /\ \A c \in Conns : nRead[c] <= nSent[c]

\* Every notification a connection has read is yielded once and in order, or is
\* still with the connection or the manager; and the manager holds none when it
\* signals idle or stops, so that "the iterator may be promptly discarded without
\* losing any events" (notifyman.rst).
EventsOnce ==
  /\ \A c \in Conns :
       LET held == FlattenSeq([ i \in DOMAIN nIncoming.pairs |->
             IF nIncoming.pairs[i][1] = c THEN nIncoming.pairs[i][2] ELSE <<>> ])
       IN nLog.got[c] \o held \o nPending[c] = Numbers(0, nRead[c])
  /\ nPc.out \in {"idle", "stop"} => ~nIncoming.there
=============================================================================
