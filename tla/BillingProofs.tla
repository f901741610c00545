--------------------------- MODULE BillingProofs ---------------------------
(***************************************************************************)
(* Types, ConfirmedIsDurable, NoOperationLost, RepeatsOnlyDoubted,         *)
(* WholeTransfers and NoTransactionLeftBehind of Billing, the verdict of   *)
(* the test and the refinement of AtLeastOnce, for any number of servers,  *)
(* slots, rows, workers, operations and faults.                            *)
(*                                                                         *)
(* None is inductive: that the answer to a COMMIT vouches for the          *)
(* operation of the worker that reads it rests on whose session it is      *)
(* (Owned, Apart), on what was asked on it (Asked), and on where the       *)
(* transaction is in the log (Pending), which in turn needs to know that   *)
(* no session outlives its server (OnUp).                                  *)
(*                                                                         *)
(* That an operation is in the log twice only after a doubt rests on where *)
(* its COMMIT is: not sent (Untried), on its way on one session (SentOnce),*)
(* or in the log (SentFirst).  That a COMMIT commits a whole transfer, and *)
(* no session keeps a transaction behind a worker's back, rests on the     *)
(* state every session has at every step of its worker (Told), on that of  *)
(* the ones let go of (Proper) and on who holds the others (UpIsOwned).    *)
(***************************************************************************)
EXTENDS Billing, SequenceTheorems, TLAPS

-----------------------------------------------------------------------------
(* Type correctness.                                                       *)

\* No replica holds more than the log: what a failover cuts off is a suffix.
ReplayedInLog == \A h \in Hosts : replayed[h] <= Len(log)

LEMMA HostsOfFile ==
    /\ NHosts \in Nat \ {0}
    /\ \A i \in 1 .. NHosts : Rotate(i) \in 1 .. NHosts /\ DbHosts[i] \in Hosts
BY DbHostsAssumption DEF NHosts, Rotate

LEMMA FreeSessionType == FreeSession \in Session
BY DEF FreeSession, Session, SessionStates

LEMMA SessionFields ==
    ASSUME NEW s \in Session
    PROVE  /\ \A st \in SessionStates : [s EXCEPT !.st = st] \in Session
           /\ \A l \in {"up", "cut", "left", "dropped"} :
                [s EXCEPT !.link = l] \in Session
BY DEF Session

\* What a client does to a session keeps the type of sess.
LEMMA ClientTypes ==
    ASSUME ClusterTypeOK, NEW b \in Backends,
           \/ Accept(b) \/ Begin(b) \/ Abort(b) \/ EndBlock(b)
           \/ Disconnect(b) \/ Forget(b)
    PROVE  sess' \in [Backends -> Session]
<1>a. sess[b] \in Session BY DEF ClusterTypeOK
<1>1. CASE Accept(b)
  <2>1. [sess[b] EXCEPT !.st = "idle"] \in Session
    BY <1>a, SessionFields DEF SessionStates
  <2>2. sess' = [sess EXCEPT ![b] = [sess[b] EXCEPT !.st = "idle"]]
    BY <1>1 DEF Accept
  <2> QED BY <2>1, <2>2 DEF ClusterTypeOK
<1>2. CASE Begin(b)
  <2>1. [sess[b] EXCEPT !.st = "block"] \in Session
    BY <1>a, SessionFields DEF SessionStates
  <2>2. sess' = [sess EXCEPT ![b] = [sess[b] EXCEPT !.st = "block"]]
    BY <1>2 DEF Begin
  <2> QED BY <2>1, <2>2 DEF ClusterTypeOK
<1>3. CASE Abort(b)
  <2>1. [FreeSession EXCEPT !.st = "failed"] \in Session
    BY DEF FreeSession, Session, SessionStates
  <2> QED BY <1>3, <2>1 DEF Abort, ClusterTypeOK
<1>4. CASE EndBlock(b)
  <2>1. [FreeSession EXCEPT !.st = "idle"] \in Session
    BY DEF FreeSession, Session, SessionStates
  <2> QED BY <1>4, <2>1 DEF EndBlock, ClusterTypeOK
<1>5. CASE Disconnect(b)
  <2>1. [sess[b] EXCEPT !.link = "dropped"] \in Session BY <1>a DEF Session
  <2> QED BY <1>5, <2>1, FreeSessionType DEF Disconnect, ClusterTypeOK
<1>6. CASE Forget(b)
  <2>1. CASE Healthy(b)
    <3>1. [sess[b] EXCEPT !.link = "left"] \in Session BY <1>a DEF Session
    <3>2. sess' = [sess EXCEPT ![b] = [sess[b] EXCEPT !.link = "left"]]
      BY <1>6, <2>1 DEF Forget
    <3> QED BY <3>1, <3>2 DEF ClusterTypeOK
  <2>2. CASE ~Healthy(b) BY <1>5, <1>6, <2>2 DEF Forget
  <2> QED BY <2>1, <2>2
<1> QED BY <1>1, <1>2, <1>3, <1>4, <1>5, <1>6

LEMMA LockRowType ==
    ASSUME ClusterTypeOK, NEW b \in Backends, NEW r \in Rows, LockRow(b, r)
    PROVE  sess' \in [Backends -> Session]
BY DEF LockRow, ClusterTypeOK, Session

LEMMA ChangeType ==
    ASSUME ClusterTypeOK, NEW b \in Backends, NEW d \in Int, Change(b, d)
    PROVE  sess' \in [Backends -> Session]
<1>1. sess[b].delta \in Int BY DEF ClusterTypeOK, Session
<1>2. sess[b].delta + d \in Int BY <1>1
<1> QED BY <1>2 DEF Change, ClusterTypeOK, Session

LEMMA SendCommitType ==
    ASSUME ClusterTypeOK, NEW b \in Backends, NEW i \in Nat, SendCommit(b, i)
    PROVE  sess' \in [Backends -> Session]
<1>1. [sess[b] EXCEPT !.st = "commit", !.op = i] \in Session
  BY DEF ClusterTypeOK, Session, SessionStates
<1>2. sess' = [sess EXCEPT ![b] = [sess[b] EXCEPT !.st = "commit", !.op = i]]
  BY DEF SendCommit, ClusterTypeOK
<1> QED BY <1>1, <1>2 DEF ClusterTypeOK

LEMMA EndSessionsType ==
    ASSUME ClusterTypeOK, NEW h \in Hosts, NEW how \in {"fatal", "reset"},
           EndSessions(h, how)
    PROVE  sess' \in [Backends -> Session]
BY FreeSessionType
   DEF ClusterTypeOK, EndSessions, ClientEnd, FreeSession, Session, SessionStates

LEMMA ClusterTypes ==
    ASSUME ClusterTypeOK, ReplayedInLog, ClusterNext
    PROVE  ClusterTypeOK'
<1>1. ASSUME NEW b \in Backends, ServerCommit(b) PROVE ClusterTypeOK'
  <2>1. sess[b] \in Session BY DEF ClusterTypeOK
  <2>2. log' \in Seq(Nat \X Int) BY <1>1, <2>1 DEF ClusterTypeOK, ServerCommit, Session
  <2>3. Len(log) + 1 \in Nat BY DEF ClusterTypeOK
  <2>4. sess' \in [Backends -> Session]
    BY <1>1, <2>1, <2>3 DEF ClusterTypeOK, ServerCommit, Session, SessionStates
  <2> QED BY <1>1, <2>2, <2>4 DEF ClusterTypeOK, ServerCommit
<1>2. ASSUME NEW b \in Backends, Reap(b) PROVE ClusterTypeOK'
  BY <1>2, FreeSessionType
     DEF ClusterTypeOK, Reap, ClientEnd, FreeSession, Session, SessionStates
<1>3. ASSUME NEW b \in Backends, Cut(b) PROVE ClusterTypeOK'
  <2>1. sess' \in [Backends -> Session]
    <3> DEFINE l == IF sess[b].link = "up" THEN "cut" ELSE "dropped"
    <3>1. [sess[b] EXCEPT !.link = l] \in Session
      BY SessionFields DEF ClusterTypeOK
    <3>2. sess' = [sess EXCEPT ![b] = [sess[b] EXCEPT !.link = l]]
      BY <1>3 DEF Cut
    <3> QED BY <3>1, <3>2 DEF ClusterTypeOK
  <2>2. faults' \in 0 .. MaxFaults BY <1>3, MaxFaultsAssumption DEF ClusterTypeOK, Cut, Fault
  <2> QED BY <1>3, <2>1, <2>2 DEF ClusterTypeOK, Cut
<1>4. ASSUME NEW h \in Hosts, Replay(h) PROVE ClusterTypeOK'
  BY <1>4 DEF ClusterTypeOK, Replay
<1>5. ASSUME NEW h \in Hosts, Switchover(h) PROVE ClusterTypeOK'
  <2>1. sess' \in [Backends -> Session]
    BY <1>5, EndSessionsType DEF ClusterTypeOK, Switchover
  <2>2. faults' \in 0 .. MaxFaults
    BY <1>5, MaxFaultsAssumption DEF ClusterTypeOK, Switchover, Fault
  <2> QED BY <1>5, <2>1, <2>2 DEF ClusterTypeOK, Switchover
<1>6. ASSUME NEW h \in Hosts, Crash(h) PROVE ClusterTypeOK'
  <2>1. sess' \in [Backends -> Session] BY <1>6, EndSessionsType DEF ClusterTypeOK, Crash
  <2>2. faults' \in 0 .. MaxFaults
    BY <1>6, MaxFaultsAssumption DEF ClusterTypeOK, Crash, Fault
  <2> QED BY <1>6, <2>1, <2>2 DEF ClusterTypeOK, Crash
<1>7. ASSUME NEW h \in Hosts, Failover(h) PROVE ClusterTypeOK'
  <2>1. replayed[h] \in 0 .. Len(log) BY DEF ClusterTypeOK, ReplayedInLog
  <2>2. log' \in Seq(Nat \X Int)
    BY <1>7, <2>1, SubSeqProperties DEF Failover, ClusterTypeOK
  <2> QED BY <1>7, <2>2 DEF ClusterTypeOK, Failover
<1>8. ASSUME NEW h \in Hosts, Restart(h) PROVE ClusterTypeOK'
  BY <1>8 DEF ClusterTypeOK, Restart
<1> QED
  BY <1>1, <1>2, <1>3, <1>4, <1>5, <1>6, <1>7, <1>8 DEF ClusterNext

-----------------------------------------------------------------------------
(* A worker that is inside an attempt has a session.                       *)

InAttempt(w) ==
    \/ pc[w] \in {"begin", "select", "lock", "debit", "credit", "commit",
                  "reply", "abort", "rollback"}
    \/ pc[w] = "except" /\ exc[w] = "deadlock"

HasSession ==
    \A w \in Workers :
      /\ InAttempt(w) => db_local[w] \in Backends
      /\ pc[w] = "lock" => want[w] \in Rows

TypeInv == TypeOK /\ ReplayedInLog /\ HasSession

LEMMA TypeInit == Init => TypeInv
<1> SUFFICES ASSUME Init PROVE TypeInv
  OBVIOUS
<1>1. ClusterTypeOK
  BY HostsAssumption, MaxFaultsAssumption, FreeSessionType, EmptySeq
     DEF Init, ClusterInit, ClusterTypeOK
<1>2. ReplayedInLog BY DEF Init, ClusterInit, ReplayedInLog
<1>3. 1 \in 1 .. NHosts BY HostsOfFile
<1>4. WorkerTypeOK /\ MainTypeOK /\ HistoryTypeOK
  BY <1>3 DEF Init, WorkerTypeOK, MainTypeOK, HistoryTypeOK, WorkerStates,
              Exceptions, NoRow
<1>5. HasSession BY DEF Init, HasSession, InAttempt
<1> QED BY <1>1, <1>2, <1>4, <1>5 DEF TypeInv, TypeOK

\* The part of a worker's step that is the same in all of them.
LEMMA WorkerFrame ==
    ASSUME TypeInv, NEW w \in Workers,
           NEW l \in WorkerStates, pc' = [pc EXCEPT ![w] = l],
           sess' \in [Backends -> Session], acked' \in Nat,
           UNCHANGED <<primary, up, replayed, log, faults, mvars, is_terminate>>,
           operation_num' \in Nat, HistoryTypeOK', WorkerTypeOK',
           \A v \in Workers \ {w} :
             UNCHANGED <<exc[v], db_local[v], want[v]>>,
           InAttempt(w)' => db_local'[w] \in Backends,
           l = "lock" => want'[w] \in Rows
    PROVE  TypeInv'
<1>1. TypeOK'
  BY DEF TypeInv, TypeOK, ClusterTypeOK, MainTypeOK, mvars
<1>2. ReplayedInLog' BY DEF TypeInv, ReplayedInLog
<1>3. HasSession'
  BY DEF TypeInv, HasSession, InAttempt, TypeOK, WorkerTypeOK
<1> QED BY <1>1, <1>2, <1>3 DEF TypeInv

LEMMA DropTypes ==
    ASSUME TypeInv, NEW w \in Workers, DropSession(w)
    PROVE  /\ sess' \in [Backends -> Session]
           /\ db_local' \in [Workers -> Backends \cup {NoSession}]
           /\ \A v \in Workers \ {w} : UNCHANGED db_local[v]
<1>1. db_local[w] \in Backends \cup {NoSession}
  BY DEF TypeInv, TypeOK, WorkerTypeOK
<1>2. sess' \in [Backends -> Session]
  <2>1. CASE db_local[w] = NoSession
    BY <2>1 DEF DropSession, TypeInv, TypeOK, ClusterTypeOK
  <2>2. CASE db_local[w] # NoSession
    <3>1. Forget(db_local[w]) BY <2>2 DEF DropSession
    <3> QED BY <1>1, <2>2, <3>1, ClientTypes DEF TypeInv, TypeOK
  <2> QED BY <2>1, <2>2
<1> QED BY <1>2 DEF DropSession, TypeInv, TypeOK, WorkerTypeOK

LEMMA LoopTypes ==
    ASSUME TypeInv, NEW w \in Workers, While(w) \/ Load(w) \/ Store(w)
    PROVE  TypeInv'
<1> USE DEF TypeInv, TypeOK, WorkerTypeOK, MainTypeOK, HistoryTypeOK, svars,
            mvars, hvars, Goto, WorkerStates, TaskStates, Ended
<1>1. CASE While(w)
  <2>1. sess' \in [Backends -> Session]
    <3>1. db_local[w] \in Backends \cup {NoSession} OBVIOUS
    <3> QED BY <1>1, <3>1, ClientTypes DEF While, ClusterTypeOK
  <2>2. PICK l \in {"load", "finished", "dead"} : pc' = [pc EXCEPT ![w] = l]
    BY <1>1 DEF While
  <2>3. WorkerTypeOK' BY <1>1, <2>2 DEF While, WorkerStates
  <2>4. ~InAttempt(w)' BY <2>2 DEF InAttempt
  <2>5. \A v \in Workers \ {w} : UNCHANGED <<exc[v], db_local[v], want[v]>>
    BY <1>1 DEF While
  <2>6. /\ acked' \in Nat /\ operation_num' \in Nat /\ HistoryTypeOK'
        /\ UNCHANGED <<primary, up, replayed, log, faults, mvars, is_terminate>>
    BY <1>1 DEF While, servers, ClusterTypeOK
  <2>7. l \in WorkerStates /\ l # "lock" OBVIOUS
  <2> HIDE DEF TypeInv, WorkerTypeOK, HistoryTypeOK, mvars, WorkerStates
  <2> QED BY <2>1, <2>2, <2>3, <2>4, <2>5, <2>6, <2>7, WorkerFrame
<1>2. CASE Load(w)
  <2>1. WorkerTypeOK' BY <1>2 DEF Load, conn, WorkerStates
  <2> QED
    BY <1>2, <2>1, WorkerFrame
       DEF Load, cvars, conn, WorkerStates, InAttempt, ClusterTypeOK
<1>3. CASE Store(w)
  <2>1. WorkerTypeOK' BY <1>3 DEF Store, conn, WorkerStates
  <2>2. /\ acked' \in Nat /\ operation_num' \in Nat /\ HistoryTypeOK'
        /\ UNCHANGED <<primary, up, replayed, log, faults, mvars, is_terminate>>
        /\ sess' \in [Backends -> Session]
    BY <1>3 DEF Store, cvars, ClusterTypeOK
  <2>3. /\ pc' = [pc EXCEPT ![w] = "connect"]
        /\ ~InAttempt(w)'
        /\ \A v \in Workers \ {w} : UNCHANGED <<exc[v], db_local[v], want[v]>>
    BY <1>3 DEF Store, conn, InAttempt
  <2> HIDE DEF TypeInv, WorkerTypeOK, HistoryTypeOK, mvars
  <2> QED BY <2>1, <2>2, <2>3, WorkerFrame
<1> QED BY <1>1, <1>2, <1>3

LEMMA ConnectTypes ==
    ASSUME TypeInv, NEW w \in Workers,
           Connect(w) \/ ConnectFails(w) \/ KeepSession(w)
    PROVE  TypeInv'
<1> USE DEF TypeInv, TypeOK, WorkerTypeOK, MainTypeOK, HistoryTypeOK, svars,
            mvars, hvars, Goto, WorkerStates, TaskStates, Ended
<1>1. ASSUME ChooseHost(w)
      PROVE  /\ at' \in [Workers -> 1 .. NHosts]
             /\ reconnect_attempt' \in [Workers -> Nat]
             /\ Target(w) \in Hosts
  BY <1>1, HostsOfFile DEF ChooseHost, ConnectingTo, Target
<1>2. CASE Connect(w)
  <2>1. PICK p \in Pids :
          /\ Accept(<<Target(w), p>>)
          /\ db_local' = [db_local EXCEPT ![w] = <<Target(w), p>>]
    BY <1>2 DEF Connect
  <2>2. ChooseHost(w) BY <1>2 DEF Connect
  <2>3. <<Target(w), p>> \in Backends BY <1>1, <2>2 DEF Backends
  <2>4. sess' \in [Backends -> Session] BY <2>1, <2>3, ClientTypes
  <2>5. WorkerTypeOK'
    BY <1>1, <1>2, <2>1, <2>2, <2>3 DEF Connect, ChooseHost, WorkerStates
  <2>6. /\ pc' = [pc EXCEPT ![w] = "begin"]
        /\ db_local'[w] \in Backends
        /\ \A v \in Workers \ {w} : UNCHANGED <<exc[v], db_local[v], want[v]>>
    BY <1>2, <2>1, <2>2, <2>3 DEF Connect, ChooseHost
  <2>7. /\ acked' \in Nat /\ operation_num' \in Nat /\ HistoryTypeOK'
        /\ UNCHANGED <<primary, up, replayed, log, faults, mvars, is_terminate>>
    BY <2>2 DEF ChooseHost, servers, ClusterTypeOK
  <2> HIDE DEF TypeInv, WorkerTypeOK, HistoryTypeOK, mvars
  <2> QED BY <2>4, <2>5, <2>6, <2>7, WorkerFrame
<1>3. CASE ConnectFails(w)
  <2>1. ChooseHost(w) BY <1>3 DEF ConnectFails
  <2>2. WorkerTypeOK'
    BY <1>1, <1>3, <2>1
       DEF ConnectFails, ChooseHost, WorkerStates, Raise, Exceptions
  <2>3. /\ pc' = [pc EXCEPT ![w] = "except"]
        /\ ~InAttempt(w)'
        /\ \A v \in Workers \ {w} : UNCHANGED <<exc[v], db_local[v], want[v]>>
    BY <1>3, <2>1 DEF ConnectFails, ChooseHost, Raise, InAttempt
  <2>4. /\ acked' \in Nat /\ operation_num' \in Nat /\ HistoryTypeOK'
        /\ UNCHANGED <<primary, up, replayed, log, faults, mvars, is_terminate>>
        /\ sess' \in [Backends -> Session]
    BY <1>3, <2>1 DEF ConnectFails, ChooseHost, servers, ClusterTypeOK
  <2> HIDE DEF TypeInv, WorkerTypeOK, HistoryTypeOK, mvars
  <2> QED BY <2>2, <2>3, <2>4, WorkerFrame
<1>4. CASE KeepSession(w)
  <2>1. WorkerTypeOK' BY <1>4 DEF KeepSession, conn, WorkerStates
  <2> QED
    BY <1>4, <2>1, WorkerFrame
       DEF KeepSession, cvars, conn, WorkerStates, InAttempt, ClusterTypeOK
<1> QED BY <1>2, <1>3, <1>4

\* A statement of the task leaves everything alone but the session, the row
\* asked for and the history.
LEMMA StatementTypes ==
    ASSUME TypeInv, NEW w \in Workers, NEW here, Statement(w, here),
           NEW l \in WorkerStates, Goto(w, l),
           sess' \in [Backends -> Session], acked' \in Nat,
           UNCHANGED <<primary, up, replayed, log, faults, claims, op, doubted>>,
           confirmed' \subseteq Nat,
           want' \in [Workers -> Rows \cup {NoRow}],
           \A v \in Workers \ {w} : UNCHANGED want[v],
           l = "lock" => want'[w] \in Rows,
           InAttempt(w)
    PROVE  TypeInv'
<1>1. WorkerTypeOK' /\ HistoryTypeOK'
  BY DEF TypeInv, TypeOK, WorkerTypeOK, HistoryTypeOK, Statement, conn, Goto
<1>2. db_local[w] \in Backends BY DEF TypeInv, HasSession
<1>3. /\ UNCHANGED <<mvars, is_terminate>> /\ operation_num' \in Nat
      /\ pc' = [pc EXCEPT ![w] = l]
      /\ db_local'[w] \in Backends
      /\ \A v \in Workers \ {w} : UNCHANGED <<exc[v], db_local[v], want[v]>>
  BY <1>2 DEF TypeInv, TypeOK, MainTypeOK, Statement, conn, svars, mvars, Goto
<1> QED BY <1>1, <1>3, WorkerFrame

LEMMA TaskTypes ==
    ASSUME TypeInv, NEW w \in Workers,
           \/ Select(w) \/ Lock(w) \/ Debit(w) \/ Credit(w) \/ Commit(w) \/ Reply(w)
    PROVE  TypeInv'
<1> DEFINE b == db_local[w]
<1> USE DEF WorkerStates, TaskStates, servers, cvars, hvars
<1>1. /\ ClusterTypeOK /\ confirmed \subseteq Nat /\ op[w] \in Nat
      /\ sess \in [Backends -> Session] /\ acked \in Nat
      /\ want \in [Workers -> Rows \cup {NoRow}]
  BY DEF TypeInv, TypeOK, ClusterTypeOK, WorkerTypeOK, HistoryTypeOK
<1>2. InAttempt(w) /\ b \in Backends
  <2>1. pc[w] \in {"select", "lock", "debit", "credit", "commit", "reply"}
    BY DEF Select, Lock, Debit, Credit, Commit, Reply, Statement
  <2> QED BY <2>1 DEF InAttempt, TypeInv, HasSession
<1>3. CASE Select(w)
  BY <1>1, <1>2, <1>3, StatementTypes DEF Select
<1>4. CASE Lock(w)
  <2>1. want[w] \in Rows BY <1>4 DEF Lock, Statement, TypeInv, HasSession
  <2>2. sess' \in [Backends -> Session]
    BY <1>1, <1>2, <1>4, <2>1, LockRowType DEF Lock
  <2>3. CASE sess[b].rows = {}
    <3>1. PICK r \in Rows \ {want[w]} : want' = [want EXCEPT ![w] = r]
      BY <1>4, <2>3 DEF Lock
    <3>2. pc[w] = "lock" /\ pc' = pc BY <1>4, <2>3 DEF Lock, Statement
    <3>3. Goto(w, "lock")
      BY <3>2 DEF Goto, TypeInv, TypeOK, WorkerTypeOK
    <3> QED BY <1>1, <1>2, <1>4, <2>2, <3>1, <3>3, StatementTypes DEF Lock
  <2>4. CASE sess[b].rows # {}
    BY <1>1, <1>2, <1>4, <2>2, <2>4, StatementTypes DEF Lock
  <2> QED BY <2>3, <2>4
<1>5. CASE Debit(w)
  <2>1. sess' \in [Backends -> Session]
    BY <1>1, <1>2, <1>5, ChangeType, AmountAssumption DEF Debit
  <2> QED BY <1>1, <1>2, <1>5, <2>1, StatementTypes DEF Debit
<1>6. CASE Credit(w)
  <2>1. sess' \in [Backends -> Session]
    BY <1>1, <1>2, <1>6, ChangeType, AmountAssumption DEF Credit
  <2> QED BY <1>1, <1>2, <1>6, <2>1, StatementTypes DEF Credit
<1>7. CASE Commit(w)
  <2>1. sess' \in [Backends -> Session]
    BY <1>1, <1>2, <1>7, SendCommitType DEF Commit
  <2> QED BY <1>1, <1>2, <1>7, <2>1, StatementTypes DEF Commit
<1>8. CASE Reply(w)
  <2>1. Acknowledge(b) BY <1>8 DEF Reply
  <2>2. sess' \in [Backends -> Session]
    BY <1>1, <1>2, <2>1, ClientTypes DEF Acknowledge
  <2>3. acked' \in Nat BY <1>1, <1>2, <2>1 DEF Acknowledge, Session
  <2> QED BY <1>1, <1>2, <1>8, <2>2, <2>3, StatementTypes DEF Reply
<1> QED BY <1>3, <1>4, <1>5, <1>6, <1>7, <1>8

\* A step that only moves a worker and sets its exception: what the error
\* paths have in common.
LEMMA ErrorTypes ==
    ASSUME TypeInv, NEW w \in Workers,
           NEW l \in WorkerStates \ {"lock"}, Goto(w, l),
           NEW e \in Exceptions, exc' = [exc EXCEPT ![w] = e],
           sess' \in [Backends -> Session],
           db_local' \in [Workers -> Backends \cup {NoSession}],
           \A v \in Workers \ {w} : UNCHANGED db_local[v],
           want' \in {want, [want EXCEPT ![w] = NoRow]},
           reconnect_attempt' \in [Workers -> Nat],
           at' \in [Workers -> 1 .. NHosts],
           doubted' \subseteq Nat,
           UNCHANGED <<servers, svars, reg, mvars, claims, op, confirmed>>,
           InAttempt(w)' => db_local'[w] \in Backends
    PROVE  TypeInv'
<1>1. WorkerTypeOK'
  BY DEF TypeInv, TypeOK, WorkerTypeOK, Goto
<1>2. HistoryTypeOK' BY DEF TypeInv, TypeOK, HistoryTypeOK
<1>3. /\ acked' \in Nat /\ operation_num' \in Nat
      /\ UNCHANGED <<primary, up, replayed, log, faults, mvars, is_terminate>>
  BY DEF TypeInv, TypeOK, ClusterTypeOK, MainTypeOK, servers, svars
<1>4. \A v \in Workers \ {w} : UNCHANGED <<exc[v], db_local[v], want[v]>>
  BY DEF TypeInv, TypeOK, WorkerTypeOK
<1> QED BY <1>1, <1>2, <1>3, <1>4, WorkerFrame DEF Goto

LEMMA AbortTypes ==
    ASSUME TypeInv, NEW w \in Workers,
           \/ Start(w) \/ SessionLost(w) \/ ReadOnly(w) \/ Deadlock(w)
           \/ Canceled(w) \/ ExitRollback(w)
    PROVE  TypeInv'
<1> DEFINE b == db_local[w]
<1> USE DEF conn, hvars
<1>1. /\ ClusterTypeOK /\ doubted \subseteq Nat /\ op[w] \in Nat
      /\ sess \in [Backends -> Session]
      /\ db_local \in [Workers -> Backends \cup {NoSession}]
      /\ exc \in [Workers -> Exceptions] /\ exc = [exc EXCEPT ![w] = exc[w]]
      /\ reconnect_attempt \in [Workers -> Nat] /\ at \in [Workers -> 1 .. NHosts]
  BY DEF TypeInv, TypeOK, ClusterTypeOK, WorkerTypeOK, HistoryTypeOK
<1>2. InAttempt(w) /\ b \in Backends
  <2>1. pc[w] \in {"begin", "select", "lock", "debit", "credit", "commit",
                   "reply", "abort"}
    BY DEF Start, SessionLost, ReadOnly, Deadlock, Canceled, ExitRollback
  <2> QED BY <2>1 DEF InAttempt, TypeInv, HasSession
<1>3. /\ {"select", "dead", "abort", "except"} \subseteq WorkerStates \ {"lock"}
      /\ {"none", "deadlock", "readonly", "canceled", "shutdown", "connection"}
           = Exceptions
      /\ LossOf(b) \in Exceptions
  BY DEF WorkerStates, TaskStates, Ended, Exceptions, LossOf
<1>4. ASSUME NEW e \in Exceptions, Fails(w, e) PROVE TypeInv'
  <2>1. sess' \in [Backends -> Session]
    BY <1>1, <1>2, <1>4, ClientTypes DEF Fails
  <2> QED
    BY <1>1, <1>2, <1>3, <1>4, <2>1, ErrorTypes DEF Fails, Raise
<1>5. CASE Start(w)
  <2>1. CASE sess[b].st = "idle"
    <3>1. sess' \in [Backends -> Session]
      BY <1>1, <1>2, <1>5, <2>1, ClientTypes DEF Start
    <3> QED BY <1>1, <1>2, <1>3, <1>5, <2>1, <3>1, ErrorTypes DEF Start
  <2>2. CASE sess[b].st # "idle"
    <3>1. DropSession(w) /\ Goto(w, "dead") BY <1>5, <2>2 DEF Start
    <3>2. ~InAttempt(w)' BY <3>1 DEF Goto, InAttempt, TypeInv, TypeOK, WorkerTypeOK
    <3> QED
      BY <1>1, <1>2, <1>3, <1>5, <3>1, <3>2, DropTypes, ErrorTypes DEF Start
  <2> QED BY <2>1, <2>2
<1>6. CASE SessionLost(w)
  <2>1. doubted' \subseteq Nat BY <1>1, <1>6 DEF SessionLost
  <2>2. sess' \in [Backends -> Session] /\ UNCHANGED servers
    BY <1>1, <1>6 DEF SessionLost, cvars, servers
  <2>3. exc' = [exc EXCEPT ![w] = LossOf(b)] BY <1>6 DEF SessionLost, Raise
  <2> QED
    BY <1>1, <1>2, <1>3, <1>6, <2>1, <2>2, <2>3, ErrorTypes DEF SessionLost
<1>7. CASE ReadOnly(w) BY <1>3, <1>4, <1>7 DEF ReadOnly
<1>8. CASE Deadlock(w) BY <1>3, <1>4, <1>8 DEF Deadlock
<1>9. CASE Canceled(w) BY <1>3, <1>4, <1>9 DEF Canceled
<1>10. CASE ExitRollback(w)
  <2>1. CASE Healthy(b)
    <3>1. sess' \in [Backends -> Session]
      BY <1>1, <1>2, <1>10, <2>1, ClientTypes DEF ExitRollback
    <3> QED
      BY <1>1, <1>2, <1>3, <1>10, <2>1, <3>1, ErrorTypes DEF ExitRollback
  <2>2. CASE ~Healthy(b)
    BY <1>1, <1>2, <1>3, <1>10, <2>2, ErrorTypes DEF ExitRollback, Raise
  <2> QED BY <2>1, <2>2
<1> QED BY <1>5, <1>6, <1>7, <1>8, <1>9, <1>10

LEMMA HandlerTypes ==
    ASSUME TypeInv, NEW w \in Workers, Handler(w)
    PROVE  TypeInv'
<1> USE DEF conn, hvars
<1>1. /\ ClusterTypeOK /\ doubted \subseteq Nat
      /\ sess \in [Backends -> Session]
      /\ db_local \in [Workers -> Backends \cup {NoSession}]
      /\ pc \in [Workers -> WorkerStates]
      /\ exc \in [Workers -> Exceptions] /\ exc = [exc EXCEPT ![w] = exc[w]]
      /\ reconnect_attempt \in [Workers -> Nat] /\ at \in [Workers -> 1 .. NHosts]
      /\ at[w] \in 1 .. NHosts /\ Rotate(at[w]) \in 1 .. NHosts
  BY HostsOfFile
     DEF TypeInv, TypeOK, ClusterTypeOK, WorkerTypeOK, HistoryTypeOK
<1>2. /\ {"connect", "rollback", "returned", "dead"} \subseteq WorkerStates \ {"lock"}
      /\ "none" \in Exceptions /\ exc[w] \in Exceptions
  BY <1>1 DEF WorkerStates, TaskStates, Ended, Exceptions
<1>3. ASSUME NEW l \in {"connect", "returned", "dead"}, Goto(w, l)
      PROVE  ~InAttempt(w)'
  BY <1>1, <1>3 DEF Goto, InAttempt
<1>4. CASE OnDeadlock(w)
  <2>1. /\ Goto(w, "rollback") /\ exc' = [exc EXCEPT ![w] = "none"]
        /\ UNCHANGED <<servers, svars, reg, want, mvars, hvars, sess, conn>>
    BY <1>4 DEF OnDeadlock, Handled, Raise
  <2>2. InAttempt(w)
    BY <1>4 DEF OnDeadlock, Handled, InAttempt
  <2>3. db_local'[w] \in Backends BY <2>1, <2>2 DEF TypeInv, HasSession
  <2> QED BY <1>1, <1>2, <2>1, <2>3, ErrorTypes
<1>5. CASE HandlerRollback(w)
  <2>1. CASE Healthy(db_local[w])
    <3>1. EndBlock(db_local[w]) /\ Goto(w, "connect") /\ pc[w] = "rollback"
      BY <1>5, <2>1 DEF HandlerRollback
    <3>2. db_local[w] \in Backends
      BY <3>1 DEF TypeInv, HasSession, InAttempt
    <3>3. sess' \in [Backends -> Session] BY <1>1, <3>1, <3>2, ClientTypes
    <3> QED
      BY <1>1, <1>2, <1>3, <1>5, <2>1, <3>1, <3>3, ErrorTypes DEF HandlerRollback
  <2>2. CASE ~Healthy(db_local[w])
    <3>1. DropSession(w) /\ Goto(w, "dead") BY <1>5, <2>2 DEF HandlerRollback
    <3> QED
      BY <1>1, <1>2, <1>3, <1>5, <3>1, DropTypes, ErrorTypes
         DEF HandlerRollback
  <2> QED BY <2>1, <2>2
<1>6. CASE OnReadOnly(w)
  <2>1. at' \in [Workers -> 1 .. NHosts] BY <1>1, <1>6 DEF OnReadOnly
  <2> QED
    BY <1>1, <1>2, <1>3, <1>6, <2>1, DropTypes, ErrorTypes
       DEF OnReadOnly, Handled, Raise
<1>7. CASE OnShutdown(w)
  BY <1>1, <1>2, <1>3, <1>7, DropTypes, ErrorTypes
     DEF OnShutdown, Handled, Raise
<1>8. CASE OnTerminate(w)
  BY <1>1, <1>2, <1>3, <1>8, DropTypes, ErrorTypes
     DEF OnTerminate, Handled, Raise
<1>9. CASE OnConnection(w)
  <2>1. reconnect_attempt' \in [Workers -> Nat] BY <1>1, <1>9 DEF OnConnection
  <2> QED
    BY <1>1, <1>2, <1>3, <1>9, <2>1, DropTypes, ErrorTypes
       DEF OnConnection, Handled, Raise
<1> QED
  BY <1>4, <1>5, <1>6, <1>7, <1>8, <1>9 DEF Handler

LEMMA MainTypes ==
    ASSUME TypeInv, Main \/ MainQueryLost \/ Interrupt
    PROVE  TypeInv'
<1> USE DEF mvars, svars, conn
<1>1. /\ mainAt \in 1 .. NHosts /\ mainAttempt \in Nat /\ mainAt' \in 1 .. NHosts
      /\ mainAttempt' \in Nat
  <2>1. mainAt \in 1 .. NHosts /\ mainAttempt \in Nat
    BY DEF TypeInv, TypeOK, MainTypeOK
  <2>2. /\ MainHost \in 1 .. NHosts /\ MainTries \in Nat
        /\ MainTries + 1 \in Nat /\ 1 \in 1 .. NHosts
    BY <2>1, HostsOfFile DEF MainHost, MainTries
  <2> QED
    BY <2>1, <2>2
       DEF Main, MainRefused, InitTables, AllDead, Validate, MainQueryLost,
           Interrupt, MainDone
<1>2. MainTypeOK'
  BY <1>1
     DEF TypeInv, TypeOK, MainTypeOK, Main, MainRefused, InitTables, AllDead,
         Validate, MainQueryLost, Interrupt, MainDone
<1>3. /\ UNCHANGED <<primary, up, replayed, log, acked, sess>>
      /\ UNCHANGED <<reg, conn, want, exc, hvars>>
  BY DEF Main, MainRefused, InitTables, AllDead, Validate, MainQueryLost,
         Interrupt, cvars, wvars
<1>4. ClusterTypeOK'
  <2>1. faults' \in 0 .. MaxFaults
    BY MaxFaultsAssumption
       DEF Main, MainRefused, InitTables, AllDead, Validate, MainQueryLost,
           Interrupt, cvars, Fault, TypeInv, TypeOK, ClusterTypeOK
  <2> QED BY <1>3, <2>1 DEF TypeInv, TypeOK, ClusterTypeOK
<1>5. pc' \in {pc, [w \in Workers |-> "while"]}
  BY DEF Main, MainRefused, InitTables, AllDead, Validate, MainQueryLost,
         Interrupt, wvars
<1>6. WorkerTypeOK' /\ HistoryTypeOK' /\ HasSession' /\ ReplayedInLog'
  BY <1>3, <1>5
     DEF TypeInv, TypeOK, WorkerTypeOK, HistoryTypeOK, HasSession, InAttempt,
         ReplayedInLog, hvars, WorkerStates
<1> QED BY <1>2, <1>4, <1>6 DEF TypeInv, TypeOK

LEMMA ClusterStepTypes ==
    ASSUME TypeInv, Cluster
    PROVE  TypeInv'
<1>1. ClusterTypeOK'
  BY ClusterTypes DEF Cluster, TypeInv, TypeOK
<1>2. ReplayedInLog'
  <2> USE DEF TypeInv, TypeOK, ClusterTypeOK, ReplayedInLog
  <2>1. ASSUME NEW b \in Backends, ServerCommit(b) \/ Reap(b) \/ Cut(b)
        PROVE  ReplayedInLog'
    BY <2>1 DEF ServerCommit, Reap, Cut
  <2>2. ASSUME NEW h \in Hosts, Replay(h) \/ Crash(h) \/ Restart(h)
        PROVE  ReplayedInLog'
    <3>1. CASE Replay(h)
      <4>1. /\ replayed' = [replayed EXCEPT ![h] = replayed[h] + 1]
            /\ log' = log /\ replayed[h] < Len(log)
        BY <3>1 DEF Replay
      <4>2. Len(log) \in Nat /\ replayed[h] \in Nat OBVIOUS
      <4>3. replayed[h] + 1 <= Len(log) BY <4>1, <4>2
      <4> QED BY <4>1, <4>3
    <3>2. CASE Crash(h) \/ Restart(h) BY <3>2 DEF Crash, Restart
    <3> QED BY <2>2, <3>1, <3>2
  <2>4. ASSUME NEW h \in Hosts, Switchover(h) PROVE ReplayedInLog'
    <3>1. replayed' = [replayed EXCEPT ![primary] = Len(log)] /\ log' = log
      BY <2>4 DEF Switchover
    <3>2. Len(log) \in Nat OBVIOUS
    <3> QED BY <3>1, <3>2
  <2>3. ASSUME NEW h \in Hosts, Failover(h) PROVE ReplayedInLog'
    <3>1. Len(log') = replayed[h]
      BY <2>3, SubSeqProperties DEF Failover
    <3>2. replayed[h] \in Nat /\ \A g \in Hosts : replayed[g] \in Nat OBVIOUS
    <3>3. ASSUME NEW g \in Hosts PROVE replayed'[g] <= replayed[h]
      <4>1. replayed'[g] = IF g = primary \/ replayed[g] > replayed[h]
                           THEN replayed[h] ELSE replayed[g]
        BY <2>3 DEF Failover
      <4> QED BY <3>2, <4>1
    <3> QED BY <3>1, <3>3 DEF ReplayedInLog
  <2> QED BY <2>1, <2>2, <2>3, <2>4 DEF Cluster, ClusterNext
<1>3. WorkerTypeOK' /\ MainTypeOK' /\ HistoryTypeOK' /\ HasSession'
  BY DEF TypeInv, TypeOK, WorkerTypeOK, MainTypeOK, HistoryTypeOK, HasSession,
         InAttempt, Cluster, svars, wvars, mvars, hvars
<1> QED BY <1>1, <1>2, <1>3 DEF TypeInv, TypeOK

LEMMA TypeStep == TypeInv /\ [Next]_vars => TypeInv'
<1> SUFFICES ASSUME TypeInv, [Next]_vars PROVE TypeInv'
  OBVIOUS
<1>1. ASSUME NEW w \in Workers, Worker(w) \/ Deadlock(w) \/ Canceled(w)
      PROVE  TypeInv'
  BY <1>1, LoopTypes, ConnectTypes, TaskTypes, AbortTypes, HandlerTypes
     DEF Worker, Attempt
<1>2. CASE Main \/ MainQueryLost \/ Interrupt BY <1>2, MainTypes
<1>3. CASE Cluster BY <1>3, ClusterStepTypes
<1>4. CASE UNCHANGED vars
  BY <1>4
     DEF TypeInv, TypeOK, ClusterTypeOK, WorkerTypeOK, MainTypeOK,
         HistoryTypeOK, ReplayedInLog, HasSession, InAttempt, vars, cvars,
         svars, wvars, mvars, hvars
<1> QED BY <1>1, <1>2, <1>3, <1>4 DEF Next

LEMMA TypeInvariant == Spec => []TypeInv
BY TypeInit, TypeStep, PTL DEF Spec

\* Whatever the servers do, the variables of worker_func and of the main thread
\* keep the types the code gives them: the position in db_hosts stays in the
\* list, for instance.
THEOREM TypeCorrect == Spec => []TypeOK
<1>1. TypeInv => TypeOK BY DEF TypeInv
<1> QED BY <1>1, TypeInvariant, PTL

\* An attempt that runs has a session to run on: no statement of the task, and
\* not the ROLLBACK of the DeadlockError handler, meets db_local = None.
THEOREM AttemptsHaveSessions == Spec => []HasSession
<1>1. TypeInv => HasSession BY DEF TypeInv
<1> QED BY <1>1, TypeInvariant, PTL

-----------------------------------------------------------------------------
(* Answered transfers are durable, and no operation is lost.               *)

FreeClean == \A b \in Backends : sess[b].st = "free" => sess[b].link = "up"

OnUp == \A b \in Backends : sess[b].st \in Live => b[1] \in up

AckedInLog == acked <= Len(log)

Pending ==
    \A b \in Backends :
      sess[b].st = "committed" =>
        /\ b[1] = primary
        /\ sess[b].pos \in 1 .. Len(log)
        /\ log[sess[b].pos][1] = sess[b].op

ClusterInv == FreeClean /\ OnUp /\ AckedInLog /\ Pending

Owned ==
    \A w \in Workers :
      db_local[w] \in Backends =>
        /\ sess[db_local[w]].st # "free"
        /\ sess[db_local[w]].link \in {"up", "cut"}

Apart ==
    \A v, w \in Workers :
      v # w /\ db_local[v] \in Backends => db_local[w] # db_local[v]

Asked ==
    \A w \in Workers :
      pc[w] = "reply" /\ sess[db_local[w]].st \in {"commit", "committed"} =>
        sess[db_local[w]].op = op[w]

SessionInv == Owned /\ Apart /\ Asked

-----------------------------------------------------------------------------
(* The cluster on its own.                                                 *)

\* A session that ends is free only if no client holds it any more.
LEMMA EndOfSession ==
    ASSUME NEW b \in Backends, NEW how \in {"fatal", "reset"}
    PROVE  /\ ClientEnd(b, how).st \notin Live
           /\ ClientEnd(b, how).link = "up"
           /\ sess[b].link \in {"up", "cut"} => ClientEnd(b, how).st # "free"
BY DEF ClientEnd, FreeSession, Live

LEMMA ClusterKeeps ==
    ASSUME ClusterTypeOK, ReplayedInLog, ClusterInv, ClusterNext
    PROVE  ClusterInv'
<1> USE DEF ClusterTypeOK, ReplayedInLog, ClusterInv, FreeClean, OnUp,
            AckedInLog, Pending
<1>1. ASSUME NEW b \in Backends, ServerCommit(b) PROVE ClusterInv'
  <2>1. /\ Len(log') = Len(log) + 1
        /\ log'[Len(log) + 1] = <<sess[b].op, sess[b].delta>>
        /\ \A k \in 1 .. Len(log) : log'[k] = log[k]
    BY <1>1 DEF ServerCommit
  <2>2. /\ sess'[b] = [sess[b] EXCEPT !.st = "committed", !.pos = Len(log) + 1]
        /\ \A c \in Backends \ {b} : sess'[c] = sess[c]
    BY <1>1 DEF ServerCommit
  <2>3. /\ sess'[b].st = "committed" /\ sess'[b].pos = Len(log) + 1
        /\ sess'[b].op = sess[b].op
    BY <2>2 DEF Session
  <2>4. b[1] = primary /\ b[1] \in up BY <1>1 DEF ServerCommit, Writable
  <2>5. primary' = primary /\ up' = up /\ acked' = acked
    BY <1>1 DEF ServerCommit
  <2>6. FreeClean' BY <2>2, <2>3
  <2>7. OnUp' BY <2>2, <2>4, <2>5
  <2>8. AckedInLog' BY <2>1, <2>5
  <2>9. Pending'
    <3>1. ASSUME NEW c \in Backends, sess'[c].st = "committed"
          PROVE  /\ c[1] = primary' /\ sess'[c].pos \in 1 .. Len(log')
                 /\ log'[sess'[c].pos][1] = sess'[c].op
      <4>1. CASE c = b BY <2>1, <2>3, <2>4, <2>5, <4>1
      <4>2. CASE c # b
        <5>1. sess'[c] = sess[c] BY <2>2, <4>2
        <5>2. /\ c[1] = primary /\ sess[c].pos \in 1 .. Len(log)
              /\ log[sess[c].pos][1] = sess[c].op
          BY <3>1, <5>1
        <5>3. sess[c].pos \in 1 .. Len(log') /\ log'[sess[c].pos] = log[sess[c].pos]
          BY <2>1, <5>2
        <5> QED BY <2>5, <5>1, <5>2, <5>3
      <4> QED BY <4>1, <4>2
    <3> QED BY <3>1
  <2> QED BY <2>6, <2>7, <2>8, <2>9
<1>2. ASSUME NEW b \in Backends, Reap(b) PROVE ClusterInv'
  <2>1. /\ sess'[b] = ClientEnd(b, "reset")
        /\ \A c \in Backends \ {b} : sess'[c] = sess[c]
        /\ UNCHANGED <<primary, up, log, acked>>
    BY <1>2 DEF Reap
  <2>2. sess'[b].st \notin Live /\ sess'[b].link = "up" BY <2>1, EndOfSession
  <2> QED BY <2>1, <2>2 DEF Live
<1>3. ASSUME NEW b \in Backends, Cut(b) PROVE ClusterInv'
  <2>1. /\ sess'[b] = [sess[b] EXCEPT
                         !.link = IF @ = "up" THEN "cut" ELSE "dropped"]
        /\ \A c \in Backends \ {b} : sess'[c] = sess[c]
        /\ UNCHANGED <<primary, up, log, acked>>
    BY <1>3 DEF Cut
  <2>2. /\ sess'[b].st = sess[b].st /\ sess'[b].op = sess[b].op
        /\ sess'[b].pos = sess[b].pos /\ sess[b].st # "free"
    BY <1>3, <2>1 DEF Session, Cut, Connected, Live
  <2>3. \A c \in Backends :
          /\ sess'[c].st = sess[c].st /\ sess'[c].op = sess[c].op
          /\ sess'[c].pos = sess[c].pos
          /\ sess[c].st = "free" => sess'[c].link = sess[c].link
    BY <2>1, <2>2
  <2>4. FreeClean' BY <2>3
  <2>5. OnUp' BY <2>1, <2>3
  <2>6. AckedInLog' BY <2>1
  <2>7. Pending'
    <3>1. ASSUME NEW c \in Backends, sess'[c].st = "committed"
          PROVE  /\ c[1] = primary' /\ sess'[c].pos \in 1 .. Len(log')
                 /\ log'[sess'[c].pos][1] = sess'[c].op
      <4>1. sess[c].st = "committed" /\ sess'[c].pos = sess[c].pos
            /\ sess'[c].op = sess[c].op
        BY <2>3, <3>1
      <4> QED BY <2>1, <4>1
    <3> QED BY <3>1
  <2> QED BY <2>4, <2>5, <2>6, <2>7
<1>4. ASSUME NEW h \in Hosts, Replay(h) \/ Restart(h) PROVE ClusterInv'
  BY <1>4 DEF Replay, Restart
<1>5. ASSUME NEW h \in Hosts, NEW how \in {"fatal", "reset"},
             NEW g \in Hosts, EndSessions(g, how)
      PROVE  \A c \in Backends :
               IF c[1] = g /\ sess[c].st \in Live
               THEN sess'[c].st \notin Live /\ sess'[c].link = "up"
               ELSE sess'[c] = sess[c]
  BY <1>5, EndOfSession DEF EndSessions
<1>6. ASSUME NEW h \in Hosts, Switchover(h) PROVE ClusterInv'
  <2>1. EndSessions(primary, "fatal") /\ UNCHANGED <<up, log, acked>>
    BY <1>6 DEF Switchover
  <2>2. \A c \in Backends :
          IF c[1] = primary /\ sess[c].st \in Live
          THEN sess'[c].st \notin Live /\ sess'[c].link = "up"
          ELSE sess'[c] = sess[c]
    BY <1>5, <2>1
  <2>3. \A c \in Backends : sess'[c].st # "committed" BY <2>2 DEF Live
  <2> QED BY <2>1, <2>2, <2>3 DEF Live
<1>7. ASSUME NEW h \in Hosts, Crash(h) PROVE ClusterInv'
  <2>1. EndSessions(h, "reset") /\ UNCHANGED <<primary, log, acked>>
        /\ up' = up \ {h}
    BY <1>7 DEF Crash
  <2>2. \A c \in Backends :
          IF c[1] = h /\ sess[c].st \in Live
          THEN sess'[c].st \notin Live /\ sess'[c].link = "up"
          ELSE sess'[c] = sess[c]
    BY <1>5, <2>1
  <2> QED BY <2>1, <2>2 DEF Live
<1>8. ASSUME NEW h \in Hosts, Failover(h) PROVE ClusterInv'
  <2>1. \A c \in Backends : sess[c].st # "committed"
    BY <1>8 DEF Failover, Live
  <2>2. UNCHANGED <<up, sess>> /\ acked' <= replayed[h]
    BY <1>8 DEF Failover
  <2>3. Len(log') = replayed[h] BY <1>8, SubSeqProperties DEF Failover
  <2> QED BY <2>1, <2>2, <2>3
<1> QED
  BY <1>1, <1>2, <1>3, <1>4, <1>6, <1>7, <1>8 DEF ClusterNext

\* What a failover keeps of the log is unchanged.
LEMMA PrefixOfLog ==
    ASSUME NEW S, NEW s \in Seq(S), NEW n \in 0 .. Len(s)
    PROVE  /\ Len(SubSeq(s, 1, n)) = n
           /\ \A j \in 1 .. n : SubSeq(s, 1, n)[j] = s[j]
<1>1. /\ n \in Int /\ 1 \in Int /\ n >= 0 OBVIOUS
<1>2. \A j \in 1 .. n : s[j] \in S OBVIOUS
<1>3. /\ Len(SubSeq(s, 1, n)) = IF 1 <= n THEN n - 1 + 1 ELSE 0
      /\ \A j \in 1 .. n - 1 + 1 : SubSeq(s, 1, n)[j] = s[1 + j - 1]
  BY <1>1, <1>2, SubSeqProperties
<1> QED BY <1>1, <1>3

\* An operation that is settled stays settled: with synchronous_mode a
\* failover cuts off nothing that was acknowledged.
LEMMA ClusterSettles ==
    ASSUME ClusterTypeOK, ReplayedInLog, SyncMode, ClusterInv, ClusterNext,
           NEW i, Settled(i)
    PROVE  Settled(i)'
<1> USE DEF ClusterTypeOK, ReplayedInLog, Settled
<1>1. PICK k \in 1 .. acked : k <= Len(log) /\ log[k][1] = i OBVIOUS
<1>2. ASSUME NEW b \in Backends, ServerCommit(b) PROVE Settled(i)'
  <2>1. acked' = acked /\ k <= Len(log') /\ log'[k] = log[k]
    BY <1>1, <1>2 DEF ServerCommit
  <2> QED BY <1>1, <2>1
<1>3. ASSUME NEW b \in Backends, Reap(b) \/ Cut(b) PROVE Settled(i)'
  BY <1>1, <1>3 DEF Reap, Cut
<1>4. ASSUME NEW h \in Hosts,
             Replay(h) \/ Switchover(h) \/ Crash(h) \/ Restart(h)
      PROVE  Settled(i)'
  BY <1>1, <1>4 DEF Replay, Switchover, Crash, Restart
<1>5. ASSUME NEW h \in Hosts, Failover(h) PROVE Settled(i)'
  <2>1. acked <= replayed[h] /\ acked' = acked BY <1>5 DEF Failover
  <2>2. /\ replayed[h] <= Len(log) /\ replayed[h] \in Nat
        /\ k \in Nat /\ Len(log) \in Nat /\ acked \in Nat /\ k <= acked
    BY <1>1
  <2>6. k \in 1 .. replayed[h] BY <1>1, <2>1, <2>2
  <2>3. log \in Seq(Nat \X Int) /\ replayed[h] \in 0 .. Len(log) BY <2>2
  <2>4. /\ Len(SubSeq(log, 1, replayed[h])) = replayed[h]
        /\ \A j \in 1 .. replayed[h] : SubSeq(log, 1, replayed[h])[j] = log[j]
    <3> HIDE DEF ClusterTypeOK, ReplayedInLog, Settled
    <3> QED BY <2>3, PrefixOfLog
  <2>5. log' = SubSeq(log, 1, replayed[h]) BY <1>5 DEF Failover
  <2>7. log'[k] = log[k] BY <2>4, <2>5, <2>6
  <2>8. k <= Len(log') BY <2>2, <2>4, <2>5, <2>6
  <2> QED BY <1>1, <2>1, <2>7, <2>8
<1> QED BY <1>2, <1>3, <1>4, <1>5 DEF ClusterNext

\* What the cluster does to a session a worker owns, it does to the session
\* and not to who owns it.
LEMMA ClusterKeepsSessions ==
    ASSUME TypeInv, SessionInv, Cluster
    PROVE  SessionInv'
<1> DEFINE Same(c) == /\ sess[c].link \in {"up", "cut"} /\ sess[c].st # "free" =>
                           /\ sess'[c].link \in {"up", "cut"}
                           /\ sess'[c].st # "free"
                      /\ sess'[c].st \in {"commit", "committed"} =>
                           /\ sess[c].st \in {"commit", "committed"}
                           /\ sess'[c].op = sess[c].op
<1>1. \A c \in Backends : sess[c] \in Session
  BY DEF TypeInv, TypeOK, ClusterTypeOK
<1>2. \A c \in Backends : Same(c)
  <2>1. ASSUME NEW b \in Backends, ServerCommit(b) \/ Reap(b) \/ Cut(b)
        PROVE  \A c \in Backends : Same(c)
    <3>1. \A c \in Backends \ {b} : sess'[c] = sess[c]
      BY <2>1 DEF ServerCommit, Reap, Cut, TypeInv, TypeOK, ClusterTypeOK
    <3>2. sess[b] \in Session BY <1>1
    <3>3. Same(b)
      <4> USE DEF TypeInv, TypeOK, ClusterTypeOK
      <4>1. CASE Reap(b)
        <5>1. sess'[b] = ClientEnd(b, "reset") BY <4>1 DEF Reap
        <5> QED BY <5>1, EndOfSession DEF Live
      <4>2. CASE ServerCommit(b)
        <5>1. /\ sess'[b] = [sess[b] EXCEPT !.st = "committed",
                                            !.pos = Len(log) + 1]
              /\ sess[b].st = "commit"
          BY <4>2 DEF ServerCommit
        <5> QED BY <3>2, <5>1 DEF Session
      <4>3. CASE Cut(b)
        <5>1. /\ sess'[b] = [sess[b] EXCEPT
                              !.link = IF @ = "up" THEN "cut" ELSE "dropped"]
              /\ sess[b].link # "cut"
          BY <4>3 DEF Cut, Connected
        <5>2. /\ sess'[b].link = IF sess[b].link = "up" THEN "cut" ELSE "dropped"
              /\ sess'[b].st = sess[b].st /\ sess'[b].op = sess[b].op
          BY <3>2, <5>1 DEF Session
        <5>3. CASE sess[b].link = "up" BY <5>2, <5>3
        <5>4. CASE sess[b].link # "up" BY <5>1, <5>2, <5>4
        <5> QED BY <5>3, <5>4
      <4> QED BY <2>1, <4>1, <4>2, <4>3
    <3> QED BY <3>1, <3>3
  <2>2. ASSUME NEW g \in Hosts, NEW how \in {"fatal", "reset"},
               EndSessions(g, how)
        PROVE  \A c \in Backends : Same(c)
    BY <2>2, EndOfSession DEF EndSessions, Live
  <2>3. ASSUME NEW h \in Hosts, Switchover(h) \/ Crash(h)
        PROVE  \A c \in Backends : Same(c)
    BY <2>2, <2>3 DEF Switchover, Crash, TypeInv, TypeOK, ClusterTypeOK
  <2>4. ASSUME NEW h \in Hosts, Replay(h) \/ Failover(h) \/ Restart(h)
        PROVE  \A c \in Backends : Same(c)
    BY <2>4 DEF Replay, Failover, Restart
  <2> QED BY <2>1, <2>3, <2>4 DEF Cluster, ClusterNext
<1>3. UNCHANGED <<db_local, pc, op>>
  BY DEF Cluster, wvars, hvars
<1>4. Owned' /\ Apart'
  BY <1>2, <1>3 DEF SessionInv, Owned, Apart
<1>5. \A w \in Workers : pc[w] = "reply" => db_local[w] \in Backends
  BY DEF TypeInv, HasSession, InAttempt
<1>6. Asked' BY <1>2, <1>3, <1>5 DEF SessionInv, Asked
<1> QED BY <1>4, <1>6 DEF SessionInv

-----------------------------------------------------------------------------
(* The workers.                                                            *)

\* What a client may do to session c.
Tame(c) ==
    /\ sess'[c].st \in Live => sess[c].st \in Live \/ c[1] \in up
    /\ sess'[c].st = "committed" =>
         /\ sess[c].st = "committed"
         /\ sess'[c].op = sess[c].op
         /\ sess'[c].pos = sess[c].pos
    /\ sess'[c].st = "free" => sess'[c].link = "up"

\* A step of worker w touches the session it has and the one it gets, and no
\* other worker's.
Effect(w) ==
    /\ \E l \in WorkerStates : pc' = [pc EXCEPT ![w] = l]
    /\ \A v \in Workers \ {w} : UNCHANGED <<db_local[v], op[v]>>
    /\ \A c \in Backends :
         IF c \in {db_local[w], db_local'[w]} THEN Tame(c) ELSE sess'[c] = sess[c]
    /\ \/ db_local'[w] \in {db_local[w], NoSession}
       \/ db_local'[w] \in Backends /\ sess[db_local'[w]].st = "free"
    /\ db_local'[w] \in Backends =>
         /\ sess'[db_local'[w]].st # "free"
         /\ sess'[db_local'[w]].link \in {"up", "cut"}
    /\ pc'[w] = "reply" => sess'[db_local'[w]].op = op'[w]
    /\ UNCHANGED <<primary, up, log>>
    /\ \/ UNCHANGED acked
       \/ db_local[w] \in Backends /\ Acknowledge(db_local[w])

\* The other workers do not notice.
LEMMA OthersUntouched ==
    ASSUME TypeInv, SessionInv, NEW w \in Workers, Effect(w)
    PROVE  \A v \in Workers \ {w} :
             /\ db_local'[v] = db_local[v] /\ op'[v] = op[v] /\ pc'[v] = pc[v]
             /\ db_local[v] \in Backends =>
                  /\ db_local[v] # db_local[w] /\ db_local[v] # db_local'[w]
                  /\ sess'[db_local[v]] = sess[db_local[v]]
<1> TAKE v \in Workers \ {w}
<1>1. db_local'[v] = db_local[v] /\ op'[v] = op[v] /\ pc'[v] = pc[v]
  BY DEF Effect, TypeInv, TypeOK, WorkerTypeOK
<1>2. ASSUME db_local[v] \in Backends
      PROVE  db_local[v] # db_local[w] /\ db_local[v] # db_local'[w]
  BY <1>2, NoSessionAssumption DEF SessionInv, Apart, Owned, Effect
<1> QED BY <1>1, <1>2 DEF Effect

LEMMA EffectKeeps ==
    ASSUME TypeInv, ClusterInv, SessionInv, NEW w \in Workers, Effect(w)
    PROVE  ClusterInv' /\ SessionInv'
<1>1. \A c \in Backends : sess'[c] = sess[c] \/ Tame(c) BY DEF Effect
<1>2. \A v \in Workers \ {w} :
        /\ db_local'[v] = db_local[v] /\ op'[v] = op[v] /\ pc'[v] = pc[v]
        /\ db_local[v] \in Backends =>
             /\ db_local[v] # db_local[w] /\ db_local[v] # db_local'[w]
             /\ sess'[db_local[v]] = sess[db_local[v]]
  BY OthersUntouched
<1>3. Owned' BY <1>2 DEF SessionInv, Owned, Effect
<1>4. Apart'
  <2>1. ASSUME NEW u \in Workers, NEW v \in Workers, u # v,
               db_local'[u] \in Backends
        PROVE  db_local'[v] # db_local'[u]
    <3>1. CASE u = w BY <1>2, <2>1, <3>1
    <3>2. CASE v = w BY <1>2, <2>1, <3>2
    <3>3. CASE u # w /\ v # w BY <1>2, <2>1, <3>3 DEF SessionInv, Apart
    <3> QED BY <3>1, <3>2, <3>3
  <2> QED BY <2>1 DEF Apart
<1>5. Asked'
  <2>1. ASSUME NEW v \in Workers, pc'[v] = "reply",
               sess'[db_local'[v]].st \in {"commit", "committed"}
        PROVE  sess'[db_local'[v]].op = op'[v]
    <3>1. CASE v = w BY <2>1, <3>1 DEF Effect
    <3>2. CASE v # w
      <4>1. pc[v] = "reply" /\ db_local'[v] = db_local[v] /\ op'[v] = op[v]
        BY <1>2, <2>1, <3>2
      <4>2. db_local[v] \in Backends BY <4>1 DEF TypeInv, HasSession, InAttempt
      <4>3. sess'[db_local[v]] = sess[db_local[v]] BY <1>2, <3>2, <4>2
      <4> QED BY <2>1, <4>1, <4>3 DEF SessionInv, Asked
    <3> QED BY <3>1, <3>2
  <2> QED BY <2>1 DEF Asked
<1>6. FreeClean' /\ OnUp' /\ Pending'
  BY <1>1 DEF Effect, ClusterInv, FreeClean, OnUp, Pending, Tame
<1>7. AckedInLog'
  <2>1. CASE UNCHANGED acked
    BY <2>1 DEF Effect, ClusterInv, AckedInLog
  <2>2. CASE db_local[w] \in Backends /\ Acknowledge(db_local[w])
    <3>1. sess[db_local[w]].pos \in 1 .. Len(log)
      BY <2>2 DEF Acknowledge, ClusterInv, Pending
    <3> QED BY <2>2, <3>1 DEF Acknowledge, Effect, ClusterInv, AckedInLog
  <2> QED BY <2>1, <2>2 DEF Effect
<1> QED BY <1>3, <1>4, <1>5, <1>6, <1>7 DEF ClusterInv, SessionInv

LEMMA EffectSettles ==
    ASSUME TypeInv, ClusterInv, NEW w \in Workers, Effect(w), NEW i, Settled(i)
    PROVE  Settled(i)'
<1>1. PICK k \in 1 .. acked : k <= Len(log) /\ log[k][1] = i BY DEF Settled
<1>2. log' = log BY DEF Effect
<1>3. acked \in Nat /\ acked' \in Nat /\ acked <= acked'
  <2>1. CASE UNCHANGED acked
    BY <2>1 DEF TypeInv, TypeOK, ClusterTypeOK
  <2>2. CASE db_local[w] \in Backends /\ Acknowledge(db_local[w])
    BY <2>2 DEF Acknowledge, ClusterInv, Pending, TypeInv, TypeOK, ClusterTypeOK,
                Session
  <2> QED BY <2>1, <2>2 DEF Effect
<1>4. k \in 1 .. acked' BY <1>1, <1>3
<1> QED BY <1>1, <1>2, <1>4 DEF Settled

\* What a statement does to the session it runs on.
LEMMA StatementIsTame ==
    ASSUME ClusterTypeOK, NEW b \in Backends, Healthy(b),
           \/ Begin(b) \/ Abort(b) \/ EndBlock(b)
           \/ \E r \in Rows : LockRow(b, r)
           \/ \E d \in Int : Change(b, d)
           \/ \E i \in Nat : SendCommit(b, i)
    PROVE  /\ Tame(b)
           /\ \A c \in Backends \ {b} : sess'[c] = sess[c]
           /\ sess'[b].st # "free" /\ sess'[b].link = "up"
<1> USE DEF ClusterTypeOK, Healthy, Live
<1>a. sess[b] \in Session OBVIOUS
<1>1. CASE Begin(b) BY <1>a, <1>1 DEF Begin, Tame, Session
<1>2. CASE Abort(b) BY <1>2 DEF Abort, Tame, FreeSession
<1>3. CASE EndBlock(b) BY <1>3 DEF EndBlock, Tame, FreeSession
<1>4. CASE \E r \in Rows : LockRow(b, r) BY <1>a, <1>4 DEF LockRow, Tame, Session
<1>5. CASE \E d \in Int : Change(b, d) BY <1>a, <1>5 DEF Change, Tame, Session
<1>6. CASE \E i \in Nat : SendCommit(b, i)
  BY <1>a, <1>6 DEF SendCommit, Tame, Session
<1> QED BY <1>1, <1>2, <1>3, <1>4, <1>5, <1>6

LEMMA LeavingIsTame ==
    ASSUME ClusterTypeOK, NEW b \in Backends, Disconnect(b) \/ Forget(b)
    PROVE  Tame(b) /\ \A c \in Backends \ {b} : sess'[c] = sess[c]
<1> USE DEF ClusterTypeOK, Live, Tame
<1>a. sess[b] \in Session OBVIOUS
<1>1. ASSUME Disconnect(b)
      PROVE  Tame(b) /\ \A c \in Backends \ {b} : sess'[c] = sess[c]
  <2>1. CASE sess[b].st \in Live /\ sess[b].link = "cut"
    <3>1. sess'[b] = [sess[b] EXCEPT !.link = "dropped"]
      BY <1>1, <2>1 DEF Disconnect
    <3> QED BY <1>a, <1>1, <2>1, <3>1 DEF Disconnect, Session
  <2>2. CASE ~(sess[b].st \in Live /\ sess[b].link = "cut")
    <3>1. sess'[b] = FreeSession BY <1>1, <2>2 DEF Disconnect
    <3> QED BY <1>1, <3>1 DEF Disconnect, FreeSession
  <2> QED BY <2>1, <2>2
<1>2. CASE Forget(b) /\ Healthy(b)
  BY <1>a, <1>2 DEF Forget, Healthy, Session
<1> QED BY <1>1, <1>2 DEF Forget

\* The three shapes a worker's step has: it leaves its session alone, talks on
\* it, or lets go of it.
LEMMA SilentEffect ==
    ASSUME TypeInv, FreeClean, SessionInv, NEW w \in Workers,
           NEW l \in WorkerStates \ {"reply"}, Goto(w, l),
           UNCHANGED <<primary, up, log, acked, sess, db_local>>,
           \A v \in Workers \ {w} : UNCHANGED op[v]
    PROVE  Effect(w)
<1>1. pc'[w] = l BY DEF Goto, TypeInv, TypeOK, WorkerTypeOK
<1>2. \A c \in Backends : Tame(c) BY DEF FreeClean, Tame
<1> QED BY <1>1, <1>2 DEF Effect, Goto, SessionInv, Owned

LEMMA SpokenEffect ==
    ASSUME TypeInv, NEW w \in Workers, db_local[w] \in Backends,
           NEW l \in WorkerStates, Goto(w, l),
           Tame(db_local[w]),
           \A c \in Backends \ {db_local[w]} : sess'[c] = sess[c],
           sess'[db_local[w]].st # "free", sess'[db_local[w]].link = "up",
           l = "reply" => sess'[db_local[w]].op = op[w],
           UNCHANGED <<primary, up, log, db_local, op>>,
           UNCHANGED acked \/ Acknowledge(db_local[w])
    PROVE  Effect(w)
<1>1. pc'[w] = l BY DEF Goto, TypeInv, TypeOK, WorkerTypeOK
<1> QED BY <1>1 DEF Effect, Goto

LEMMA DropEffect ==
    ASSUME TypeInv, FreeClean, NEW w \in Workers,
           NEW l \in WorkerStates \ {"reply"}, Goto(w, l),
           DropSession(w),
           UNCHANGED <<primary, up, log, acked, op>>
    PROVE  Effect(w)
<1>1. /\ pc'[w] = l /\ db_local'[w] = NoSession
      /\ \A v \in Workers \ {w} : db_local'[v] = db_local[v]
  BY DEF Goto, DropSession, TypeInv, TypeOK, WorkerTypeOK
<1>2. \A c \in Backends :
        IF c \in {db_local[w], db_local'[w]} THEN Tame(c) ELSE sess'[c] = sess[c]
  <2>1. CASE db_local[w] = NoSession
    BY <1>1, <2>1, NoSessionAssumption DEF DropSession
  <2>2. CASE db_local[w] # NoSession
    <3>1. db_local[w] \in Backends /\ Forget(db_local[w])
      BY <2>2 DEF DropSession, TypeInv, TypeOK, WorkerTypeOK
    <3> QED BY <1>1, <3>1, LeavingIsTame, NoSessionAssumption DEF TypeInv, TypeOK
  <2> QED BY <2>1, <2>2
<1> QED BY <1>1, <1>2, NoSessionAssumption DEF Effect, Goto

LEMMA LoopEffect ==
    ASSUME TypeInv, FreeClean, SessionInv, NEW w \in Workers,
           While(w) \/ Load(w) \/ Store(w)
    PROVE  Effect(w)
<1> USE DEF cvars, servers, conn, hvars
<1>1. {"load", "finished", "dead", "store", "connect"} \subseteq WorkerStates \ {"reply"}
  BY DEF WorkerStates, TaskStates, Ended
<1>2. CASE Load(w) \/ Store(w)
  <2>1. \A v \in Workers \ {w} : op'[v] = op[v]
    BY <1>2 DEF Load, Store, TypeInv, TypeOK, HistoryTypeOK
  <2> QED BY <1>1, <1>2, <2>1, SilentEffect DEF Load, Store
<1>3. CASE While(w) /\ UNCHANGED <<sess, db_local>>
  BY <1>1, <1>3, SilentEffect DEF While
<1>4. CASE While(w) /\ db_local[w] # NoSession /\ Goto(w, "finished")
           /\ Disconnect(db_local[w])
           /\ db_local' = [db_local EXCEPT ![w] = NoSession]
  <2> DEFINE b == db_local[w]
  <2>1. b \in Backends BY <1>4 DEF TypeInv, TypeOK, WorkerTypeOK
  <2>2. Tame(b) /\ \A c \in Backends \ {b} : sess'[c] = sess[c]
    BY <1>4, <2>1, LeavingIsTame DEF TypeInv, TypeOK
  <2>3. /\ db_local'[w] = NoSession /\ pc'[w] = "finished"
        /\ \A v \in Workers \ {w} : db_local'[v] = db_local[v]
    BY <1>4 DEF Goto, TypeInv, TypeOK, WorkerTypeOK
  <2> QED
    BY <1>1, <1>4, <2>1, <2>2, <2>3, NoSessionAssumption DEF Effect, While, Goto
<1> QED BY <1>2, <1>3, <1>4 DEF While

LEMMA ConnectEffect ==
    ASSUME TypeInv, FreeClean, SessionInv, NEW w \in Workers,
           Connect(w) \/ ConnectFails(w) \/ KeepSession(w)
    PROVE  Effect(w)
<1> USE DEF cvars, servers, conn, hvars
<1>1. {"begin", "except"} \subseteq WorkerStates \ {"reply"}
  BY DEF WorkerStates, TaskStates
<1>2. CASE ConnectFails(w) \/ KeepSession(w)
  BY <1>1, <1>2, SilentEffect DEF ConnectFails, ChooseHost, KeepSession
<1>3. CASE Connect(w)
  <2>1. PICK p \in Pids :
          /\ Accept(<<Target(w), p>>)
          /\ db_local' = [db_local EXCEPT ![w] = <<Target(w), p>>]
    BY <1>3 DEF Connect
  <2>2. ChooseHost(w) /\ Goto(w, "begin") BY <1>3 DEF Connect
  <2> DEFINE b == <<Target(w), p>>
  <2>3. ConnectingTo(w) \in 1 .. NHosts
    BY HostsOfFile DEF TypeInv, TypeOK, WorkerTypeOK, ConnectingTo
  <2>4. b \in Backends BY <2>3, HostsOfFile DEF Backends, Target
  <2>5. /\ sess[b].st = "free" /\ b[1] \in up
        /\ sess' = [sess EXCEPT ![b].st = "idle"]
    BY <2>1 DEF Accept
  <2>6. sess[b] \in Session BY <2>4 DEF TypeInv, TypeOK, ClusterTypeOK
  <2>7. /\ sess'[b].st = "idle" /\ sess'[b].link = "up"
        /\ \A c \in Backends \ {b} : sess'[c] = sess[c]
    BY <2>4, <2>5, <2>6 DEF FreeClean, Session, TypeInv, TypeOK, ClusterTypeOK
  <2>8. Tame(b) BY <2>5, <2>7 DEF Tame
  <2>9. db_local[w] = NoSession /\ UNCHANGED <<primary, up, log, acked, op>>
    BY <2>2 DEF ChooseHost
  <2>10. /\ db_local'[w] = b /\ pc'[w] = "begin"
         /\ \A v \in Workers \ {w} : db_local'[v] = db_local[v]
    BY <2>1, <2>2 DEF Goto, TypeInv, TypeOK, WorkerTypeOK
  <2> HIDE DEF b
  <2> QED
    BY <1>1, <2>2, <2>4, <2>5, <2>7, <2>8, <2>9, <2>10, NoSessionAssumption
       DEF Effect, Goto
<1> QED BY <1>2, <1>3

LEMMA TaskEffect ==
    ASSUME TypeInv, FreeClean, SessionInv, NEW w \in Workers,
           \/ Start(w) \/ Select(w) \/ Lock(w) \/ Debit(w) \/ Credit(w)
           \/ Commit(w) \/ Reply(w)
    PROVE  Effect(w)
<1> DEFINE b == db_local[w]
<1> USE DEF cvars, servers, conn, hvars
<1>1. {"select", "lock", "debit", "credit", "commit", "dead", "while"}
        \subseteq WorkerStates \ {"reply"}
      /\ "reply" \in WorkerStates
  BY DEF WorkerStates, TaskStates, Ended
<1>2. InAttempt(w) /\ b \in Backends /\ Healthy(b)
  <2>1. /\ pc[w] \in {"begin", "select", "lock", "debit", "credit", "commit",
                       "reply"}
        /\ Healthy(b)
    BY DEF Start, Select, Lock, Debit, Credit, Commit, Reply, Statement
  <2> QED BY <2>1 DEF InAttempt, TypeInv, HasSession
<1>3. ClusterTypeOK /\ op[w] \in Nat /\ pc = [pc EXCEPT ![w] = pc[w]]
  BY DEF TypeInv, TypeOK, HistoryTypeOK, WorkerTypeOK
<1>4. ASSUME NEW l \in WorkerStates, Goto(w, l),
             \/ Begin(b) \/ Abort(b) \/ EndBlock(b)
             \/ \E r \in Rows : LockRow(b, r)
             \/ \E d \in Int : Change(b, d)
             \/ \E i \in Nat : SendCommit(b, i),
             l = "reply" => sess'[b].op = op[w],
             UNCHANGED <<primary, up, log, db_local, op>>,
             UNCHANGED acked \/ Acknowledge(b)
      PROVE  Effect(w)
  <2> HIDE DEF b
  <2>1. /\ Tame(b)
        /\ \A c \in Backends \ {b} : sess'[c] = sess[c]
        /\ sess'[b].st # "free" /\ sess'[b].link = "up"
    BY <1>2, <1>3, <1>4, StatementIsTame
  <2> QED BY <1>2, <1>4, <2>1, SpokenEffect DEF b
<1>5. CASE Start(w)
  <2>1. CASE sess[b].st = "idle" BY <1>1, <1>4, <1>5, <2>1 DEF Start
  <2>2. CASE sess[b].st # "idle" BY <1>1, <1>5, <2>2, DropEffect DEF Start
  <2> QED BY <2>1, <2>2
<1>6. CASE Select(w) BY <1>1, <1>6, SilentEffect DEF Select, Statement
<1>7. CASE Lock(w)
  <2>1. want[w] \in Rows /\ pc[w] = "lock"
    BY <1>7 DEF Lock, Statement, TypeInv, HasSession
  <2>2. Goto(w, "lock") \/ Goto(w, "debit")
    BY <1>3, <1>7, <2>1 DEF Lock, Goto
  <2> QED BY <1>1, <1>4, <1>7, <2>1, <2>2 DEF Lock, Statement
<1>8. CASE Debit(w)
  <2>1. -Amount \in Int BY AmountAssumption
  <2> QED BY <1>1, <1>4, <1>8, <2>1 DEF Debit, Statement
<1>9. CASE Credit(w)
  <2>1. Amount + 1 \in Int BY AmountAssumption
  <2> QED BY <1>1, <1>4, <1>9, <2>1 DEF Credit, Statement
<1>10. CASE Commit(w)
  <2>1. sess'[b].op = op[w]
    BY <1>2, <1>3, <1>10 DEF Commit, SendCommit, ClusterTypeOK, Session
  <2> QED BY <1>1, <1>3, <1>4, <1>10, <2>1 DEF Commit, Statement
<1>11. CASE Reply(w)
  <2>1. EndBlock(b) BY <1>11 DEF Reply, Acknowledge
  <2> QED BY <1>1, <1>4, <1>11, <2>1 DEF Reply, Statement
<1> QED BY <1>5, <1>6, <1>7, <1>8, <1>9, <1>10, <1>11

LEMMA ErrorEffect ==
    ASSUME TypeInv, FreeClean, SessionInv, NEW w \in Workers,
           \/ SessionLost(w) \/ ReadOnly(w) \/ Deadlock(w) \/ Canceled(w)
           \/ ExitRollback(w) \/ Handler(w)
    PROVE  Effect(w)
<1> USE DEF cvars, servers, conn, hvars
<1>1. {"abort", "except", "rollback", "connect", "returned", "dead"}
        \subseteq WorkerStates \ {"reply"}
  BY DEF WorkerStates, TaskStates, Ended
<1>2. ClusterTypeOK BY DEF TypeInv, TypeOK
<1>3. ASSUME NEW l \in {"abort", "except", "connect"}, Goto(w, l), InAttempt(w),
             Healthy(db_local[w]), Abort(db_local[w]) \/ EndBlock(db_local[w]),
             UNCHANGED <<primary, up, log, acked, db_local, op>>
      PROVE  Effect(w)
  <2> DEFINE b == db_local[w]
  <2>1. b \in Backends BY <1>3 DEF TypeInv, HasSession
  <2> HIDE DEF b
  <2>2. /\ Tame(b)
        /\ \A c \in Backends \ {b} : sess'[c] = sess[c]
        /\ sess'[b].st # "free" /\ sess'[b].link = "up"
    BY <1>2, <1>3, <2>1, StatementIsTame DEF b
  <2> QED BY <1>1, <1>3, <2>1, <2>2, SpokenEffect DEF b
<1>4. CASE SessionLost(w) BY <1>1, <1>4, SilentEffect DEF SessionLost
<1>5. CASE ReadOnly(w) \/ Deadlock(w) \/ Canceled(w)
  <2>1. InAttempt(w) BY <1>5 DEF ReadOnly, Deadlock, Canceled, InAttempt
  <2>2. /\ Healthy(db_local[w]) /\ Abort(db_local[w]) /\ Goto(w, "abort")
        /\ UNCHANGED <<primary, up, log, acked, db_local, op>>
    BY <1>5 DEF ReadOnly, Deadlock, Canceled, Fails
  <2> QED BY <1>3, <2>1, <2>2
<1>6. CASE ExitRollback(w)
  <2>1. InAttempt(w) BY <1>6 DEF ExitRollback, InAttempt
  <2>2. CASE Healthy(db_local[w]) BY <1>3, <1>6, <2>1, <2>2 DEF ExitRollback
  <2>3. CASE ~Healthy(db_local[w])
    BY <1>1, <1>6, <2>3, SilentEffect DEF ExitRollback
  <2> QED BY <2>2, <2>3
<1>7. CASE OnDeadlock(w) BY <1>1, <1>7, SilentEffect DEF OnDeadlock, Handled
<1>8. CASE HandlerRollback(w)
  <2>1. CASE Healthy(db_local[w])
    <3>1. InAttempt(w) /\ Goto(w, "connect")
      BY <1>8, <2>1 DEF HandlerRollback, InAttempt
    <3> QED BY <1>3, <1>8, <2>1, <3>1 DEF HandlerRollback
  <2>2. CASE ~Healthy(db_local[w])
    BY <1>1, <1>8, <2>2, DropEffect DEF HandlerRollback
  <2> QED BY <2>1, <2>2
<1>9. CASE OnReadOnly(w) \/ OnShutdown(w) \/ OnTerminate(w) \/ OnConnection(w)
  BY <1>1, <1>9, DropEffect
     DEF OnReadOnly, OnShutdown, OnTerminate, OnConnection, Handled
<1> QED BY <1>4, <1>5, <1>6, <1>7, <1>8, <1>9 DEF Handler

LEMMA WorkerEffect ==
    ASSUME TypeInv, FreeClean, SessionInv, NEW w \in Workers,
           Worker(w) \/ Deadlock(w) \/ Canceled(w)
    PROVE  Effect(w)
BY LoopEffect, ConnectEffect, TaskEffect, ErrorEffect DEF Worker, Attempt

-----------------------------------------------------------------------------
(* The invariant.                                                          *)

\* Before InitTables no worker runs.
NotYetStarted == mainpc = "init" => \A w \in Workers : pc[w] = "new"

\* Where a worker is still responsible for its operation.
AtIt == TaskStates \cup {"returned", "dead"}

Durable == \A i \in confirmed : Settled(i)

NothingLost ==
    \A i \in 1 .. claims :
      Settled(i) \/ \E w \in Workers : op[w] = i /\ pc[w] \in AtIt

\* What holds with and without synchronous_mode, and what needs it.
CoreInv == ClusterInv /\ SessionInv /\ NotYetStarted
Kept == Durable /\ NothingLost

\* What was answered is in the log for good.
LEMMA AnswerSettles ==
    ASSUME TypeInv, ClusterInv, SessionInv, NEW w \in Workers, Reply(w)
    PROVE  Settled(op[w])'
<1> DEFINE b == db_local[w]
<1>1. /\ pc[w] = "reply" /\ Acknowledge(b) /\ UNCHANGED <<log, op>>
  BY DEF Reply, Statement
<1>2. b \in Backends BY <1>1 DEF TypeInv, HasSession, InAttempt
<1>3. sess[b].st = "committed" BY <1>1 DEF Acknowledge
<1>4. /\ sess[b].pos \in 1 .. Len(log)
      /\ log[sess[b].pos][1] = op[w]
  BY <1>1, <1>2, <1>3 DEF ClusterInv, Pending, SessionInv, Asked
<1>5. sess[b].pos \in 1 .. acked'
  BY <1>1, <1>4 DEF Acknowledge, TypeInv, TypeOK, ClusterTypeOK
<1> QED BY <1>1, <1>4, <1>5 DEF Settled

\* A worker leaves its operation by an answer or by its own end, and only
\* Store goes on to another one.
LEMMA WorkerStaysAtIt ==
    ASSUME TypeInv, NEW w \in Workers,
           Worker(w) \/ Deadlock(w) \/ Canceled(w), ~Store(w), ~Reply(w)
    PROVE  /\ UNCHANGED <<claims, op, confirmed>>
           /\ pc[w] \in AtIt => pc'[w] \in AtIt
<1> USE DEF hvars, conn, Goto, AtIt, TaskStates
<1>1. pc \in [Workers -> WorkerStates] BY DEF TypeInv, TypeOK, WorkerTypeOK
<1>2. CASE While(w) BY <1>1, <1>2 DEF While
<1>3. CASE Load(w) BY <1>1, <1>3 DEF Load
<1>4. CASE Connect(w) \/ ConnectFails(w) \/ KeepSession(w) \/ Start(w)
  BY <1>1, <1>4 DEF Connect, ConnectFails, ChooseHost, KeepSession, Start
<1>5. CASE Select(w) \/ Lock(w) \/ Debit(w) \/ Credit(w) \/ Commit(w)
  BY <1>1, <1>5 DEF Select, Lock, Debit, Credit, Commit, Statement
<1>6. CASE SessionLost(w) \/ ExitRollback(w)
  BY <1>1, <1>6 DEF SessionLost, ExitRollback
<1>7. CASE ReadOnly(w) \/ Deadlock(w) \/ Canceled(w)
  BY <1>1, <1>7 DEF ReadOnly, Deadlock, Canceled, Fails
<1>8. CASE Handler(w)
  BY <1>1, <1>8
     DEF Handler, OnDeadlock, HandlerRollback, OnReadOnly, OnShutdown,
         OnTerminate, OnConnection, Handled
<1> QED
  BY <1>2, <1>3, <1>4, <1>5, <1>6, <1>7, <1>8 DEF Worker, Attempt

\* Steps of a worker leave the main thread alone; one that moves has started.
LEMMA WorkersRun ==
    ASSUME NEW w \in Workers, Worker(w) \/ Deadlock(w) \/ Canceled(w)
    PROVE  UNCHANGED mvars /\ pc[w] # "new"
<1>1. UNCHANGED mvars
  BY DEF Worker, Attempt, Handler, While, Load, Store, Connect, ConnectFails,
         ChooseHost, KeepSession, Start, Select, Lock, Debit, Credit, Commit,
         Reply, Statement, SessionLost, ReadOnly, Deadlock, Canceled, Fails,
         ExitRollback, OnDeadlock, HandlerRollback, OnReadOnly, OnShutdown,
         OnTerminate, OnConnection, Handled, mvars
<1>2. pc[w] # "new"
  BY DEF Worker, Attempt, Handler, While, Load, Store, Connect, ConnectFails,
         ChooseHost, KeepSession, Start, Select, Lock, Debit, Credit, Commit,
         Reply, Statement, SessionLost, ReadOnly, Deadlock, Canceled,
         ExitRollback, OnDeadlock, HandlerRollback, OnReadOnly, OnShutdown,
         OnTerminate, OnConnection, Handled
<1> QED BY <1>1, <1>2

LEMMA WorkerKeepsCore ==
    ASSUME TypeInv, CoreInv, NEW w \in Workers,
           Worker(w) \/ Deadlock(w) \/ Canceled(w)
    PROVE  CoreInv'
<1>1. Effect(w) BY WorkerEffect DEF CoreInv, ClusterInv
<1>2. ClusterInv' /\ SessionInv' BY <1>1, EffectKeeps DEF CoreInv
<1>3. NotYetStarted' BY WorkersRun DEF CoreInv, NotYetStarted, mvars
<1> QED BY <1>2, <1>3 DEF CoreInv

LEMMA WorkerKeepsKept ==
    ASSUME TypeInv, CoreInv, Kept, NEW w \in Workers,
           Worker(w) \/ Deadlock(w) \/ Canceled(w)
    PROVE  Kept'
<1>1. Effect(w) BY WorkerEffect DEF CoreInv, ClusterInv
<1>3. \A i : Settled(i) => Settled(i)' BY <1>1, EffectSettles DEF CoreInv
<1>4. pc \in [Workers -> WorkerStates] /\ op \in [Workers -> Nat] /\ claims \in Nat
  BY DEF TypeInv, TypeOK, WorkerTypeOK, HistoryTypeOK
<1>5. \A v \in Workers \ {w} : pc'[v] = pc[v] /\ op'[v] = op[v]
  BY <1>1, <1>4 DEF Effect
<1>7. CASE Store(w)
  <2>1. /\ claims' = claims + 1 /\ op'[w] = claims + 1 /\ pc[w] = "store"
        /\ pc'[w] = "connect" /\ confirmed' = confirmed
    BY <1>4, <1>7 DEF Store, Goto
  <2>2. NothingLost'
    <3>1. ASSUME NEW i \in 1 .. claims'
          PROVE  Settled(i)' \/ \E v \in Workers : op'[v] = i /\ pc'[v] \in AtIt
      <4>1. CASE i = claims + 1
        <5>1. "connect" \in AtIt BY DEF AtIt, TaskStates
        <5> QED BY <2>1, <4>1, <5>1
      <4>2. CASE i # claims + 1
        <5>1. i \in 1 .. claims BY <1>4, <2>1, <4>2
        <5>2. "store" \notin AtIt BY DEF AtIt, TaskStates
        <5> QED BY <1>3, <1>5, <2>1, <5>1, <5>2 DEF Kept, NothingLost
      <4> QED BY <4>1, <4>2
    <3> QED BY <3>1 DEF NothingLost
  <2> QED BY <1>3, <2>1, <2>2 DEF Kept, Durable
<1>8. CASE Reply(w)
  <2>1. Settled(op[w])' BY <1>8, AnswerSettles DEF CoreInv
  <2>2. UNCHANGED <<claims, op>> /\ confirmed' = confirmed \cup {op[w]}
    BY <1>8 DEF Reply
  <2>3. Durable' BY <1>3, <2>1, <2>2 DEF Kept, Durable
  <2>4. NothingLost' BY <1>3, <1>5, <2>1, <2>2 DEF Kept, NothingLost
  <2> QED BY <2>3, <2>4 DEF Kept
<1>9. CASE ~Store(w) /\ ~Reply(w)
  <2>1. /\ UNCHANGED <<claims, op, confirmed>>
        /\ pc[w] \in AtIt => pc'[w] \in AtIt
    BY <1>9, WorkerStaysAtIt
  <2>2. \A v \in Workers : pc[v] \in AtIt => pc'[v] \in AtIt BY <1>5, <2>1
  <2>3. NothingLost' BY <1>3, <1>5, <2>1, <2>2 DEF Kept, NothingLost
  <2> QED BY <1>3, <2>1, <2>3 DEF Kept, Durable
<1> QED BY <1>7, <1>8, <1>9

LEMMA MainKeepsSafety ==
    ASSUME TypeInv, CoreInv, Main \/ MainQueryLost \/ Interrupt
    PROVE  CoreInv' /\ (Kept => Kept')
<1>1. UNCHANGED <<primary, up, log, acked, sess, db_local, op, claims, confirmed>>
  BY DEF Main, MainRefused, InitTables, AllDead, Validate, MainQueryLost,
         Interrupt, cvars, wvars, hvars, conn
<1>2. \/ UNCHANGED pc /\ (mainpc' = "init" => mainpc = "init")
      \/ mainpc = "init" /\ mainpc' # "init" /\ pc' = [w \in Workers |-> "while"]
  BY DEF Main, MainRefused, InitTables, AllDead, Validate, MainQueryLost,
         Interrupt, wvars, MainDone
<1>3. ClusterInv'
  BY <1>1 DEF CoreInv, ClusterInv, FreeClean, OnUp, AckedInLog, Pending
<1>4. SessionInv'
  BY <1>1, <1>2 DEF CoreInv, SessionInv, Owned, Apart, Asked
<1>5. NotYetStarted' BY <1>2 DEF CoreInv, NotYetStarted
<1>6. Durable => Durable' BY <1>1 DEF Durable, Settled
<1>7. NothingLost => NothingLost'
  <2>1. \A i : Settled(i) => Settled(i)' BY <1>1 DEF Settled
  <2>2. \A w \in Workers : pc[w] \in AtIt => pc'[w] \in AtIt
    BY <1>2 DEF CoreInv, NotYetStarted, AtIt, TaskStates
  <2> QED BY <1>1, <2>1, <2>2 DEF NothingLost
<1> QED BY <1>3, <1>4, <1>5, <1>6, <1>7 DEF CoreInv, Kept

IInv == TypeInv /\ CoreInv /\ (SyncMode => Kept)

LEMMA SafetyInit == Init => IInv
<1> SUFFICES ASSUME Init PROVE IInv
  OBVIOUS
<1>1. TypeInv BY TypeInit
<1>2. /\ \A b \in Backends : sess[b] = FreeSession
      /\ log = << >> /\ acked = 0 /\ confirmed = {} /\ claims = 0
      /\ \A w \in Workers : db_local[w] = NoSession /\ pc[w] = "new"
  BY DEF Init, ClusterInit
<1>3. ClusterInv
  BY <1>2 DEF ClusterInv, FreeClean, OnUp, AckedInLog, Pending, FreeSession, Live
<1>4. SessionInv
  BY <1>2, NoSessionAssumption DEF SessionInv, Owned, Apart, Asked
<1>5. NotYetStarted /\ Durable /\ NothingLost
  BY <1>2 DEF NotYetStarted, Durable, NothingLost
<1> QED BY <1>1, <1>3, <1>4, <1>5 DEF IInv, CoreInv, Kept

LEMMA SafetyStep == IInv /\ [Next]_vars => IInv'
<1> SUFFICES ASSUME IInv, [Next]_vars PROVE IInv'
  OBVIOUS
<1>1. TypeInv /\ TypeInv' BY TypeStep DEF IInv
<1>2. CoreInv /\ (SyncMode => Kept) BY DEF IInv
<1> SUFFICES CoreInv' /\ (SyncMode => Kept')
  BY <1>1 DEF IInv
<1>3. ASSUME NEW w \in Workers, Worker(w) \/ Deadlock(w) \/ Canceled(w)
      PROVE  CoreInv' /\ (Kept => Kept')
  BY <1>1, <1>2, <1>3, WorkerKeepsCore, WorkerKeepsKept
<1>4. CASE Main \/ MainQueryLost \/ Interrupt
  BY <1>1, <1>2, <1>4, MainKeepsSafety
<1>5. CASE Cluster
  <2>1. ClusterTypeOK /\ ReplayedInLog /\ ClusterNext /\ ClusterInv
    BY <1>1, <1>2, <1>5 DEF TypeInv, TypeOK, Cluster, CoreInv
  <2>2. ClusterInv' BY <2>1, ClusterKeeps
  <2>3. SessionInv' BY <1>1, <1>2, <1>5, ClusterKeepsSessions DEF CoreInv
  <2>4. SyncMode => \A i : Settled(i) => Settled(i)' BY <2>1, ClusterSettles
  <2>5. UNCHANGED <<pc, op, claims, confirmed, mainpc>>
    BY <1>5 DEF Cluster, wvars, hvars, mvars
  <2>6. NotYetStarted' BY <1>2, <2>5 DEF CoreInv, NotYetStarted
  <2>7. SyncMode => Durable' /\ NothingLost'
    BY <1>2, <2>4, <2>5 DEF Kept, Durable, NothingLost
  <2> QED BY <2>2, <2>3, <2>6, <2>7 DEF CoreInv, Kept
<1>6. CASE UNCHANGED vars
  BY <1>2, <1>6
     DEF CoreInv, Kept, ClusterInv, FreeClean, OnUp, AckedInLog, Pending, SessionInv,
         Owned, Apart, Asked, NotYetStarted, Durable, NothingLost, Settled, vars,
         cvars, wvars, mvars, hvars
<1> QED BY <1>2, <1>3, <1>4, <1>5, <1>6 DEF Next

LEMMA SafetyInvariant == Spec => []IInv
BY SafetyInit, SafetyStep, PTL DEF Spec

\* A worker that goes on to the next operation may rely on the last one: with
\* synchronous_mode no sequence of switchovers, crashes and failovers takes a
\* transfer away whose COMMIT was answered, however many there are.
THEOREM ConfirmedTheorem == Spec => []ConfirmedIsDurable
<1>1. IInv => ConfirmedIsDurable
  BY DEF IInv, Kept, Durable, ConfirmedIsDurable
<1> QED BY <1>1, SafetyInvariant, PTL

\* The retry loop loses no operation: each one that was taken off the counter
\* is applied, or a worker is still at it, was told to stop or has died of it.
THEOREM NoOperationLostTheorem == Spec => []NoOperationLost
<1>1. IInv => NoOperationLost
  BY DEF IInv, Kept, NothingLost, AtIt, NoOperationLost
<1> QED BY <1>1, SafetyInvariant, PTL

\* Two workers never talk on one session, and none on one that its server has
\* given to somebody else, with or without synchronous_mode.
THEOREM SessionsAreApart == Spec => [](Owned /\ Apart)
<1>1. IInv => Owned /\ Apart
  BY DEF IInv, CoreInv, SessionInv
<1> QED BY <1>1, SafetyInvariant, PTL

-----------------------------------------------------------------------------
(* What is asked of the servers.                                           *)

Logged(i) == \E k \in 1 .. Len(log) : log[k][1] = i
Sent(b, i) == sess[b].st = "commit" /\ sess[b].op = i

\* Operations are claims, and every worker has its own.
ClaimedOnly ==
    /\ \A w \in Workers :
         op[w] <= claims /\ (pc[w] \in TaskStates => op[w] > 0)
    /\ \A k \in 1 .. Len(log) : log[k][1] <= claims
    /\ \A b \in Backends : sess[b].st = "commit" => sess[b].op <= claims

OwnOperation ==
    \A v, w \in Workers : v # w /\ op[v] = op[w] => op[v] = 0

\* No COMMIT of the operation has been sent yet, or one is in doubt.
Untried ==
    \A w \in Workers :
      pc[w] \in TaskStates \ {"reply"} /\ op[w] \notin doubted =>
        ~Logged(op[w]) /\ \A b \in Backends : ~Sent(b, op[w])

SentOnce ==
    \A b, c \in Backends :
      /\ b # c /\ sess[b].st = "commit" /\ sess[c].st = "commit"
      /\ sess[b].op = sess[c].op
      => sess[b].op \in doubted

SentFirst ==
    \A b \in Backends :
      sess[b].st = "commit" /\ Logged(sess[b].op) => sess[b].op \in doubted

OnceInv ==
    /\ ClaimedOnly /\ OwnOperation /\ Untried /\ SentOnce /\ SentFirst
    /\ RepeatsOnlyDoubted

-----------------------------------------------------------------------------
(* What the server has of a worker's transaction.                          *)

\* The state of a session that is connected, by what its worker does next.
Tells(l, s) ==
    /\ l \in {"while", "load", "store", "connect", "begin", "except", "rollback"}
         => s.st = "idle"
    /\ l \in {"select", "lock", "debit"} => s.st = "block" /\ s.delta = 0
    /\ l = "credit" => s.st = "block" /\ s.delta = -Amount
    /\ l = "commit" => s.st = "block" /\ s.delta = 1

Told(w) ==
    db_local[w] \in Backends /\ Healthy(db_local[w]) =>
      Tells(pc[w], sess[db_local[w]])

Detached(w) == pc[w] \in Ended \cup {"new"} => db_local[w] = NoSession

\* Sessions without a transaction have changed nothing, one that commits has
\* changed the sum by 1, and one its client let go of has no transaction.
Proper(s) ==
    /\ s.st \in {"free", "idle", "failed"} => s.delta = 0
    /\ s.st = "commit" => s.delta = 1
    /\ s.st \in Live /\ s.link = "left" => s.st = "idle"

UpIsOwned ==
    \A b \in Backends : Healthy(b) => \E w \in Workers : db_local[w] = b

WorkInv ==
    /\ \A w \in Workers : Told(w) /\ Detached(w)
    /\ \A b \in Backends : Proper(sess[b])
    /\ UpIsOwned
    /\ WholeTransfers

-----------------------------------------------------------------------------
(* No operation is booked twice without a doubt.                           *)

\* What a client does to a session never sends a COMMIT but SendCommit.
LEMMA NothingSent ==
    ASSUME ClusterTypeOK, NEW b \in Backends,
           \/ Accept(b) \/ Begin(b) \/ Abort(b) \/ EndBlock(b)
           \/ Disconnect(b) \/ Forget(b)
           \/ \E r \in Rows : LockRow(b, r)
           \/ \E d \in Int : Change(b, d)
    PROVE  \A c \in Backends :
             sess'[c].st = "commit" => sess[c].st = "commit" /\ sess'[c].op = sess[c].op
<1> USE DEF ClusterTypeOK, FreeSession
<1>a. sess[b] \in Session OBVIOUS
<1>1. CASE Accept(b) BY <1>a, <1>1 DEF Accept, Session
<1>2. CASE Begin(b) BY <1>a, <1>2 DEF Begin, Session
<1>3. CASE Abort(b) \/ EndBlock(b) BY <1>3 DEF Abort, EndBlock
<1>4. ASSUME Disconnect(b)
      PROVE  \A c \in Backends :
               sess'[c].st = "commit" => sess[c].st = "commit" /\ sess'[c].op = sess[c].op
  <2>1. CASE sess[b].st \in Live /\ sess[b].link = "cut"
    <3>1. sess'[b] = [sess[b] EXCEPT !.link = "dropped"]
      BY <1>4, <2>1 DEF Disconnect
    <3> QED BY <1>a, <1>4, <2>1, <3>1 DEF Disconnect, Session
  <2>2. CASE ~(sess[b].st \in Live /\ sess[b].link = "cut")
    BY <1>4, <2>2 DEF Disconnect
  <2> QED BY <2>1, <2>2
<1>5. CASE Forget(b) /\ Healthy(b)
  <2>1. sess' = [sess EXCEPT ![b] = [sess[b] EXCEPT !.link = "left"]]
    BY <1>5 DEF Forget
  <2>2. sess'[b].st = sess[b].st /\ sess'[b].op = sess[b].op
    BY <1>a, <2>1 DEF Session
  <2> QED BY <2>1, <2>2
<1>6. CASE \E r \in Rows : LockRow(b, r) BY <1>a, <1>6 DEF LockRow, Session
<1>7. CASE \E d \in Int : Change(b, d) BY <1>a, <1>7 DEF Change, Session
<1> QED BY <1>1, <1>2, <1>3, <1>4, <1>5, <1>6, <1>7 DEF Forget

\* What a step of worker w does to the operations that are asked for.  Outside
\* a task, and with the answer to a COMMIT outstanding, it does not try again.
Trying(w) == pc[w] \in TaskStates \ {"reply"}

Asks(w) ==
    /\ \A v \in Workers \ {w} : pc'[v] = pc[v] /\ op'[v] = op[v]
    /\ UNCHANGED log
    /\ doubted \subseteq doubted'
    /\ \/ /\ claims' = claims + 1 /\ op'[w] = claims + 1
          /\ UNCHANGED sess
       \/ /\ UNCHANGED <<claims, op>>
          /\ \A c \in Backends :
               sess'[c].st = "commit" =>
                 sess[c].st = "commit" /\ sess'[c].op = sess[c].op
          /\ Trying(w)' => Trying(w) \/ op[w] \in doubted'
          /\ pc'[w] \in TaskStates => pc[w] \in TaskStates
       \/ /\ UNCHANGED <<claims, op>>
          /\ pc[w] = "commit" /\ pc'[w] = "reply"
          /\ db_local[w] \in Backends
          /\ sess'[db_local[w]].op = op[w]
          /\ \A c \in Backends \ {db_local[w]} : sess'[c] = sess[c]

LEMMA WorkerAsks ==
    ASSUME TypeInv, CoreInv, NEW w \in Workers,
           Worker(w) \/ Deadlock(w) \/ Canceled(w)
    PROVE  Asks(w)
<1>1. Effect(w) BY WorkerEffect DEF CoreInv, ClusterInv
<1>2. ClusterTypeOK /\ pc \in [Workers -> WorkerStates] /\ op \in [Workers -> Nat]
      /\ claims \in Nat /\ db_local \in [Workers -> Backends \cup {NoSession}]
      /\ want \in [Workers -> Rows \cup {NoRow}]
  BY DEF TypeInv, TypeOK, WorkerTypeOK, HistoryTypeOK
<1>3. /\ \A v \in Workers \ {w} : pc'[v] = pc[v] /\ op'[v] = op[v]
      /\ UNCHANGED log
  BY <1>1, <1>2 DEF Effect
<1>4. InAttempt(w) => db_local[w] \in Backends BY DEF TypeInv, HasSession
<1> USE DEF cvars, servers, conn, hvars, Trying, TaskStates, Goto
<1>5. CASE Store(w) BY <1>2, <1>3, <1>5 DEF Store, Asks
<1>6. CASE Commit(w)
  <2>1. db_local[w] \in Backends BY <1>4, <1>6 DEF Commit, Statement, InAttempt
  <2>2. /\ sess'[db_local[w]].op = op[w]
        /\ \A c \in Backends \ {db_local[w]} : sess'[c] = sess[c]
    BY <1>2, <1>6, <2>1 DEF Commit, Statement, SendCommit, ClusterTypeOK, Session
  <2> QED BY <1>2, <1>3, <1>6, <2>1, <2>2 DEF Commit, Statement, Asks
<1>7. CASE SessionLost(w)
  BY <1>2, <1>3, <1>7 DEF SessionLost, Asks
<1> DEFINE Silent ==
      \A c \in Backends :
        sess'[c].st = "commit" => sess[c].st = "commit" /\ sess'[c].op = sess[c].op
<1>8. ASSUME Silent, UNCHANGED <<claims, op, doubted>>,
             Trying(w)' => Trying(w), pc'[w] \in TaskStates => pc[w] \in TaskStates
      PROVE  Asks(w)
  BY <1>3, <1>8 DEF Asks
<1>9. UNCHANGED sess => Silent OBVIOUS
<1>10. DropSession(w) => Silent
  BY <1>2, <1>9, NothingSent DEF DropSession
<1> HIDE DEF Silent
<1>11. CASE While(w)
  <2>1. db_local[w] # NoSession /\ Disconnect(db_local[w]) => Silent
    BY <1>2, NothingSent DEF Silent
  <2> QED BY <1>2, <1>8, <1>9, <1>11, <2>1 DEF While
<1>12. CASE Load(w) \/ KeepSession(w) \/ ConnectFails(w)
  BY <1>2, <1>8, <1>9, <1>12 DEF Load, KeepSession, ConnectFails, ChooseHost
<1>13. CASE Connect(w)
  <2>1. PICK p \in Pids : Accept(<<Target(w), p>>) BY <1>13 DEF Connect
  <2>2. ConnectingTo(w) \in 1 .. NHosts
    BY HostsOfFile DEF TypeInv, TypeOK, WorkerTypeOK, ConnectingTo
  <2>3. <<Target(w), p>> \in Backends BY <2>2, HostsOfFile DEF Backends, Target
  <2>4. Silent BY <1>2, <2>1, <2>3, NothingSent DEF Silent
  <2> QED BY <1>2, <1>8, <1>13, <2>4 DEF Connect, ChooseHost
<1>14. CASE Start(w) \/ Select(w) \/ Lock(w) \/ Debit(w) \/ Credit(w) \/ Reply(w)
  <2>1. db_local[w] \in Backends
    BY <1>4, <1>14 DEF Start, Select, Lock, Debit, Credit, Reply, Statement, InAttempt
  <2>2. CASE Start(w)
    <3>1. Begin(db_local[w]) => Silent BY <1>2, <2>1, NothingSent DEF Silent
    <3> QED BY <1>2, <1>8, <1>10, <2>2, <3>1 DEF Start
  <2>3. CASE Select(w) BY <1>2, <1>8, <1>9, <2>3 DEF Select, Statement
  <2>4. CASE Lock(w)
    <3>1. want[w] \in Rows BY <2>4 DEF Lock, Statement, TypeInv, HasSession
    <3>2. Silent BY <1>2, <2>1, <2>4, <3>1, NothingSent DEF Lock, Silent
    <3> QED BY <1>2, <1>8, <2>4, <3>2 DEF Lock, Statement
  <2>5. CASE Debit(w) \/ Credit(w)
    <3>1. -Amount \in Int /\ Amount + 1 \in Int BY AmountAssumption
    <3>2. Silent BY <1>2, <2>1, <2>5, <3>1, NothingSent DEF Debit, Credit, Silent
    <3> QED BY <1>2, <1>8, <2>5, <3>2 DEF Debit, Credit, Statement
  <2>6. CASE Reply(w)
    <3>1. Silent BY <1>2, <2>1, <2>6, NothingSent DEF Reply, Acknowledge, Silent
    <3> QED BY <1>2, <1>8, <2>6, <3>1 DEF Reply, Statement
  <2> QED BY <1>14, <2>2, <2>3, <2>4, <2>5, <2>6
<1>15. CASE ReadOnly(w) \/ Deadlock(w) \/ Canceled(w)
  <2>1. db_local[w] \in Backends BY <1>4, <1>15 DEF ReadOnly, Deadlock, Canceled, InAttempt
  <2>2. Silent
    BY <1>2, <1>15, <2>1, NothingSent DEF ReadOnly, Deadlock, Canceled, Fails, Silent
  <2> QED BY <1>2, <1>8, <1>15, <2>2 DEF ReadOnly, Deadlock, Canceled, Fails
<1>16. CASE ExitRollback(w) \/ HandlerRollback(w)
  <2>1. db_local[w] \in Backends
    BY <1>4, <1>16 DEF ExitRollback, HandlerRollback, InAttempt
  <2>2. EndBlock(db_local[w]) => Silent BY <1>2, <2>1, NothingSent DEF Silent
  <2> QED
    BY <1>2, <1>8, <1>9, <1>10, <1>16, <2>2 DEF ExitRollback, HandlerRollback
<1>17. CASE \/ OnDeadlock(w) \/ OnReadOnly(w) \/ OnShutdown(w) \/ OnTerminate(w)
            \/ OnConnection(w)
  BY <1>2, <1>8, <1>9, <1>10, <1>17
     DEF OnDeadlock, OnReadOnly, OnShutdown, OnTerminate, OnConnection, Handled
<1> QED
  BY <1>5, <1>6, <1>7, <1>11, <1>12, <1>13, <1>14, <1>15, <1>16, <1>17
     DEF Worker, Attempt, Handler

LEMMA AsksKeepsOnce ==
    ASSUME TypeInv, OnceInv, NEW w \in Workers, Asks(w)
    PROVE  OnceInv'
<1>1. /\ claims \in Nat /\ \A v \in Workers : op[v] \in Nat
      /\ Len(log) \in Nat /\ \A k \in 1 .. Len(log) : log[k][1] \in Nat
      /\ \A b \in Backends : sess[b].op \in Nat
  BY DEF TypeInv, TypeOK, HistoryTypeOK, ClusterTypeOK, Session
<1>2. /\ \A v \in Workers \ {w} : pc'[v] = pc[v] /\ op'[v] = op[v]
      /\ log' = log /\ doubted \subseteq doubted'
  BY DEF Asks
<1>3. RepeatsOnlyDoubted' BY <1>2 DEF OnceInv, RepeatsOnlyDoubted
<1>4. \A i : Logged(i)' <=> Logged(i) BY <1>2 DEF Logged
<1> USE DEF OnceInv
<1>5. CASE claims' = claims + 1 /\ op'[w] = claims + 1 /\ UNCHANGED sess
  <2>1. ClaimedOnly' BY <1>1, <1>2, <1>5 DEF ClaimedOnly
  <2>2. OwnOperation' BY <1>1, <1>2, <1>5 DEF OwnOperation, ClaimedOnly
  <2>3. ~Logged(claims + 1) /\ \A b \in Backends : ~Sent(b, claims + 1)
    BY <1>1 DEF ClaimedOnly, Logged, Sent
  <2>4. Untried' BY <1>2, <1>4, <1>5, <2>3 DEF Untried, Sent
  <2>5. SentOnce' /\ SentFirst' BY <1>2, <1>4, <1>5 DEF SentOnce, SentFirst
  <2> QED BY <1>3, <2>1, <2>2, <2>4, <2>5
<1>6. CASE /\ UNCHANGED <<claims, op>>
           /\ \A c \in Backends :
                sess'[c].st = "commit" =>
                  sess[c].st = "commit" /\ sess'[c].op = sess[c].op
           /\ Trying(w)' => Trying(w) \/ op[w] \in doubted'
           /\ pc'[w] \in TaskStates => pc[w] \in TaskStates
  <2>1. ClaimedOnly' BY <1>1, <1>2, <1>6 DEF ClaimedOnly
  <2>2. OwnOperation' BY <1>6 DEF OwnOperation
  <2>3. Untried' BY <1>2, <1>4, <1>6 DEF Untried, Sent, Trying
  <2>4. SentOnce' /\ SentFirst' BY <1>2, <1>4, <1>6 DEF SentOnce, SentFirst
  <2> QED BY <1>3, <2>1, <2>2, <2>3, <2>4
<1>7. CASE /\ UNCHANGED <<claims, op>>
           /\ pc[w] = "commit" /\ pc'[w] = "reply"
           /\ db_local[w] \in Backends
           /\ sess'[db_local[w]].op = op[w]
           /\ \A c \in Backends \ {db_local[w]} : sess'[c] = sess[c]
  <2> DEFINE b == db_local[w]
  <2>1. pc[w] \in TaskStates \ {"reply"} /\ pc'[w] \notin TaskStates \ {"reply"}
    BY <1>7 DEF TaskStates
  <2>2. op[w] \notin doubted => ~Logged(op[w]) /\ \A c \in Backends : ~Sent(c, op[w])
    BY <2>1 DEF Untried
  <2>3. ClaimedOnly' BY <1>1, <1>2, <1>7, <2>1 DEF ClaimedOnly
  <2>4. OwnOperation' BY <1>7 DEF OwnOperation
  <2>5. Untried'
    <3>1. ASSUME NEW v \in Workers, pc'[v] \in TaskStates \ {"reply"},
                 op'[v] \notin doubted'
          PROVE  ~Logged(op'[v]) /\ \A c \in Backends : sess'[c].st = "commit" =>
                                                     sess'[c].op # op'[v]
      <4>1. v # w BY <2>1, <3>1
      <4>2. pc[v] = pc'[v] /\ op'[v] = op[v] /\ op[v] # 0 /\ op[v] # op[w]
        BY <1>1, <1>2, <1>7, <3>1, <4>1 DEF ClaimedOnly, OwnOperation
      <4>3. ~Logged(op[v]) /\ \A c \in Backends : ~Sent(c, op[v])
        BY <1>2, <3>1, <4>2 DEF Untried
      <4>4. ASSUME NEW c \in Backends, sess'[c].st = "commit"
            PROVE  sess'[c].op # op[v]
        BY <1>7, <4>2, <4>3, <4>4 DEF Sent
      <4> QED BY <4>2, <4>3, <4>4
    <3>2. \A i : Logged(i)' <=> Logged(i) BY <1>4
    <3> QED BY <1>2, <3>1 DEF Untried, Logged, Sent
  <2>6. SentOnce' BY <1>2, <1>7, <2>2 DEF SentOnce, Sent
  <2>7. SentFirst' BY <1>2, <1>4, <1>7, <2>2 DEF SentFirst
  <2> QED BY <1>3, <2>3, <2>4, <2>5, <2>6, <2>7
<1> QED BY <1>5, <1>6, <1>7 DEF Asks

LEMMA ClusterKeepsOnce ==
    ASSUME TypeInv, OnceInv, Cluster
    PROVE  OnceInv'
<1>1. /\ claims \in Nat /\ log \in Seq(Nat \X Int) /\ Len(log) \in Nat
      /\ \A k \in 1 .. Len(log) : log[k][1] \in Nat
      /\ sess \in [Backends -> Session] /\ \A b \in Backends : sess[b].op \in Nat
  BY DEF TypeInv, TypeOK, HistoryTypeOK, ClusterTypeOK, Session
<1>2. UNCHANGED <<claims, op, pc, doubted>> BY DEF Cluster, wvars, hvars
<1> USE DEF OnceInv
<1>3. OwnOperation' BY <1>2 DEF OwnOperation
\* A COMMIT that arrives moves its operation from the session to the log.
<1>4. ASSUME NEW b \in Backends, ServerCommit(b) PROVE OnceInv'
  <2> DEFINE i == sess[b].op
  <2>1. /\ Len(log') = Len(log) + 1 /\ log'[Len(log) + 1][1] = i
        /\ \A k \in 1 .. Len(log) : log'[k] = log[k]
    BY <1>1, <1>4 DEF ServerCommit
  <2>2. /\ sess[b].st = "commit" /\ sess'[b].st = "committed"
        /\ \A c \in Backends \ {b} : sess'[c] = sess[c]
    <3>1. sess'[b] = [sess[b] EXCEPT !.st = "committed", !.pos = Len(log) + 1]
      BY <1>1, <1>4 DEF ServerCommit
    <3> QED BY <1>1, <1>4, <3>1 DEF ServerCommit, Session
  <2>3. \A j : Logged(j)' <=> Logged(j) \/ j = i
    <3>1. \A k : k \in 1 .. Len(log') <=> k \in 1 .. Len(log) \/ k = Len(log) + 1
      BY <1>1, <2>1
    <3> QED BY <2>1, <3>1 DEF Logged
  <2>4. ClaimedOnly'
    <3>1. \A k : k \in 1 .. Len(log') => k \in 1 .. Len(log) \/ k = Len(log) + 1
      BY <1>1, <2>1
    <3> QED BY <1>2, <2>1, <2>2, <3>1 DEF ClaimedOnly
  <2>5. Untried' BY <1>2, <2>2, <2>3 DEF Untried, Sent
  <2>6. SentOnce' BY <1>2, <2>2 DEF SentOnce
  <2>7. SentFirst' BY <1>2, <2>2, <2>3 DEF SentFirst, SentOnce
  <2>8. RepeatsOnlyDoubted'
    <3>1. ASSUME NEW j \in 1 .. Len(log'), NEW k \in 1 .. Len(log'),
                 j < k, log'[j][1] = log'[k][1]
          PROVE  log'[j][1] \in doubted
      <4>1. j \in 1 .. Len(log) BY <1>1, <2>1, <3>1
      <4>2. CASE k = Len(log) + 1
        <5>1. Logged(i) BY <2>1, <3>1, <4>1, <4>2 DEF Logged
        <5> QED BY <2>1, <2>2, <3>1, <4>2, <5>1 DEF SentFirst
      <4>3. CASE k # Len(log) + 1
        <5>1. k \in 1 .. Len(log) BY <1>1, <2>1, <4>3
        <5> QED BY <2>1, <3>1, <4>1, <5>1 DEF RepeatsOnlyDoubted
      <4> QED BY <4>2, <4>3
    <3> QED BY <1>2, <3>1 DEF RepeatsOnlyDoubted
  <2> QED BY <1>3, <2>4, <2>5, <2>6, <2>7, <2>8
\* Whatever else happens sends nothing and adds nothing to the log.
<1>5. ASSUME /\ Len(log') \in Nat /\ Len(log') <= Len(log)
             /\ \A k \in 1 .. Len(log') : log'[k] = log[k],
             \A c \in Backends :
               sess'[c].st = "commit" =>
                 sess[c].st = "commit" /\ sess'[c].op = sess[c].op
      PROVE  OnceInv'
  <2>1. \A k \in 1 .. Len(log') : k \in 1 .. Len(log) BY <1>1, <1>5
  <2>2. \A j : Logged(j)' => Logged(j) BY <1>5, <2>1 DEF Logged
  <2>3. ClaimedOnly' BY <1>2, <1>5, <2>1 DEF ClaimedOnly
  <2>4. Untried' BY <1>2, <1>5, <2>2 DEF Untried, Sent
  <2>5. SentOnce' /\ SentFirst' BY <1>2, <1>5, <2>2 DEF SentOnce, SentFirst
  <2>6. RepeatsOnlyDoubted' BY <1>2, <1>5, <2>1 DEF RepeatsOnlyDoubted
  <2> QED BY <1>3, <2>3, <2>4, <2>5, <2>6
<1>6. ASSUME NEW b \in Backends, Reap(b) \/ Cut(b) PROVE OnceInv'
  <2>1. UNCHANGED log BY <1>6 DEF Reap, Cut
  <2>2. CASE Reap(b)
    <3>1. sess' = [sess EXCEPT ![b] = ClientEnd(b, "reset")] BY <2>2 DEF Reap
    <3>2. ClientEnd(b, "reset").st # "commit" BY EndOfSession DEF Live
    <3> QED BY <1>1, <1>5, <2>1, <3>1, <3>2
  <2>3. CASE Cut(b)
    <3>1. sess'[b] = [sess[b] EXCEPT
                        !.link = IF @ = "up" THEN "cut" ELSE "dropped"]
          /\ \A c \in Backends \ {b} : sess'[c] = sess[c]
      BY <1>1, <2>3 DEF Cut
    <3>2. sess'[b].st = sess[b].st /\ sess'[b].op = sess[b].op
      BY <1>1, <3>1 DEF Session
    <3>3. \A c \in Backends : sess'[c].st = sess[c].st /\ sess'[c].op = sess[c].op
      BY <3>1, <3>2
    <3> QED BY <1>1, <1>5, <2>1, <3>3
  <2> QED BY <1>6, <2>2, <2>3
<1>7. ASSUME NEW g \in Hosts, NEW how \in {"fatal", "reset"}, EndSessions(g, how),
             UNCHANGED log
      PROVE  OnceInv'
  <2>1. \A c \in Backends : sess'[c] = sess[c] \/ sess'[c].st # "commit"
    BY <1>7, EndOfSession DEF EndSessions, Live
  <2> QED BY <1>1, <1>5, <1>7, <2>1
<1>8. ASSUME NEW h \in Hosts, Switchover(h) \/ Crash(h) PROVE OnceInv'
  <2>1. primary \in Hosts BY DEF TypeInv, TypeOK, ClusterTypeOK
  <2> QED BY <1>7, <1>8, <2>1 DEF Switchover, Crash
<1>9. ASSUME NEW h \in Hosts, Replay(h) \/ Restart(h) PROVE OnceInv'
  <2>1. UNCHANGED <<log, sess>> BY <1>9 DEF Replay, Restart
  <2> QED BY <1>1, <1>5, <2>1
<1>10. ASSUME NEW h \in Hosts, Failover(h) PROVE OnceInv'
  <2>1. UNCHANGED sess /\ log' = SubSeq(log, 1, replayed[h]) BY <1>10 DEF Failover
  <2>2. replayed[h] \in 0 .. Len(log)
    BY DEF TypeInv, TypeOK, ClusterTypeOK, ReplayedInLog
  <2>3. /\ Len(log') = replayed[h]
        /\ \A j \in 1 .. replayed[h] : log'[j] = log[j]
    BY <1>1, <2>1, <2>2, PrefixOfLog
  <2>4. Len(log') \in Nat /\ Len(log') <= Len(log) BY <1>1, <2>2, <2>3
  <2> QED BY <1>5, <2>1, <2>3, <2>4
<1> QED BY <1>4, <1>6, <1>8, <1>9, <1>10 DEF Cluster, ClusterNext

LEMMA MainKeepsOnce ==
    ASSUME TypeInv, CoreInv, OnceInv, Main \/ MainQueryLost \/ Interrupt
    PROVE  OnceInv'
<1>1. UNCHANGED <<log, sess, op, claims, doubted>>
  BY DEF Main, MainRefused, InitTables, AllDead, Validate, MainQueryLost,
         Interrupt, cvars, wvars, hvars, conn
<1>2. \A w \in Workers : pc'[w] \in TaskStates => pc'[w] = pc[w]
  BY DEF Main, MainRefused, InitTables, AllDead, Validate, MainQueryLost,
         Interrupt, wvars, TaskStates
<1> QED
  BY <1>1, <1>2 DEF OnceInv, ClaimedOnly, OwnOperation, Untried, SentOnce, SentFirst,
                    RepeatsOnlyDoubted, Logged, Sent

LEMMA OnceInit == Init => OnceInv
<1> SUFFICES ASSUME Init PROVE OnceInv
  OBVIOUS
<1>1. /\ \A b \in Backends : sess[b].st = "free"
      /\ log = << >> /\ Len(log) = 0 /\ claims = 0
      /\ \A w \in Workers : op[w] = 0 /\ pc[w] = "new"
  BY DEF Init, ClusterInit, FreeSession
<1> QED
  BY <1>1 DEF OnceInv, ClaimedOnly, OwnOperation, Untried, SentOnce, SentFirst,
              RepeatsOnlyDoubted, Logged, TaskStates

LEMMA OnceStep == IInv /\ OnceInv /\ [Next]_vars => OnceInv'
<1> SUFFICES ASSUME IInv, OnceInv, [Next]_vars PROVE OnceInv'
  OBVIOUS
<1>1. TypeInv /\ CoreInv BY DEF IInv
<1>2. ASSUME NEW w \in Workers, Worker(w) \/ Deadlock(w) \/ Canceled(w)
      PROVE  OnceInv'
  BY <1>1, <1>2, WorkerAsks, AsksKeepsOnce
<1>3. CASE Main \/ MainQueryLost \/ Interrupt BY <1>1, <1>3, MainKeepsOnce
<1>4. CASE Cluster BY <1>1, <1>4, ClusterKeepsOnce
<1>5. CASE UNCHANGED vars
  BY <1>5 DEF OnceInv, ClaimedOnly, OwnOperation, Untried, SentOnce, SentFirst,
              RepeatsOnlyDoubted, Logged, Sent, vars, cvars, wvars, hvars
<1> QED BY <1>2, <1>3, <1>4, <1>5 DEF Next

\* The retry loop books an operation twice only after it lost a connection with
\* the answer to the operation's COMMIT outstanding, however the servers fail
\* and whether or not they replicate synchronously.
THEOREM RepeatsTheorem == Spec => []RepeatsOnlyDoubted
<1>1. OnceInv => RepeatsOnlyDoubted BY DEF OnceInv
<1> QED BY <1>1, OnceInit, OnceStep, SafetyInvariant, PTL DEF Spec
-----------------------------------------------------------------------------
(* Every commit is a whole transfer, and no transaction is left behind.    *)

\* What a step of worker w does to its session and the one it gets.
OwnWork(w) ==
    /\ Told(w)' /\ Detached(w)'
    /\ \A c \in Backends :
         c \in {db_local[w], db_local'[w]} =>
           Proper(sess'[c]) /\ (Healthy(c)' => db_local'[w] = c)

LEMMA OwnWorkKeeps ==
    ASSUME TypeInv, CoreInv, WorkInv, NEW w \in Workers, Effect(w), OwnWork(w)
    PROVE  WorkInv'
<1>1. \A v \in Workers \ {w} :
        /\ db_local'[v] = db_local[v] /\ op'[v] = op[v] /\ pc'[v] = pc[v]
        /\ db_local[v] \in Backends =>
             /\ db_local[v] # db_local[w] /\ db_local[v] # db_local'[w]
             /\ sess'[db_local[v]] = sess[db_local[v]]
  BY OthersUntouched DEF CoreInv
<1>2. \A c \in Backends :
        c \notin {db_local[w], db_local'[w]} => sess'[c] = sess[c]
  BY DEF Effect
<1>3. ASSUME NEW v \in Workers PROVE Told(v)' /\ Detached(v)'
  BY <1>1 DEF OwnWork, WorkInv, Told, Detached, Healthy
<1>4. ASSUME NEW c \in Backends PROVE Proper(sess'[c])
  BY <1>2 DEF OwnWork, WorkInv
<1>5. ASSUME NEW c \in Backends, Healthy(c)'
      PROVE  \E v \in Workers : db_local'[v] = c
  <2>1. CASE c \in {db_local[w], db_local'[w]} BY <1>5, <2>1 DEF OwnWork
  <2>2. CASE c \notin {db_local[w], db_local'[w]}
    <3>1. Healthy(c) BY <1>2, <1>5, <2>2 DEF Healthy
    <3>2. PICK v \in Workers : db_local[v] = c BY <3>1 DEF WorkInv, UpIsOwned
    <3> QED BY <1>1, <2>2, <3>2
  <2> QED BY <2>1, <2>2
<1>6. WholeTransfers' BY DEF Effect, WorkInv, WholeTransfers
<1> QED BY <1>3, <1>4, <1>5, <1>6 DEF WorkInv, UpIsOwned

\* The three shapes again: the session is left alone, spoken on, let go of.
LEMMA SilentWork ==
    ASSUME TypeInv, WorkInv, NEW w \in Workers, NEW l \in WorkerStates, Goto(w, l),
           UNCHANGED <<sess, db_local>>,
           \/ db_local[w] = NoSession
           \/ l \notin Ended \cup {"new"} /\ ~Healthy(db_local[w])
           \/ l \notin Ended \cup {"new"} /\ Tells(l, sess[db_local[w]])
    PROVE  OwnWork(w)
<1>1. pc'[w] = l BY DEF Goto, TypeInv, TypeOK, WorkerTypeOK
<1>2. Told(w)' BY <1>1, NoSessionAssumption DEF Told, Healthy
<1>3. Detached(w)' BY <1>1 DEF Detached
<1> QED BY <1>2, <1>3 DEF OwnWork, WorkInv

LEMMA SpokenWork ==
    ASSUME TypeInv, NEW w \in Workers, db_local'[w] \in Backends,
           db_local[w] \in {NoSession, db_local'[w]},
           NEW l \in WorkerStates \ (Ended \cup {"new"}), Goto(w, l),
           Tells(l, sess'[db_local'[w]]), Proper(sess'[db_local'[w]])
    PROVE  OwnWork(w)
<1>1. pc'[w] = l BY DEF Goto, TypeInv, TypeOK, WorkerTypeOK
<1>2. Told(w)' BY <1>1 DEF Told
<1>3. Detached(w)' BY <1>1 DEF Detached
<1> QED BY <1>2, <1>3, NoSessionAssumption DEF OwnWork

LEMMA LeavingWork ==
    ASSUME TypeInv, WorkInv, NEW w \in Workers, NEW l \in WorkerStates, Goto(w, l),
           db_local' = [db_local EXCEPT ![w] = NoSession],
           \/ db_local[w] = NoSession /\ UNCHANGED sess
           \/ /\ db_local[w] # NoSession
              /\ Disconnect(db_local[w]) \/ Forget(db_local[w])
              /\ Tells(pc[w], sess[db_local[w]]) => sess[db_local[w]].st = "idle"
    PROVE  OwnWork(w)
<1>1. pc'[w] = l /\ db_local'[w] = NoSession
  BY DEF Goto, TypeInv, TypeOK, WorkerTypeOK
<1>2. Told(w)' /\ Detached(w)'
  BY <1>1, NoSessionAssumption DEF Told, Detached
<1>3. ASSUME db_local[w] \in Backends
      PROVE  /\ Proper(sess'[db_local[w]])
             /\ sess'[db_local[w]].link # "up" \/ sess'[db_local[w]].st \notin Live
  <2> DEFINE b == db_local[w]
  <2>1. sess \in [Backends -> Session] /\ sess[b] \in Session /\ Proper(sess[b])
    BY <1>3 DEF TypeInv, TypeOK, ClusterTypeOK, WorkInv
  <2>2. ASSUME Disconnect(b)
        PROVE  Proper(sess'[b]) /\ (sess'[b].link # "up" \/ sess'[b].st \notin Live)
    <3>1. CASE sess[b].st \in Live /\ sess[b].link = "cut"
      <4>1. sess'[b] = [sess[b] EXCEPT !.link = "dropped"]
        BY <1>3, <2>1, <2>2, <3>1 DEF Disconnect
      <4>2. /\ sess'[b].st = sess[b].st /\ sess'[b].delta = sess[b].delta
            /\ sess'[b].link = "dropped"
        BY <2>1, <4>1 DEF Session
      <4> QED BY <2>1, <4>2 DEF Proper, Healthy
    <3>2. CASE ~(sess[b].st \in Live /\ sess[b].link = "cut")
      <4>1. sess'[b] = FreeSession BY <1>3, <2>1, <2>2, <3>2 DEF Disconnect
      <4> QED BY <4>1 DEF Proper, Healthy, FreeSession, Live
    <3> QED BY <3>1, <3>2
  <2>3. ASSUME Forget(b), Healthy(b)
        PROVE  Proper(sess'[b]) /\ (sess'[b].link # "up" \/ sess'[b].st \notin Live)
    <3>1. sess'[b] = [sess[b] EXCEPT !.link = "left"]
      BY <1>3, <2>1, <2>3 DEF Forget
    <3>2. /\ sess'[b].st = sess[b].st /\ sess'[b].delta = sess[b].delta
          /\ sess'[b].link = "left"
      BY <2>1, <3>1 DEF Session
    <3>3. Tells(pc[w], sess[b]) BY <1>3, <2>3 DEF WorkInv, Told
    <3>4. sess[b].st = "idle"
      BY <1>3, <2>3, <3>3, NoSessionAssumption DEF Healthy
    <3> QED BY <2>1, <3>2, <3>4 DEF Proper, Healthy
  <2> QED BY <1>3, <2>2, <2>3, NoSessionAssumption DEF Forget
<1> QED BY <1>1, <1>2, <1>3, NoSessionAssumption DEF OwnWork, Healthy

\* What the steps of a task make of a session that is as the worker left it.
LEMMA WorkOfSession ==
    ASSUME ClusterTypeOK, NEW b \in Backends, Proper(sess[b])
    PROVE  /\ Begin(b) /\ Healthy(b) /\ sess[b].st = "idle" =>
                Tells("select", sess'[b]) /\ Proper(sess'[b])
           /\ \A r \in Rows, l \in {"lock", "debit"} :
                LockRow(b, r) /\ Tells("lock", sess[b]) =>
                  Tells(l, sess'[b]) /\ Proper(sess'[b])
           /\ Change(b, -Amount) /\ Tells("debit", sess[b]) =>
                Tells("credit", sess'[b]) /\ Proper(sess'[b])
           /\ Change(b, Amount + 1) /\ Tells("credit", sess[b]) =>
                Tells("commit", sess'[b]) /\ Proper(sess'[b])
           /\ \A i : SendCommit(b, i) /\ Tells("commit", sess[b]) => Proper(sess'[b])
           /\ Abort(b) => Proper(sess'[b])
           /\ EndBlock(b) => sess'[b].st = "idle" /\ Proper(sess'[b])
<1> USE DEF ClusterTypeOK, Live
<1>a. sess[b] \in Session OBVIOUS
<1>1. ASSUME Begin(b), Healthy(b), sess[b].st = "idle"
      PROVE  Tells("select", sess'[b]) /\ Proper(sess'[b])
  <2>1. sess'[b].st = "block" /\ sess'[b].delta = 0
    BY <1>a, <1>1 DEF Begin, Proper, Session
  <2>2. sess'[b].link = sess[b].link BY <1>a, <1>1 DEF Begin, Session
  <2> QED BY <1>1, <2>1, <2>2 DEF Tells, Proper, Healthy
<1>2. ASSUME NEW r \in Rows, NEW l \in {"lock", "debit"}, LockRow(b, r),
             Tells("lock", sess[b])
      PROVE  Tells(l, sess'[b]) /\ Proper(sess'[b])
  <2>1. /\ sess'[b].st = sess[b].st /\ sess'[b].delta = sess[b].delta
        /\ sess'[b].link = sess[b].link
    BY <1>a, <1>2 DEF LockRow, Session
  <2> QED BY <1>2, <2>1 DEF Tells, Proper
<1>3. ASSUME NEW d \in Int, Change(b, d)
      PROVE  /\ sess'[b].st = sess[b].st /\ sess'[b].delta = sess[b].delta + d
             /\ sess'[b].link = sess[b].link
  BY <1>a, <1>3 DEF Change, Session
<1>4. ASSUME Change(b, -Amount), Tells("debit", sess[b])
      PROVE  Tells("credit", sess'[b]) /\ Proper(sess'[b])
  <2>1. -Amount \in Int BY AmountAssumption
  <2>2. /\ sess'[b].st = sess[b].st /\ sess'[b].delta = sess[b].delta + (-Amount)
        /\ sess'[b].link = sess[b].link
    BY <1>3, <1>4, <2>1
  <2>3. sess[b].st = "block" /\ sess[b].delta = 0 BY <1>4 DEF Tells
  <2>4. sess'[b].delta = -Amount BY <2>1, <2>2, <2>3
  <2> QED BY <2>2, <2>3, <2>4 DEF Tells, Proper
<1>5. ASSUME Change(b, Amount + 1), Tells("credit", sess[b])
      PROVE  Tells("commit", sess'[b]) /\ Proper(sess'[b])
  <2>1. Amount + 1 \in Int BY AmountAssumption
  <2>2. /\ sess'[b].st = sess[b].st /\ sess'[b].delta = sess[b].delta + (Amount + 1)
        /\ sess'[b].link = sess[b].link
    BY <1>3, <1>5, <2>1
  <2>3. sess[b].st = "block" /\ sess[b].delta = -Amount BY <1>5 DEF Tells
  <2>4. sess'[b].delta = 1 BY <2>2, <2>3, AmountAssumption
  <2> QED BY <2>2, <2>3, <2>4 DEF Tells, Proper
<1>6. ASSUME NEW i, SendCommit(b, i), Tells("commit", sess[b])
      PROVE  Proper(sess'[b])
  <2>1. /\ sess'[b].st = "commit" /\ sess'[b].delta = sess[b].delta
        /\ sess'[b].link = sess[b].link
    BY <1>a, <1>6 DEF SendCommit, Session
  <2> QED BY <1>6, <2>1 DEF Tells, Proper
<1>7. ASSUME Abort(b) PROVE Proper(sess'[b])
  BY <1>7 DEF Abort, Proper, FreeSession
<1>8. ASSUME EndBlock(b) PROVE sess'[b].st = "idle" /\ Proper(sess'[b])
  BY <1>8 DEF EndBlock, Proper, FreeSession
<1> QED BY <1>1, <1>2, <1>4, <1>5, <1>6, <1>7, <1>8

LEMMA WorkerWorks ==
    ASSUME TypeInv, CoreInv, WorkInv, NEW w \in Workers,
           Worker(w) \/ Deadlock(w) \/ Canceled(w)
    PROVE  OwnWork(w)
<1> DEFINE b == db_local[w]
<1> USE DEF cvars, servers, conn
<1>1. ClusterTypeOK /\ pc = [pc EXCEPT ![w] = pc[w]]
      /\ db_local \in [Workers -> Backends \cup {NoSession}]
  BY DEF TypeInv, TypeOK, WorkerTypeOK
<1>2. /\ \A l \in TaskStates \cup {"while", "load", "store"} :
           l \in WorkerStates \ (Ended \cup {"new"})
      /\ Ended \subseteq WorkerStates
  BY DEF WorkerStates, TaskStates, Ended
<1>3. InAttempt(w) => b \in Backends BY DEF TypeInv, HasSession
<1>4. b \in Backends => Proper(sess[b]) BY DEF WorkInv
<1>5. b \in Backends /\ Healthy(b) => Tells(pc[w], sess[b]) BY DEF WorkInv, Told
<1>a. {"while", "load", "store"} \cup TaskStates = {"while", "load", "store",
         "connect", "begin", "select", "lock", "debit", "credit", "commit", "reply",
         "abort", "except", "rollback"}
      /\ {"finished", "returned", "dead"} = Ended
  BY DEF TaskStates, Ended
<1>b. \A l \in {"while", "load", "store", "connect", "begin", "except", "rollback"},
           k \in {"while", "load", "store", "connect", "begin", "except", "rollback"} :
        Tells(l, sess[b]) => sess[b].st = "idle" /\ Tells(k, sess[b])
  BY DEF Tells
\* Steps that leave the session alone.
<1>6. ASSUME UNCHANGED <<sess, db_local>>,
             NEW l \in {"while", "load", "store", "connect", "begin", "except",
                        "rollback"}, Goto(w, l),
             \/ b = NoSession \/ ~Healthy(b)
             \/ pc[w] \in {"while", "load", "store", "connect", "begin", "except",
                           "rollback"}
      PROVE  OwnWork(w)
  <2>1. l \in WorkerStates \ (Ended \cup {"new"}) BY <1>2, <1>a
  <2>2. b \in Backends \/ b = NoSession BY <1>1
  <2> QED BY <1>5, <1>6, <1>b, <2>1, <2>2, SilentWork
\* Steps that let go of it.
<1>7. ASSUME db_local' = [db_local EXCEPT ![w] = NoSession],
             NEW l \in WorkerStates, Goto(w, l),
             \/ b = NoSession /\ UNCHANGED sess
             \/ b # NoSession /\ (Disconnect(b) \/ Forget(b)),
             pc[w] \in {"while", "begin", "except", "rollback"}
      PROVE  OwnWork(w)
  BY <1>7, <1>b, LeavingWork
<1>8. ASSUME DropSession(w), NEW l \in WorkerStates, Goto(w, l),
             pc[w] \in {"begin", "except", "rollback"}
      PROVE  OwnWork(w)
  BY <1>7, <1>8 DEF DropSession
\* Steps that speak on it.
<1>9. ASSUME b \in Backends, UNCHANGED db_local,
             NEW l \in WorkerStates \ (Ended \cup {"new"}), Goto(w, l),
             Tells(l, sess'[b]), Proper(sess'[b])
      PROVE  OwnWork(w)
  BY <1>9, SpokenWork
<1>10. CASE While(w)
  <2>1. CASE Goto(w, "load") /\ UNCHANGED <<sess, db_local>>
    BY <1>6, <1>10, <2>1 DEF While
  <2>2. CASE Goto(w, "dead") /\ UNCHANGED <<sess, db_local>> /\ b = NoSession
    BY <1>2, <1>a, <2>2, SilentWork
  <2>3. CASE /\ Goto(w, "finished") /\ Disconnect(b) /\ b # NoSession
             /\ db_local' = [db_local EXCEPT ![w] = NoSession]
    BY <1>2, <1>7, <1>10, <1>a, <2>3 DEF While
  <2> QED BY <1>10, <2>1, <2>2, <2>3 DEF While
<1>11. CASE Load(w) \/ Store(w) \/ ConnectFails(w) \/ KeepSession(w)
  BY <1>6, <1>11 DEF Load, Store, ConnectFails, KeepSession, ChooseHost
<1>12. CASE Connect(w)
  <2>1. PICK p \in Pids :
          /\ Accept(<<Target(w), p>>)
          /\ db_local' = [db_local EXCEPT ![w] = <<Target(w), p>>]
    BY <1>12 DEF Connect
  <2>2. db_local[w] = NoSession /\ Goto(w, "begin")
    BY <1>12 DEF Connect, ChooseHost
  <2> DEFINE c == <<Target(w), p>>
  <2>3. ConnectingTo(w) \in 1 .. NHosts
    BY HostsOfFile DEF TypeInv, TypeOK, WorkerTypeOK, ConnectingTo
  <2>4. c \in Backends BY <2>3, HostsOfFile DEF Backends, Target
  <2>5. sess[c] \in Session /\ sess[c].st = "free" /\ Proper(sess[c])
        /\ sess' = [sess EXCEPT ![c].st = "idle"] /\ db_local'[w] = c
    BY <1>1, <2>1, <2>4 DEF WorkInv, Accept, ClusterTypeOK
  <2> HIDE DEF c
  <2>6. sess'[c].st = "idle" /\ sess'[c].delta = 0
    BY <1>1, <2>4, <2>5 DEF Proper, Session, ClusterTypeOK
  <2>7. Tells("begin", sess'[c]) /\ Proper(sess'[c])
    BY <2>6 DEF Tells, Proper
  <2> QED BY <1>2, <1>a, <2>2, <2>4, <2>5, <2>7, SpokenWork
<1>13. CASE Start(w)
  <2>1. b \in Backends /\ Healthy(b) BY <1>3, <1>13 DEF Start, InAttempt
  <2>2. CASE sess[b].st = "idle"
    <3>1. Tells("select", sess'[b]) /\ Proper(sess'[b])
      BY <1>1, <1>4, <1>13, <2>1, <2>2, WorkOfSession DEF Start
    <3> QED BY <1>2, <1>9, <1>13, <1>a, <2>1, <2>2, <3>1 DEF Start
  <2>3. CASE sess[b].st # "idle"
    BY <1>2, <1>8, <1>13, <1>a, <2>3 DEF Start
  <2> QED BY <2>2, <2>3
<1>14. ASSUME NEW here \in {"select", "lock", "debit", "credit", "commit", "reply"},
              Statement(w, here)
       PROVE  /\ b \in Backends /\ Healthy(b) /\ UNCHANGED db_local
              /\ Tells(here, sess[b]) /\ Proper(sess[b])
  <2>1. b \in Backends BY <1>3, <1>14 DEF Statement, InAttempt
  <2> QED BY <1>4, <1>5, <1>14, <2>1 DEF Statement
<1>15. CASE Select(w)
  <2>1. Tells("select", sess[b]) /\ b \in Backends /\ Proper(sess[b])
        /\ UNCHANGED <<sess, db_local>> /\ Goto(w, "lock")
    BY <1>14, <1>15 DEF Select
  <2>2. Tells("lock", sess'[b]) BY <2>1 DEF Tells
  <2> QED BY <1>2, <1>9, <1>a, <2>1, <2>2
<1>16. CASE Lock(w)
  <2>1. /\ Tells("lock", sess[b]) /\ b \in Backends /\ Proper(sess[b])
        /\ UNCHANGED db_local
    BY <1>14, <1>16 DEF Lock
  <2>2. want[w] \in Rows /\ pc[w] = "lock" /\ LockRow(b, want[w])
    BY <1>16 DEF Lock, Statement, TypeInv, HasSession
  <2>3. PICK l \in {"lock", "debit"} : Goto(w, l)
    BY <1>1, <1>16, <2>2 DEF Lock, Goto
  <2>4. Tells(l, sess'[b]) /\ Proper(sess'[b])
    BY <1>1, <2>1, <2>2, WorkOfSession
  <2> QED BY <1>2, <1>9, <1>a, <2>1, <2>3, <2>4
<1>17. CASE Debit(w)
  <2>1. Tells("debit", sess[b]) /\ b \in Backends /\ Proper(sess[b])
        /\ UNCHANGED db_local /\ Change(b, -Amount) /\ Goto(w, "credit")
    BY <1>14, <1>17 DEF Debit
  <2> QED BY <1>1, <1>2, <1>9, <1>a, <2>1, WorkOfSession
<1>18. CASE Credit(w)
  <2>1. Tells("credit", sess[b]) /\ b \in Backends /\ Proper(sess[b])
        /\ UNCHANGED db_local /\ Change(b, Amount + 1) /\ Goto(w, "commit")
    BY <1>14, <1>18 DEF Credit
  <2> QED BY <1>1, <1>2, <1>9, <1>a, <2>1, WorkOfSession
<1>19. CASE Commit(w)
  <2>1. Tells("commit", sess[b]) /\ b \in Backends /\ Proper(sess[b])
        /\ UNCHANGED db_local /\ SendCommit(b, op[w]) /\ Goto(w, "reply")
    BY <1>14, <1>19 DEF Commit
  <2>2. Proper(sess'[b]) BY <1>1, <2>1, WorkOfSession
  <2>3. Tells("reply", sess'[b]) BY DEF Tells
  <2> QED BY <1>2, <1>9, <1>a, <2>1, <2>2, <2>3
<1>20. ASSUME b \in Backends, Abort(b), Goto(w, "abort"), UNCHANGED db_local
       PROVE  OwnWork(w)
  <2>1. Proper(sess'[b]) BY <1>1, <1>4, <1>20, WorkOfSession
  <2>2. Tells("abort", sess'[b]) BY DEF Tells
  <2> QED BY <1>2, <1>9, <1>20, <1>a, <2>1, <2>2
<1>21. ASSUME b \in Backends, EndBlock(b), NEW l \in {"while", "except", "connect"},
              Goto(w, l), UNCHANGED db_local
       PROVE  OwnWork(w)
  <2>1. sess'[b].st = "idle" /\ Proper(sess'[b])
    BY <1>1, <1>4, <1>21, WorkOfSession
  <2>2. Tells(l, sess'[b]) BY <2>1 DEF Tells
  <2> QED BY <1>2, <1>9, <1>21, <1>a, <2>1, <2>2
<1>22. CASE Reply(w)
  BY <1>14, <1>21, <1>22 DEF Reply, Acknowledge
<1>23. CASE SessionLost(w) BY <1>6, <1>23 DEF SessionLost
<1>24. CASE ReadOnly(w) \/ Deadlock(w) \/ Canceled(w)
  <2>1. b \in Backends BY <1>3, <1>24 DEF ReadOnly, Deadlock, Canceled, InAttempt
  <2> QED BY <1>20, <1>24, <2>1 DEF ReadOnly, Deadlock, Canceled, Fails
<1>25. CASE ExitRollback(w)
  <2>1. b \in Backends BY <1>3, <1>25 DEF ExitRollback, InAttempt
  <2>2. CASE Healthy(b) BY <1>21, <1>25, <2>1, <2>2 DEF ExitRollback
  <2>3. CASE ~Healthy(b) BY <1>6, <1>25, <2>3 DEF ExitRollback
  <2> QED BY <2>2, <2>3
<1>26. CASE OnDeadlock(w) BY <1>6, <1>26 DEF OnDeadlock, Handled
<1>27. CASE HandlerRollback(w)
  <2>1. b \in Backends BY <1>3, <1>27 DEF HandlerRollback, InAttempt
  <2>2. CASE Healthy(b) BY <1>21, <1>27, <2>1, <2>2 DEF HandlerRollback
  <2>3. CASE ~Healthy(b) BY <1>2, <1>8, <1>27, <1>a, <2>3 DEF HandlerRollback
  <2> QED BY <2>2, <2>3
<1>28. CASE OnReadOnly(w) \/ OnShutdown(w) \/ OnTerminate(w) \/ OnConnection(w)
  <2>1. pc[w] = "except" /\ DropSession(w) /\ (Goto(w, "connect") \/ Goto(w, "returned"))
    BY <1>28 DEF OnReadOnly, OnShutdown, OnTerminate, OnConnection, Handled
  <2> QED BY <1>2, <1>8, <1>a, <2>1
<1> QED
  BY <1>10, <1>11, <1>12, <1>13, <1>15, <1>16, <1>17, <1>18, <1>19, <1>22, <1>23,
     <1>24, <1>25, <1>26, <1>27, <1>28 DEF Worker, Attempt, Handler

\* The servers end sessions and commit, and change no transaction.
LEMMA ClusterKeepsWork ==
    ASSUME TypeInv, WorkInv, Cluster
    PROVE  WorkInv'
<1> DEFINE Kin(c) ==
      \/ sess'[c] = sess[c]
      \/ sess'[c].st \notin Live /\ sess'[c].delta = 0
      \/ /\ sess'[c].st = sess[c].st /\ sess'[c].delta = sess[c].delta
         /\ sess'[c].link \in {"cut", "dropped"}
      \/ /\ sess[c].st = "commit" /\ sess'[c].st = "committed"
         /\ sess'[c].delta = sess[c].delta /\ sess'[c].link = sess[c].link
<1>1. /\ \A c \in Backends : sess[c] \in Session
      /\ sess \in [Backends -> Session] /\ log \in Seq(Nat \X Int) /\ Len(log) \in Nat
  BY DEF TypeInv, TypeOK, ClusterTypeOK
<1>2. UNCHANGED <<pc, db_local>> BY DEF Cluster, wvars
<1>a. ASSUME NEW b \in Backends, NEW how \in {"fatal", "reset"}
      PROVE  ClientEnd(b, how).st \notin Live /\ ClientEnd(b, how).delta = 0
  BY DEF ClientEnd, FreeSession, Live
<1>3. \A c \in Backends : Kin(c)
  <2>1. ASSUME NEW b \in Backends, ServerCommit(b) PROVE \A c \in Backends : Kin(c)
    <3>1. sess'[b] = [sess[b] EXCEPT !.st = "committed", !.pos = Len(log) + 1]
          /\ sess[b].st = "commit"
          /\ \A c \in Backends \ {b} : sess'[c] = sess[c]
      BY <1>1, <2>1 DEF ServerCommit
    <3>2. /\ sess'[b].st = "committed" /\ sess'[b].delta = sess[b].delta
          /\ sess'[b].link = sess[b].link
      BY <1>1, <3>1 DEF Session
    <3> QED BY <3>1, <3>2
  <2>2. ASSUME NEW b \in Backends, Reap(b) PROVE \A c \in Backends : Kin(c)
    <3>1. sess'[b] = ClientEnd(b, "reset")
          /\ \A c \in Backends \ {b} : sess'[c] = sess[c]
      BY <1>1, <2>2 DEF Reap
    <3> QED BY <1>a, <3>1
  <2>3. ASSUME NEW b \in Backends, Cut(b) PROVE \A c \in Backends : Kin(c)
    <3>1. sess'[b] = [sess[b] EXCEPT !.link = IF @ = "up" THEN "cut" ELSE "dropped"]
          /\ \A c \in Backends \ {b} : sess'[c] = sess[c]
      BY <1>1, <2>3 DEF Cut
    <3>2. /\ sess'[b].st = sess[b].st /\ sess'[b].delta = sess[b].delta
          /\ sess'[b].link \in {"cut", "dropped"}
      BY <1>1, <3>1 DEF Session
    <3> QED BY <3>1, <3>2
  <2>4. ASSUME NEW g \in Hosts, NEW how \in {"fatal", "reset"}, EndSessions(g, how)
        PROVE  \A c \in Backends : Kin(c)
    <3>1. \A c \in Backends : sess'[c] = ClientEnd(c, how) \/ sess'[c] = sess[c]
      BY <2>4 DEF EndSessions
    <3> QED BY <1>a, <3>1
  <2>5. ASSUME NEW h \in Hosts, Switchover(h) \/ Crash(h)
        PROVE  \A c \in Backends : Kin(c)
    <3>1. primary \in Hosts BY DEF TypeInv, TypeOK, ClusterTypeOK
    <3> QED BY <2>4, <2>5, <3>1 DEF Switchover, Crash
  <2>6. ASSUME NEW h \in Hosts, Replay(h) \/ Failover(h) \/ Restart(h)
        PROVE  \A c \in Backends : Kin(c)
    BY <2>6 DEF Replay, Failover, Restart
  <2> QED BY <2>1, <2>2, <2>3, <2>5, <2>6 DEF Cluster, ClusterNext
<1>4. ASSUME NEW c \in Backends
      PROVE  Proper(sess'[c]) /\ (Healthy(c)' => Healthy(c))
  BY <1>3 DEF WorkInv, Proper, Healthy, Live
<1>5. ASSUME NEW w \in Workers PROVE Told(w)' /\ Detached(w)'
  <2>1. Detached(w)' BY <1>2 DEF WorkInv, Detached
  <2>2. ASSUME db_local[w] \in Backends, sess'[db_local[w]].st \in Live,
               sess'[db_local[w]].link = "up"
        PROVE  Tells(pc[w], sess'[db_local[w]])
    <3> DEFINE b == db_local[w]
    <3>1. \/ sess'[b] = sess[b]
          \/ /\ sess[b].st = "commit" /\ sess'[b].st = "committed"
             /\ sess'[b].delta = sess[b].delta /\ sess'[b].link = sess[b].link
      BY <1>3, <2>2
    <3>2. Tells(pc[w], sess[b])
      BY <2>2, <3>1 DEF WorkInv, Told, Healthy, Live
    <3> QED BY <3>1, <3>2 DEF Tells
  <2>3. Told(w)' BY <1>2, <2>2 DEF Told, Healthy
  <2> QED BY <2>1, <2>3
<1>6. UpIsOwned' BY <1>2, <1>4 DEF WorkInv, UpIsOwned
<1>7. WholeTransfers'
  <2>1. ASSUME NEW b \in Backends, ServerCommit(b) PROVE WholeTransfers'
    <3>1. log' = Append(log, <<sess[b].op, sess[b].delta>>) /\ sess[b].delta = 1
      BY <2>1 DEF ServerCommit, WorkInv, Proper
    <3>2. /\ Len(log') = Len(log) + 1 /\ log'[Len(log) + 1][2] = 1
          /\ \A k \in 1 .. Len(log) : log'[k] = log[k]
      BY <1>1, <3>1
    <3>3. \A k : k \in 1 .. Len(log') => k \in 1 .. Len(log) \/ k = Len(log) + 1
      BY <1>1, <3>2
    <3> QED BY <3>2, <3>3 DEF WorkInv, WholeTransfers
  <2>2. ASSUME NEW h \in Hosts, Failover(h) PROVE WholeTransfers'
    <3>1. log' = SubSeq(log, 1, replayed[h]) /\ replayed[h] \in 0 .. Len(log)
      BY <2>2 DEF Failover, TypeInv, TypeOK, ClusterTypeOK, ReplayedInLog
    <3>2. /\ Len(log') = replayed[h]
          /\ \A k \in 1 .. replayed[h] : log'[k] = log[k]
      BY <1>1, <3>1, PrefixOfLog
    <3>3. \A k : k \in 1 .. Len(log') => k \in 1 .. Len(log) BY <1>1, <3>1, <3>2
    <3> QED BY <3>2, <3>3 DEF WorkInv, WholeTransfers
  <2>3. CASE UNCHANGED log BY <2>3 DEF WorkInv, WholeTransfers
  <2>4. ASSUME NEW h \in Hosts, Replay(h) \/ Switchover(h) \/ Crash(h) \/ Restart(h)
        PROVE  UNCHANGED log
    BY <2>4 DEF Replay, Switchover, Crash, Restart
  <2> QED
    BY <2>1, <2>2, <2>3, <2>4 DEF Cluster, ClusterNext, Reap, Cut
<1> QED BY <1>4, <1>5, <1>6, <1>7 DEF WorkInv

LEMMA MainKeepsWork ==
    ASSUME TypeInv, CoreInv, WorkInv, Main \/ MainQueryLost \/ Interrupt
    PROVE  WorkInv'
<1>1. UNCHANGED <<sess, db_local, log>>
  BY DEF Main, MainRefused, InitTables, AllDead, Validate, MainQueryLost,
         Interrupt, cvars, wvars, conn
<1>2. \A w \in Workers : pc'[w] = pc[w] \/ (pc[w] = "new" /\ pc'[w] = "while")
  <2>1. \/ UNCHANGED pc
        \/ mainpc = "init" /\ pc' = [w \in Workers |-> "while"]
    BY DEF Main, MainRefused, InitTables, AllDead, Validate, MainQueryLost,
           Interrupt, wvars
  <2>2. CASE UNCHANGED pc BY <2>2
  <2>3. CASE mainpc = "init" /\ pc' = [w \in Workers |-> "while"]
    <3>1. \A w \in Workers : pc[w] = "new" BY <2>3 DEF CoreInv, NotYetStarted
    <3> QED BY <2>3, <3>1
  <2> QED BY <2>1, <2>2, <2>3
<1>3. ASSUME NEW w \in Workers PROVE Told(w)' /\ Detached(w)'
  <2>1. CASE pc'[w] = pc[w]
    BY <1>1, <2>1 DEF WorkInv, Told, Detached, Healthy
  <2>2. CASE pc[w] = "new" /\ pc'[w] = "while"
    <3>1. db_local'[w] = NoSession BY <1>1, <2>2 DEF WorkInv, Detached
    <3> QED BY <3>1, NoSessionAssumption DEF Told, Detached
  <2> QED BY <1>2, <2>1, <2>2
<1> QED
  BY <1>1, <1>3 DEF WorkInv, UpIsOwned, Healthy, WholeTransfers

LEMMA WorkInit == Init => WorkInv
<1> SUFFICES ASSUME Init PROVE WorkInv
  OBVIOUS
<1>1. /\ \A b \in Backends : sess[b] = FreeSession
      /\ log = << >> /\ \A w \in Workers : db_local[w] = NoSession
  BY DEF Init, ClusterInit
<1>2. \A w \in Workers : Told(w) /\ Detached(w)
  BY <1>1, NoSessionAssumption DEF Told, Detached
<1>3. \A b \in Backends : Proper(sess[b]) /\ ~Healthy(b)
  BY <1>1 DEF Proper, Healthy, FreeSession, Live
<1> QED BY <1>1, <1>2, <1>3 DEF WorkInv, UpIsOwned, WholeTransfers

LEMMA WorkStep == IInv /\ WorkInv /\ [Next]_vars => WorkInv'
<1> SUFFICES ASSUME IInv, WorkInv, [Next]_vars PROVE WorkInv'
  OBVIOUS
<1>1. TypeInv /\ CoreInv BY DEF IInv
<1>2. ASSUME NEW w \in Workers, Worker(w) \/ Deadlock(w) \/ Canceled(w)
      PROVE  WorkInv'
  <2>1. Effect(w) BY <1>1, <1>2, WorkerEffect DEF CoreInv, ClusterInv
  <2>2. OwnWork(w) BY <1>1, <1>2, WorkerWorks
  <2> QED BY <1>1, <2>1, <2>2, OwnWorkKeeps
<1>3. CASE Main \/ MainQueryLost \/ Interrupt BY <1>1, <1>3, MainKeepsWork
<1>4. CASE Cluster BY <1>1, <1>4, ClusterKeepsWork
<1>5. CASE UNCHANGED vars
  BY <1>5 DEF WorkInv, Told, Detached, Healthy, UpIsOwned, WholeTransfers, vars,
              cvars, wvars
<1> QED BY <1>2, <1>3, <1>4, <1>5 DEF Next

LEMMA WorkInvariant == Spec => []WorkInv
BY WorkInit, WorkStep, SafetyInvariant, PTL DEF Spec

\* No exception, at whatever statement it strikes and whichever handler takes
\* it, makes a worker commit half a transfer.
THEOREM WholeTransfersTheorem == Spec => []WholeTransfers
<1>1. WorkInv => WholeTransfers BY DEF WorkInv
<1> QED BY <1>1, WorkInvariant, PTL

\* Nor does one leave a transaction, with its row locks, open on a connection
\* that lives on without a worker.
THEOREM NothingLeftBehind == Spec => []NoTransactionLeftBehind
<1>1. ASSUME TypeInv, WorkInv PROVE NoTransactionLeftBehind
  <2>1. ASSUME NEW b \in Backends, Connected(b), sess[b].st # "idle"
        PROVE  \E w \in Workers : db_local[w] = b /\ pc[w] \in TaskStates
    <3>1. Healthy(b)
      BY <1>1, <2>1 DEF WorkInv, Proper, Connected, Healthy
    <3>2. PICK w \in Workers : db_local[w] = b BY <1>1, <3>1 DEF WorkInv, UpIsOwned
    <3>3. pc[w] \in WorkerStates /\ b # NoSession
      BY <1>1, NoSessionAssumption DEF TypeInv, TypeOK, WorkerTypeOK
    <3>4. pc[w] \notin Ended \cup {"new"} BY <1>1, <3>2, <3>3 DEF WorkInv, Detached
    <3>5. pc[w] \notin {"while", "load", "store"}
      BY <1>1, <2>1, <3>1, <3>2 DEF WorkInv, Told, Tells
    <3> QED BY <3>2, <3>3, <3>4, <3>5 DEF WorkerStates
  <2> QED BY <2>1 DEF NoTransactionLeftBehind
<1>2. IInv => TypeInv BY DEF IInv
<1> QED BY <1>1, <1>2, SafetyInvariant, WorkInvariant, PTL


-----------------------------------------------------------------------------
(* The verdict, and the refinement of AtLeastOnce.  The books are closed on  *)
(* all operations because of how a worker leaves the loop (EndInv): the      *)
(* counter, which never runs ahead of the claims, has reached --operations,  *)
(* unless the test was interrupted; and whoever left it that way is no       *)
(* longer responsible for an operation.                                      *)

\* "Test successful!" is not printed while the sum is short, with and without
\* synchronous_mode, whichever server the query of validate_test reaches.
THEOREM VerdictTheorem == Spec => VerdictEarned
<1> DEFINE Earned == verdict' = "success" => Len(log) >= Operations
<1>1. IInv /\ [Next]_vars => [Earned]_verdict
  <2> SUFFICES ASSUME IInv, [Next]_vars, verdict' # verdict PROVE Earned
    OBVIOUS
  <2>1. Validate
    <3>1. ASSUME NEW w \in Workers, Worker(w) \/ Deadlock(w) \/ Canceled(w)
          PROVE  FALSE
      BY <3>1, WorkersRun DEF mvars
    <3> QED
      BY <3>1 DEF Next, Main, MainRefused, InitTables, AllDead, MainQueryLost,
                  Interrupt, Cluster, vars, mvars
  <2>2. TypeInv BY DEF IInv
  <2>3. DbHosts[MainHost] \in Hosts
    BY <2>2, HostsOfFile DEF TypeInv, TypeOK, MainTypeOK, MainHost
  <2>4. Visible(DbHosts[MainHost]) <= Len(log)
    BY <2>2, <2>3 DEF Visible, TypeInv, TypeOK, ClusterTypeOK, ReplayedInLog
  <2>5. verdict' = "success" => Visible(DbHosts[MainHost]) = Operations
    BY <2>1 DEF Validate
  <2>6. Len(log) \in Nat BY <2>2 DEF TypeInv, TypeOK, ClusterTypeOK
  <2> QED BY <2>4, <2>5, <2>6, OperationsAssumption
<1> QED BY <1>1, SafetyInvariant, PTL DEF Spec, VerdictEarned

\* And it then means what it says: with synchronous_mode no transaction whose
\* COMMIT was answered is missing under a "Test successful!".
THEOREM SuccessTheorem ==
    ASSUME SyncMode
    PROVE  Spec => SuccessMeansNoneLost
<1> DEFINE None == verdict' = "success" =>
                     \A i \in confirmed : \E k \in 1 .. Len(log) : log[k][1] = i
<1>1. IInv => None
  <2> SUFFICES ASSUME IInv, NEW i \in confirmed
               PROVE  \E k \in 1 .. Len(log) : log[k][1] = i
    OBVIOUS
  <2>1. PICK k \in 1 .. acked : k <= Len(log) /\ log[k][1] = i
    BY DEF IInv, Kept, Durable, Settled
  <2>2. k \in 1 .. Len(log)
    BY <2>1 DEF IInv, TypeInv, TypeOK, ClusterTypeOK
  <2> QED BY <2>1, <2>2
<1>2. IInv /\ [Next]_vars => [None]_verdict BY <1>1
<1> QED BY <1>2, SafetyInvariant, PTL DEF Spec, SuccessMeansNoneLost

-----------------------------------------------------------------------------
(* How the test ends.                                                      *)

LeftTheLoop(w) == pc[w] = "finished" \/ (pc[w] = "dead" /\ op[w] = 0)

CounterBehind == operation_num <= claims /\ \A w \in Workers : reg[w] <= claims

EndInv ==
    /\ CounterBehind
    /\ is_terminate => mainpc = "interrupted"
    /\ mainpc \in {"validate", "ended", "crashed"} =>
         \A w \in Workers : pc[w] \in Ended \cup {"new"}
    /\ \A w \in Workers : LeftTheLoop(w) => claims >= Operations \/ is_terminate

\* A worker that has ended takes no step.
LEMMA EndedIsEnd ==
    ASSUME NEW w \in Workers, Worker(w) \/ Deadlock(w) \/ Canceled(w)
    PROVE  pc[w] \notin Ended \cup {"new"}
<1> USE DEF Ended
<1>1. CASE While(w) \/ Load(w) \/ Store(w) BY <1>1 DEF While, Load, Store
<1>2. CASE Attempt(w)
  BY <1>2 DEF Attempt, Connect, ConnectFails, ChooseHost, KeepSession, Start,
              Select, Lock, Debit, Credit, Commit, Reply, Statement, SessionLost,
              ReadOnly, ExitRollback
<1>3. CASE Handler(w)
  BY <1>3 DEF Handler, OnDeadlock, HandlerRollback, OnReadOnly, OnShutdown,
              OnTerminate, OnConnection, Handled
<1>4. CASE Deadlock(w) \/ Canceled(w) BY <1>4 DEF Deadlock, Canceled
<1> QED BY <1>1, <1>2, <1>3, <1>4 DEF Worker

\* What a worker's step does to the counter, and how it leaves the loop.
LEMMA WorkerCounts ==
    ASSUME TypeInv, OnceInv, CounterBehind, NEW w \in Workers,
           Worker(w) \/ Deadlock(w) \/ Canceled(w)
    PROVE  /\ UNCHANGED is_terminate
           /\ claims' \in Nat /\ claims' >= claims
           /\ CounterBehind'
           /\ LeftTheLoop(w)' => claims >= Operations \/ is_terminate
<1>1. /\ pc \in [Workers -> WorkerStates] /\ op \in [Workers -> Nat]
      /\ reg \in [Workers -> Nat] /\ operation_num \in Nat /\ claims \in Nat
  BY DEF TypeInv, TypeOK, WorkerTypeOK, MainTypeOK, HistoryTypeOK
<1>2. pc[w] \in TaskStates => op[w] > 0 BY DEF OnceInv, ClaimedOnly
<1> USE DEF svars, hvars, conn, Goto, CounterBehind
<1>3. ASSUME UNCHANGED <<svars, reg, claims, op>>,
             pc[w] \in TaskStates, pc'[w] # "finished"
      PROVE  /\ UNCHANGED is_terminate
             /\ claims' \in Nat /\ claims' >= claims
             /\ CounterBehind'
             /\ LeftTheLoop(w)' => claims >= Operations \/ is_terminate
  BY <1>1, <1>2, <1>3 DEF LeftTheLoop
<1>4. CASE While(w)
  <2>1. UNCHANGED <<svars, reg, claims, op>> BY <1>4 DEF While
  <2>2. pc'[w] \in {"finished", "dead"} => operation_num >= Operations \/ is_terminate
    BY <1>1, <1>4 DEF While
  <2> QED BY <1>1, <2>1, <2>2, OperationsAssumption DEF LeftTheLoop
<1>5. CASE Load(w)
  <2>1. pc'[w] = "store" BY <1>1, <1>5 DEF Load
  <2> QED BY <1>1, <1>5, <2>1 DEF Load, LeftTheLoop
<1>6. CASE Store(w)
  <2>1. pc'[w] = "connect" BY <1>1, <1>6 DEF Store
  <2> QED BY <1>1, <1>6, <2>1 DEF Store, LeftTheLoop
<1>7. CASE Attempt(w) \/ Deadlock(w) \/ Canceled(w)
  <2>1. UNCHANGED <<svars, reg, claims, op>>
    BY <1>7 DEF Attempt, Connect, ConnectFails, ChooseHost, KeepSession, Start,
                Select, Lock, Debit, Credit, Commit, Reply, Statement,
                SessionLost, ReadOnly, Fails, ExitRollback, Deadlock, Canceled
  <2>2. pc[w] \in TaskStates /\ pc'[w] # "finished"
    BY <1>1, <1>7 DEF Attempt, Connect, ConnectFails, ChooseHost, KeepSession, Start,
                Select, Lock, Debit, Credit, Commit, Reply, Statement,
                SessionLost, ReadOnly, Fails, ExitRollback, Deadlock, Canceled,
                TaskStates
  <2> QED BY <1>3, <2>1, <2>2
<1>8. CASE Handler(w)
  <2>1. UNCHANGED <<svars, reg, claims, op>> /\ pc[w] \in TaskStates
        /\ pc'[w] # "finished"
    BY <1>1, <1>8 DEF Handler, OnDeadlock, HandlerRollback, OnReadOnly, OnShutdown,
                OnTerminate, OnConnection, Handled, TaskStates
  <2> QED BY <1>3, <2>1
<1> QED BY <1>4, <1>5, <1>6, <1>7, <1>8 DEF Worker

LEMMA EndInit == Init => EndInv
<1> SUFFICES ASSUME Init PROVE EndInv
  OBVIOUS
<1> QED BY DEF Init, EndInv, CounterBehind, LeftTheLoop

LEMMA EndStep == IInv /\ OnceInv /\ EndInv /\ [Next]_vars => EndInv'
<1> SUFFICES ASSUME IInv, OnceInv, EndInv, [Next]_vars PROVE EndInv'
  OBVIOUS
<1>1. TypeInv /\ CoreInv BY DEF IInv
<1>a. claims \in Nat /\ pc \in [Workers -> WorkerStates]
  BY <1>1 DEF TypeInv, TypeOK, HistoryTypeOK, WorkerTypeOK
<1>2. ASSUME NEW w \in Workers, Worker(w) \/ Deadlock(w) \/ Canceled(w)
      PROVE  EndInv'
  <2>1. /\ UNCHANGED is_terminate /\ claims' \in Nat /\ claims' >= claims
        /\ CounterBehind'
        /\ LeftTheLoop(w)' => claims >= Operations \/ is_terminate
    BY <1>1, <1>2, WorkerCounts DEF EndInv
  <2>2. UNCHANGED mainpc BY <1>2, WorkersRun DEF mvars
  <2>3. pc[w] \notin Ended \cup {"new"} BY <1>2, EndedIsEnd
  <2>4. Effect(w) BY <1>1, <1>2, WorkerEffect DEF CoreInv, ClusterInv
  <2>5. \A v \in Workers \ {w} : pc'[v] = pc[v] /\ op'[v] = op[v]
    BY <1>1, <2>4, OthersUntouched DEF CoreInv
  <2>6. \A v \in Workers \ {w} : LeftTheLoop(v)' <=> LeftTheLoop(v)
    BY <2>5 DEF LeftTheLoop
  <2>7. \A v \in Workers : LeftTheLoop(v)' => claims' >= Operations \/ is_terminate'
    BY <1>a, <2>1, <2>6, OperationsAssumption DEF EndInv
  <2>8. mainpc \notin {"validate", "ended", "crashed"} BY <2>3 DEF EndInv
  <2> QED BY <2>1, <2>2, <2>7, <2>8 DEF EndInv
<1>3. CASE Main \/ MainQueryLost \/ Interrupt
  <2>1. UNCHANGED <<operation_num, reg, claims, op>>
    BY <1>3 DEF Main, MainRefused, InitTables, AllDead, Validate, MainQueryLost,
                Interrupt, svars, wvars, hvars
  <2>2. \/ UNCHANGED <<pc, is_terminate>> /\ mainpc' = mainpc
        \/ UNCHANGED <<pc, is_terminate>> /\ mainpc' = "crashed" /\ mainpc = "init"
        \/ /\ UNCHANGED is_terminate
           /\ mainpc = "init" /\ mainpc' = "wait" /\ pc' = [w \in Workers |-> "while"]
        \/ /\ UNCHANGED <<pc, is_terminate>> /\ mainpc = "wait" /\ mainpc' = "validate"
           /\ \A w \in Workers : pc[w] \in Ended
        \/ /\ UNCHANGED <<pc, is_terminate>>
           /\ mainpc = "validate" /\ mainpc' \in {"ended", "crashed"}
        \/ UNCHANGED pc /\ is_terminate' /\ mainpc' = "interrupted"
    BY <1>3 DEF Main, MainRefused, InitTables, AllDead, Validate, MainQueryLost,
                Interrupt, MainDone, svars, wvars
  <2>3. CounterBehind' BY <2>1 DEF EndInv, CounterBehind
  <2>4. is_terminate' => mainpc' = "interrupted" BY <2>2 DEF EndInv
  <2>5. ASSUME mainpc' \in {"validate", "ended", "crashed"}, NEW w \in Workers
        PROVE  pc'[w] \in Ended \cup {"new"}
    BY <1>1, <2>2, <2>5 DEF EndInv, CoreInv, NotYetStarted
  <2>6. ASSUME NEW w \in Workers, LeftTheLoop(w)'
        PROVE  claims' >= Operations \/ is_terminate'
    <3>1. UNCHANGED pc BY <2>2, <2>6 DEF LeftTheLoop
    <3>2. LeftTheLoop(w) BY <2>1, <2>6, <3>1 DEF LeftTheLoop
    <3>3. is_terminate => is_terminate' BY <2>2
    <3> QED BY <2>1, <3>2, <3>3 DEF EndInv
  <2> QED BY <2>3, <2>4, <2>5, <2>6 DEF EndInv
<1>4. CASE Cluster \/ UNCHANGED vars
  BY <1>4 DEF Cluster, EndInv, CounterBehind, LeftTheLoop, vars, svars, wvars,
              mvars, hvars
<1> QED BY <1>2, <1>3, <1>4 DEF Next

LEMMA EndInvariant == Spec => [](OnceInv /\ EndInv)
BY OnceInit, OnceStep, EndInit, EndStep, SafetyInvariant, PTL DEF Spec

-----------------------------------------------------------------------------
(* The test implements AtLeastOnce.                                        *)

\* What the books of AtLeastOnce are read off.
Applied == {i \in 1 .. claims : Settled(i)}
Closed ==
    /\ mainpc \in {"validate", "ended", "crashed"}
    /\ \A w \in Workers : LeftTheLoop(w)

\* The servers do not settle anything on their own: a commit counts once a
\* client has read its acknowledgement.
LEMMA ClusterSettlesNothing ==
    ASSUME ClusterTypeOK, ReplayedInLog, SyncMode, AckedInLog, ClusterNext,
           NEW i, Settled(i)'
    PROVE  Settled(i)
<1> USE DEF ClusterTypeOK, ReplayedInLog, AckedInLog
<1>1. PICK k \in 1 .. acked' : k <= Len(log') /\ log'[k][1] = i BY DEF Settled
<1>2. ASSUME acked' = acked, \A j \in 1 .. acked : log'[j] = log[j]
      PROVE  Settled(i)
  <2>1. k \in 1 .. acked /\ log[k][1] = i BY <1>1, <1>2
  <2>2. acked \in Nat /\ Len(log) \in Nat OBVIOUS
  <2>3. k <= Len(log) BY <2>1, <2>2
  <2> QED BY <2>1, <2>3 DEF Settled
<1>3. ASSUME NEW b \in Backends, ServerCommit(b) PROVE Settled(i)
  <2>1. log' = Append(log, <<sess[b].op, sess[b].delta>>) /\ acked' = acked
    BY <1>3 DEF ServerCommit
  <2>2. \A j \in 1 .. Len(log) : log'[j] = log[j] BY <2>1
  <2>3. acked \in Nat /\ Len(log) \in Nat /\ acked <= Len(log) OBVIOUS
  <2>4. \A j \in 1 .. acked : log'[j] = log[j] BY <2>2, <2>3
  <2> QED BY <1>2, <2>1, <2>4
<1>4. ASSUME NEW b \in Backends, Reap(b) \/ Cut(b) PROVE Settled(i)
  BY <1>2, <1>4 DEF Reap, Cut
<1>5. ASSUME NEW h \in Hosts,
             Replay(h) \/ Switchover(h) \/ Crash(h) \/ Restart(h)
      PROVE  Settled(i)
  BY <1>2, <1>5 DEF Replay, Switchover, Crash, Restart
<1>6. ASSUME NEW h \in Hosts, Failover(h) PROVE Settled(i)
  <2>1. acked <= replayed[h] /\ acked' = acked BY <1>6 DEF Failover
  <2>2. /\ replayed[h] \in 0 .. Len(log) /\ acked \in Nat /\ replayed[h] \in Nat
        /\ log \in Seq(Nat \X Int)
    OBVIOUS
  <2>3. log' = SubSeq(log, 1, replayed[h]) BY <1>6 DEF Failover
  <2>4. \A j \in 1 .. replayed[h] : SubSeq(log, 1, replayed[h])[j] = log[j]
    BY <2>2, PrefixOfLog
  <2>5. \A j \in 1 .. acked : j \in 1 .. replayed[h] BY <2>1, <2>2
  <2>6. \A j \in 1 .. acked : log'[j] = log[j] BY <2>3, <2>4, <2>5
  <2> QED BY <1>2, <2>1, <2>6
<1> QED BY <1>3, <1>4, <1>5, <1>6 DEF ClusterNext

\* When the books are closed, enough is claimed and all of it is applied.
ClosedInv == Closed => claims >= Operations /\ Applied = 1 .. claims

LEMMA ClosedIsComplete ==
    ASSUME SyncMode, Workers # {}, IInv, EndInv
    PROVE  ClosedInv
<1> SUFFICES ASSUME Closed PROVE claims >= Operations /\ Applied = 1 .. claims
  BY DEF ClosedInv
<1>1. ~is_terminate BY DEF EndInv, Closed
<1>2. claims >= Operations BY <1>1 DEF EndInv, Closed
<1>3. ASSUME NEW i \in 1 .. claims PROVE Settled(i)
  <2>1. \A w \in Workers : op[w] = i => pc[w] \notin AtIt
    BY DEF Closed, LeftTheLoop, AtIt, TaskStates
  <2> QED BY <2>1 DEF IInv, Kept, NothingLost
<1> QED BY <1>2, <1>3 DEF Applied

\* Each step of a worker claims, applies or changes nothing of the books.
LEMMA WorkerBooks ==
    ASSUME IInv, OnceInv, EndInv, NEW w \in Workers,
           Worker(w) \/ Deadlock(w) \/ Canceled(w)
    PROVE  /\ ~Closed /\ ~Closed'
           /\ \/ claims' = claims + 1 /\ Applied' = Applied
              \/ /\ claims' = claims
                 /\ Applied \subseteq Applied' /\ Applied' \subseteq 1 .. claims
<1>1. TypeInv /\ CoreInv /\ ClusterInv BY DEF IInv, CoreInv
<1>2. ~Closed /\ ~Closed'
  <2>1. pc[w] \notin Ended \cup {"new"} BY EndedIsEnd
  <2>2. mainpc \notin {"validate", "ended", "crashed"} BY <2>1 DEF EndInv
  <2>3. UNCHANGED mainpc BY WorkersRun DEF mvars
  <2> QED BY <2>2, <2>3 DEF Closed
<1>3. Effect(w) BY <1>1, WorkerEffect DEF CoreInv, ClusterInv
<1>4. \A i : Settled(i) => Settled(i)' BY <1>1, <1>3, EffectSettles
<1>5. CASE Store(w)
  <2>1. UNCHANGED <<log, acked>> /\ claims' = claims + 1
    BY <1>5 DEF Store, cvars
  <2>2. \A i : Settled(i)' <=> Settled(i) BY <2>1 DEF Settled
  <2>3. claims \in Nat /\ ~Settled(claims + 1)
    <3>1. claims \in Nat /\ acked \in Nat /\ acked <= Len(log) /\ Len(log) \in Nat
      BY <1>1 DEF TypeInv, TypeOK, HistoryTypeOK, ClusterTypeOK, ClusterInv,
                  AckedInLog
    <3>2. \A k \in 1 .. acked : k \in 1 .. Len(log) BY <3>1
    <3> QED BY <3>1, <3>2 DEF OnceInv, ClaimedOnly, Settled
  <2>4. \A i \in 1 .. claims + 1 : i \in 1 .. claims \/ i = claims + 1
    BY <2>3
  <2>5. \A i \in 1 .. claims : i \in 1 .. claims + 1 BY <2>3
  <2>6. Applied' = Applied BY <2>1, <2>2, <2>3, <2>4, <2>5 DEF Applied
  <2> QED BY <1>2, <2>1, <2>6
<1>6. CASE ~Store(w)
  <2>1. claims' = claims
    <3>1. CASE Reply(w) BY <3>1 DEF Reply
    <3>2. CASE ~Reply(w) BY <1>1, <1>6, <3>2, WorkerStaysAtIt
    <3> QED BY <3>1, <3>2
  <2>2. Applied \subseteq Applied' BY <1>4, <2>1 DEF Applied
  <2>3. Applied' \subseteq 1 .. claims BY <2>1 DEF Applied
  <2> QED BY <1>2, <2>1, <2>2, <2>3
<1> QED BY <1>5, <1>6

LEMMA MainBooks ==
    ASSUME SyncMode, Workers # {}, IInv, EndInv, ClosedInv',
           Main \/ MainQueryLost \/ Interrupt
    PROVE  /\ UNCHANGED claims /\ Applied' = Applied
           /\ Closed => Closed'
           /\ Closed' => claims >= Operations /\ Applied = 1 .. claims
<1>1. UNCHANGED <<claims, log, acked, op>>
  BY DEF Main, MainRefused, InitTables, AllDead, Validate, MainQueryLost,
         Interrupt, cvars, wvars, hvars
<1>2. Applied' = Applied BY <1>1 DEF Applied, Settled
<1>3. Closed => Closed'
  <2>1. /\ UNCHANGED pc \/ mainpc = "init"
        /\ mainpc = "validate" => mainpc' \in {"validate", "ended", "crashed"}
        /\ mainpc \in {"ended", "crashed"} => mainpc' = mainpc
    BY DEF Main, MainRefused, InitTables, AllDead, Validate, MainQueryLost,
           Interrupt, MainDone, wvars
  <2> QED BY <1>1, <2>1 DEF Closed, LeftTheLoop
<1>4. Closed' => claims >= Operations /\ Applied = 1 .. claims
  BY <1>1, <1>2 DEF ClosedInv
<1> QED BY <1>1, <1>2, <1>3, <1>4

LEMMA ClusterBooks ==
    ASSUME SyncMode, IInv, Cluster
    PROVE  UNCHANGED claims /\ Applied' = Applied /\ (Closed' <=> Closed)
<1>1. UNCHANGED <<claims, mainpc, pc, op>> BY DEF Cluster, hvars, mvars, wvars
<1>2. ClusterTypeOK /\ ReplayedInLog /\ ClusterInv /\ ClusterNext /\ AckedInLog
  BY DEF IInv, TypeInv, TypeOK, CoreInv, Cluster, ClusterInv
<1>3. \A i : Settled(i)' <=> Settled(i)
  BY <1>2, ClusterSettles, ClusterSettlesNothing
<1> QED BY <1>1, <1>3 DEF Applied, Closed, LeftTheLoop

\* The books of AtLeastOnce are Applied and Closed.
LEMMA BooksStep ==
    ASSUME SyncMode, Workers # {}, IInv, OnceInv, EndInv, ClosedInv', [Next]_vars
    PROVE  [Booked!ANext]_(Booked!avars)
<1>1. Booked!Claim <=>
        ~Closed /\ claims' = claims + 1 /\ Applied' = Applied /\ Closed' = Closed
  BY DEF Booked!Claim, Applied, Closed, LeftTheLoop
<1>2. Booked!Apply <=>
        /\ ~Closed /\ Applied' \in SUBSET (1 .. claims) /\ Applied \subseteq Applied'
        /\ claims' = claims /\ Closed' = Closed
  BY DEF Booked!Apply, Applied, Closed, LeftTheLoop
<1>3. Booked!Close <=>
        /\ claims >= Operations /\ Applied = 1 .. claims /\ Closed' = TRUE
        /\ claims' = claims /\ Applied' = Applied
  BY DEF Booked!Close, Applied, Closed, LeftTheLoop
<1>4. UNCHANGED Booked!avars <=>
        claims' = claims /\ Applied' = Applied /\ Closed' = Closed
  BY DEF Booked!avars, Applied, Closed, LeftTheLoop
<1>5. Closed \in BOOLEAN /\ Closed' \in BOOLEAN BY DEF Closed
<1> USE DEF Booked!ANext
<1>6. ASSUME NEW w \in Workers, Worker(w) \/ Deadlock(w) \/ Canceled(w)
      PROVE  Booked!Claim \/ Booked!Apply
  BY <1>1, <1>2, <1>5, <1>6, WorkerBooks
<1>7. CASE Main \/ MainQueryLost \/ Interrupt
  BY <1>3, <1>4, <1>5, <1>7, MainBooks
<1>8. CASE Cluster BY <1>4, <1>5, <1>8, ClusterBooks
<1>9. CASE UNCHANGED vars
  <2>1. UNCHANGED <<claims, log, acked, pc, op, mainpc>>
    BY <1>9 DEF vars, cvars, wvars, mvars, hvars
  <2> QED BY <1>4, <2>1 DEF Applied, Settled, Closed, LeftTheLoop
<1> QED BY <1>6, <1>7, <1>8, <1>9 DEF Next

\* With synchronous_mode the whole test is an implementation of AtLeastOnce:
\* claimed operations are applied for good at some point and never taken back,
\* and the main thread gets to compare the sums, with no thread dead inside an
\* operation, only when enough operations were claimed and none is missing.
THEOREM BooksTheorem ==
    ASSUME SyncMode, Workers # {}
    PROVE  Spec => BooksBalance
<1>1. Init => Booked!AInit
  BY DEF Init, Booked!AInit
<1>2. IInv /\ EndInv => ClosedInv BY ClosedIsComplete
<1>3. IInv /\ OnceInv /\ EndInv /\ ClosedInv' /\ [Next]_vars
        => [Booked!ANext]_(Booked!avars)
  BY BooksStep
<1> QED
  BY <1>1, <1>2, <1>3, SafetyInvariant, EndInvariant, PTL
     DEF Spec, BooksBalance, Booked!ASpec
=============================================================================
