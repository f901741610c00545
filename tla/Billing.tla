------------------------------ MODULE Billing ------------------------------
(***************************************************************************)
(* tools/pg_cluster_backend/pg_cluster_backend.py: the billing test that   *)
(* is run against the cluster while servers are switched over and killed.  *)
(* Worker threads share CLUSTERTEST.operation_num and CLUSTERTEST          *)
(* .is_terminate, each takes operations off the counter and books every    *)
(* one as a transfer that raises the sum of the balances by 1.  The main   *)
(* thread creates the accounts, starts the workers, waits for them and     *)
(* compares the sum with what the operations should have made it.          *)
(*                                                                         *)
(* operation_num, is_terminate, db_local and reconnect_attempt carry the   *)
(* names of the code.  db_hosts, a deque that is only ever rotated, is the *)
(* position at[w] in DbHosts of the element in front.  The value of a      *)
(* running exception is exc[w].  claims, op, confirmed and doubted are     *)
(* history: a claim is one execution of "operation_num += 1", op[w] the    *)
(* claim a worker is at, confirmed the claims whose COMMIT was answered,   *)
(* doubted those that lost a connection while waiting for the answer.      *)
(***************************************************************************)
EXTENDS PgCluster

CONSTANTS
    Workers,           \* worker threads (threads_num)
    DbHosts,           \* section [databases], in the order of the file
    Operations,        \* --operations
    ReconnectAttempt,  \* reconnect_attempt
    Amount,            \* what one transfer moves
    NoSession          \* db_local is None

ASSUME DbHostsAssumption == DbHosts \in Seq(Hosts) /\ Len(DbHosts) > 0
ASSUME OperationsAssumption == Operations \in Nat
ASSUME ReconnectAssumption == ReconnectAttempt \in Nat
ASSUME AmountAssumption == Amount \in Nat

NoRow == 0
ASSUME NoSessionAssumption == NoSession \notin Backends
ASSUME NoRowAssumption == NoRow \notin Rows

VARIABLES
    operation_num, is_terminate,
    pc, reg, db_local, reconnect_attempt, at, want, exc,
    mainpc, mainAt, mainAttempt, verdict,
    claims, op, confirmed, doubted

svars == <<operation_num, is_terminate>>
wvars == <<pc, reg, db_local, reconnect_attempt, at, want, exc>>
mvars == <<mainpc, mainAt, mainAttempt, verdict>>
hvars == <<claims, op, confirmed, doubted>>
vars == <<cvars, svars, wvars, mvars, hvars>>

\* What the steps of an attempt leave alone.
servers == <<primary, up, replayed, log, acked, faults>>
conn == <<db_local, reconnect_attempt, at>>

NHosts == Len(DbHosts)
Rotate(i) == IF i = NHosts THEN 1 ELSE i + 1

\* Where a worker is.  The first group is outside the task of an operation,
\* the second inside, the third are the ways a thread ends.
TaskStates == {"connect", "begin", "select", "lock", "debit", "credit",
               "commit", "reply", "abort", "except", "rollback"}
Ended == {"finished", "returned", "dead"}
WorkerStates == {"new", "while", "load", "store"} \cup TaskStates \cup Ended

Exceptions == {"none", "deadlock", "readonly", "canceled", "shutdown", "connection"}

Init ==
    /\ ClusterInit
    /\ operation_num = 0
    /\ is_terminate = FALSE
    /\ pc = [w \in Workers |-> "new"]
    /\ reg = [w \in Workers |-> 0]
    /\ db_local = [w \in Workers |-> NoSession]
    /\ reconnect_attempt = [w \in Workers |-> 0]
    /\ at = [w \in Workers |-> 1]
    /\ want = [w \in Workers |-> NoRow]
    /\ exc = [w \in Workers |-> "none"]
    /\ mainpc = "init"
    /\ mainAt = 1
    /\ mainAttempt = 0
    /\ verdict = "none"
    /\ claims = 0
    /\ op = [w \in Workers |-> 0]
    /\ confirmed = {}
    /\ doubted = {}

-----------------------------------------------------------------------------
(* The loop over operations.                                               *)

Goto(w, l) == pc' = [pc EXCEPT ![w] = l]

\* while operation_num < operations: if is_terminate: break.  Behind the loop
\* db_local.close() raises if the worker never got to connect.
While(w) ==
    /\ pc[w] = "while"
    /\ \/ /\ operation_num < Operations
          /\ ~is_terminate
          /\ Goto(w, "load")
          /\ UNCHANGED <<sess, db_local>>
       \/ /\ operation_num >= Operations \/ is_terminate
          /\ IF db_local[w] = NoSession
             THEN Goto(w, "dead") /\ UNCHANGED <<sess, db_local>>
             ELSE /\ Goto(w, "finished")
                  /\ Disconnect(db_local[w])
                  /\ db_local' = [db_local EXCEPT ![w] = NoSession]
    /\ UNCHANGED <<servers, svars, reg, reconnect_attempt, at, want, exc, mvars, hvars>>

\* operation_num += 1 reads the attribute ...
Load(w) ==
    /\ pc[w] = "load"
    /\ reg' = [reg EXCEPT ![w] = operation_num]
    /\ Goto(w, "store")
    /\ UNCHANGED <<cvars, svars, conn, want, exc, mvars, hvars>>

\* ... and writes it back: nothing keeps another thread out in between.
Store(w) ==
    /\ pc[w] = "store"
    /\ operation_num' = reg[w] + 1
    /\ claims' = claims + 1
    /\ op' = [op EXCEPT ![w] = claims + 1]
    /\ Goto(w, "connect")
    /\ UNCHANGED <<cvars, is_terminate, reg, conn, want, exc, mvars, confirmed, doubted>>

-----------------------------------------------------------------------------
(* One attempt at the task of an operation.                                *)

Raise(w, e) == exc' = [exc EXCEPT ![w] = e]

\* The exception a statement raises on a session whose server or socket went
\* away.  The connection counts as closed from then on.
LossOf(b) == IF sess[b].st = "fatal" THEN "shutdown" ELSE "connection"

\* What is left of db_local when the worker lets go of it, by db_local = None or
\* with the end of the thread: a live connection stays open, db_conns still
\* refers to it.
DropSession(w) ==
    /\ db_local' = [db_local EXCEPT ![w] = NoSession]
    /\ IF db_local[w] = NoSession THEN UNCHANGED sess ELSE Forget(db_local[w])

\* Hosts are changed once the attempts at one are used up.
ConnectingTo(w) ==
    IF reconnect_attempt[w] >= ReconnectAttempt THEN Rotate(at[w]) ELSE at[w]

Target(w) == DbHosts[ConnectingTo(w)]

ChooseHost(w) ==
    /\ pc[w] = "connect"
    /\ db_local[w] = NoSession
    /\ at' = [at EXCEPT ![w] = ConnectingTo(w)]
    /\ reconnect_attempt' =
         [reconnect_attempt EXCEPT ![w] = IF @ >= ReconnectAttempt THEN 0 ELSE @]
    /\ UNCHANGED <<servers, svars, reg, want, mvars, hvars>>

Connect(w) ==
    /\ ChooseHost(w)
    /\ \E p \in Pids :
         /\ Accept(<<Target(w), p>>)
         /\ db_local' = [db_local EXCEPT ![w] = <<Target(w), p>>]
    /\ Goto(w, "begin")
    /\ UNCHANGED exc

ConnectFails(w) ==
    /\ ChooseHost(w)
    /\ Target(w) \in up => \A p \in Pids : sess[<<Target(w), p>>].st # "free"
    /\ Raise(w, "connection")
    /\ Goto(w, "except")
    /\ UNCHANGED <<sess, db_local>>

\* db_local is not None: the session of the last attempt is used again.
KeepSession(w) ==
    /\ pc[w] = "connect"
    /\ db_local[w] # NoSession
    /\ Goto(w, "begin")
    /\ UNCHANGED <<cvars, svars, reg, conn, want, exc, mvars, hvars>>

\* with db_local.xact(): START TRANSACTION.  On a session that is still in a
\* block the driver would make a savepoint, which a failed block refuses with
\* an exception no handler of the worker names.
Start(w) ==
    /\ pc[w] = "begin"
    /\ Healthy(db_local[w])
    /\ IF sess[db_local[w]].st = "idle"
       THEN Begin(db_local[w]) /\ Goto(w, "select") /\ UNCHANGED db_local
       ELSE DropSession(w) /\ Goto(w, "dead")
    /\ UNCHANGED <<servers, svars, reg, reconnect_attempt, at, want, exc, mvars, hvars>>

\* A statement of the task that the server carries out.
Statement(w, here) ==
    /\ pc[w] = here
    /\ Healthy(db_local[w])
    /\ UNCHANGED <<svars, reg, conn, exc, mvars>>

\* SELECT ... ORDER BY random() LIMIT 2 FOR UPDATE: the first row to lock.
Select(w) ==
    /\ Statement(w, "select")
    /\ Writable(db_local[w][1])
    /\ \E r \in Rows : want' = [want EXCEPT ![w] = r]
    /\ Goto(w, "lock")
    /\ UNCHANGED <<cvars, hvars>>

\* A row is locked when no other transaction holds it; after the first the
\* statement goes on to another one.
Lock(w) ==
    /\ Statement(w, "lock")
    /\ LockRow(db_local[w], want[w])
    /\ IF sess[db_local[w]].rows = {}
       THEN /\ \E r \in Rows \ {want[w]} : want' = [want EXCEPT ![w] = r]
            /\ UNCHANGED pc
       ELSE /\ want' = [want EXCEPT ![w] = NoRow]
            /\ Goto(w, "debit")
    /\ UNCHANGED <<servers, hvars>>

Debit(w) ==
    /\ Statement(w, "debit")
    /\ Change(db_local[w], -Amount)
    /\ Goto(w, "credit")
    /\ UNCHANGED <<servers, want, hvars>>

\* Mutant: the fee of 1 is left out.
Credit_no_fee(w) ==
    /\ Statement(w, "credit")
    /\ Change(db_local[w], Amount)
    /\ Goto(w, "commit")
    /\ UNCHANGED <<servers, want, hvars>>

Credit(w) ==
    /\ Statement(w, "credit")
    /\ Change(db_local[w], Amount + 1)
    /\ Goto(w, "commit")
    /\ UNCHANGED <<servers, want, hvars>>

\* The with block is left without an exception: COMMIT.
Commit(w) ==
    /\ Statement(w, "commit")
    /\ SendCommit(db_local[w], op[w])
    /\ Goto(w, "reply")
    /\ UNCHANGED <<servers, want, hvars>>

\* Mutant: do_work stays True after a task that succeeded.
Reply_again(w) ==
    /\ Statement(w, "reply")
    /\ Acknowledge(db_local[w])
    /\ confirmed' = confirmed \cup {op[w]}
    /\ Goto(w, "connect")
    /\ UNCHANGED <<primary, up, replayed, log, faults, want, claims, op, doubted>>

\* execute_task returned True: the next operation.
Reply(w) ==
    /\ Statement(w, "reply")
    /\ Acknowledge(db_local[w])
    /\ confirmed' = confirmed \cup {op[w]}
    /\ Goto(w, "while")
    /\ UNCHANGED <<primary, up, replayed, log, faults, want, claims, op, doubted>>

-----------------------------------------------------------------------------
(* What can go wrong in an attempt.                                        *)

\* Mutant: a connection lost under COMMIT counts as a commit.
SessionLost_ignored(w) ==
    /\ pc[w] = "reply"
    /\ ~Healthy(db_local[w])
    /\ doubted' = doubted \cup {op[w]}
    /\ confirmed' = confirmed \cup {op[w]}
    /\ Goto(w, "while")
    /\ UNCHANGED <<cvars, svars, reg, conn, want, exc, mvars, claims, op>>

\* The session is gone: fatal is True, so Transaction.__exit__ sees a closed
\* connection and does not roll back.
SessionLost(w) ==
    /\ pc[w] \in {"begin", "select", "lock", "debit", "credit", "commit", "reply"}
    /\ ~Healthy(db_local[w])
    /\ Raise(w, LossOf(db_local[w]))
    /\ want' = [want EXCEPT ![w] = NoRow]
    /\ doubted' = IF pc[w] = "reply" THEN doubted \cup {op[w]} ELSE doubted
    /\ Goto(w, "except")
    /\ UNCHANGED <<cvars, svars, reg, conn, mvars, claims, op, confirmed>>

\* An ERROR from the server: the session lives, its transaction is aborted.
Fails(w, e) ==
    /\ Healthy(db_local[w])
    /\ Abort(db_local[w])
    /\ Raise(w, e)
    /\ want' = [want EXCEPT ![w] = NoRow]
    /\ Goto(w, "abort")
    /\ UNCHANGED <<servers, svars, reg, conn, mvars, hvars>>

\* SELECT ... FOR UPDATE on a server that is not the primary.
ReadOnly(w) ==
    /\ pc[w] = "select"
    /\ ~Writable(db_local[w][1])
    /\ Fails(w, "readonly")

\* The server picks a victim among sessions that wait for each other's rows.
Blocks(u, v) == want[v] \in sess[db_local[u]].rows

Deadlock(w) ==
    /\ pc[w] = "lock"
    /\ \E group \in SUBSET Workers :
         /\ w \in group
         /\ \A v \in group : pc[v] = "lock"
         /\ \A v \in group : \E u \in group : Blocks(u, v)
    /\ Fails(w, "deadlock")

\* The cancel request of the main thread finds a statement running.
Canceled(w) ==
    /\ is_terminate
    /\ pc[w] \in {"select", "lock", "debit", "credit"}
    /\ Fails(w, "canceled")

\* Mutant: Transaction.__exit__ leaves the aborted block open.
ExitRollback_skipped(w) ==
    /\ pc[w] = "abort"
    /\ Goto(w, "except")
    /\ UNCHANGED <<cvars, svars, reg, conn, want, exc, mvars, hvars>>

\* Transaction.__exit__ with an exception: ABORT, unless that fails in turn,
\* and then the new exception replaces the first.
ExitRollback(w) ==
    /\ pc[w] = "abort"
    /\ IF Healthy(db_local[w])
       THEN EndBlock(db_local[w]) /\ UNCHANGED exc
       ELSE UNCHANGED sess /\ Raise(w, LossOf(db_local[w]))
    /\ Goto(w, "except")
    /\ UNCHANGED <<servers, svars, reg, conn, want, mvars, hvars>>

-----------------------------------------------------------------------------
(* The except clauses of worker_func.                                      *)

Handled(w, e, l) ==
    /\ pc[w] = "except"
    /\ exc[w] \in e
    /\ Raise(w, "none")
    /\ Goto(w, l)
    /\ UNCHANGED <<servers, svars, reg, want, mvars, hvars>>

OnDeadlock(w) ==
    /\ Handled(w, {"deadlock"}, "rollback")
    /\ UNCHANGED <<sess, conn>>

\* Mutant: ROLLBACK is repeated until it raises NoActiveTransactionError, but
\* outside a block the server only warns.
HandlerRollback_repeats(w) ==
    /\ pc[w] = "rollback"
    /\ IF Healthy(db_local[w])
       THEN EndBlock(db_local[w]) /\ UNCHANGED <<pc, db_local>>
       ELSE Goto(w, "dead") /\ DropSession(w)
    /\ UNCHANGED <<servers, svars, reg, reconnect_attempt, at, want, exc, mvars, hvars>>

\* db_local.execute("ROLLBACK") inside the except clause: outside a block it
\* only warns, but what it raises on a lost session leaves the thread.
HandlerRollback(w) ==
    /\ pc[w] = "rollback"
    /\ IF Healthy(db_local[w])
       THEN EndBlock(db_local[w]) /\ Goto(w, "connect") /\ UNCHANGED db_local
       ELSE Goto(w, "dead") /\ DropSession(w)
    /\ UNCHANGED <<servers, svars, reg, reconnect_attempt, at, want, exc, mvars, hvars>>

\* Mutant: popleft without append, the position runs out of the list.
OnReadOnly_no_append(w) ==
    /\ Handled(w, {"readonly"}, "connect")
    /\ DropSession(w)
    /\ at' = [at EXCEPT ![w] = @ + 1]
    /\ UNCHANGED reconnect_attempt

OnReadOnly(w) ==
    /\ Handled(w, {"readonly"}, "connect")
    /\ DropSession(w)
    /\ at' = [at EXCEPT ![w] = Rotate(at[w])]
    /\ UNCHANGED reconnect_attempt

OnShutdown(w) ==
    /\ ~is_terminate
    /\ Handled(w, {"canceled", "shutdown"}, "connect")
    /\ DropSession(w)
    /\ UNCHANGED <<reconnect_attempt, at>>

\* Mutant: continue in place of return.
OnTerminate_continue(w) ==
    /\ is_terminate
    /\ Handled(w, {"canceled", "shutdown"}, "connect")
    /\ UNCHANGED <<sess, conn>>

\* if CLUSTERTEST.is_terminate: return
OnTerminate(w) ==
    /\ is_terminate
    /\ Handled(w, {"canceled", "shutdown"}, "returned")
    /\ DropSession(w)
    /\ UNCHANGED <<reconnect_attempt, at>>

\* Mutant: the handler goes on to the next operation.
OnConnection_gives_up(w) ==
    /\ Handled(w, {"connection"}, "while")
    /\ DropSession(w)
    /\ reconnect_attempt' = [reconnect_attempt EXCEPT ![w] = @ + 1]
    /\ UNCHANGED at

\* Mutant: db_local = None is forgotten.
OnConnection_keeps(w) ==
    /\ Handled(w, {"connection"}, "connect")
    /\ UNCHANGED <<sess, conn>>

OnConnection(w) ==
    /\ Handled(w, {"connection"}, "connect")
    /\ DropSession(w)
    /\ reconnect_attempt' = [reconnect_attempt EXCEPT ![w] = @ + 1]
    /\ UNCHANGED at

Attempt(w) ==
    \/ Connect(w) \/ ConnectFails(w) \/ KeepSession(w) \/ Start(w)
    \/ Select(w) \/ Lock(w) \/ Debit(w) \/ Credit(w)
    \/ Commit(w) \/ Reply(w) \/ SessionLost(w) \/ ReadOnly(w)
    \/ ExitRollback(w)

Handler(w) ==
    \/ OnDeadlock(w) \/ HandlerRollback(w) \/ OnReadOnly(w) \/ OnShutdown(w)
    \/ OnTerminate(w) \/ OnConnection(w)

Worker(w) == While(w) \/ Load(w) \/ Store(w) \/ Attempt(w) \/ Handler(w)

-----------------------------------------------------------------------------
(* The main thread.                                                        *)

\* cluster_specific_execute(func): every round connects like a worker does.
MainHost == IF mainAttempt >= ReconnectAttempt THEN Rotate(mainAt) ELSE mainAt
MainTries == IF mainAttempt >= ReconnectAttempt THEN 0 ELSE mainAttempt
MainAccepted ==
    /\ DbHosts[MainHost] \in up
    /\ \E p \in Pids : sess[<<DbHosts[MainHost], p>>].st = "free"

MainDone(l) == mainpc' = l /\ mainAt' = 1 /\ mainAttempt' = 0

MainRefused ==
    /\ mainpc \in {"init", "validate"}
    /\ ~MainAccepted
    /\ mainAt' = MainHost
    /\ mainAttempt' = MainTries + 1
    /\ UNCHANGED <<cvars, svars, wvars, mainpc, verdict, hvars>>

\* A server goes away under the query: the shutdown errors are retried, a lost
\* connection is not among the exceptions handled here.
MainQueryLost ==
    /\ mainpc \in {"init", "validate"}
    /\ MainAccepted
    /\ Fault
    /\ \/ MainDone("crashed")
       \/ mainAt' = MainHost /\ mainAttempt' = MainTries /\ UNCHANGED mainpc
    /\ UNCHANGED <<primary, up, replayed, log, acked, sess, svars, wvars,
                   verdict, hvars>>

\* init_test_tbls_and_data, then the threads are started.  A read-only server
\* raises an exception that is not handled either.
InitTables ==
    /\ mainpc = "init"
    /\ MainAccepted
    /\ IF Writable(DbHosts[MainHost])
       THEN MainDone("wait") /\ pc' = [w \in Workers |-> "while"]
       ELSE MainDone("crashed") /\ UNCHANGED pc
    /\ UNCHANGED <<cvars, svars, reg, conn, want, exc, verdict, hvars>>

\* alive_count == 0: break
AllDead ==
    /\ mainpc = "wait"
    /\ \A w \in Workers : pc[w] \in Ended
    /\ MainDone("validate")
    /\ UNCHANGED <<cvars, svars, wvars, verdict, hvars>>

\* Mutant: validate_test lets a sum that is short pass.
Validate_short ==
    /\ mainpc = "validate"
    /\ MainAccepted
    /\ MainDone("ended")
    /\ verdict' = IF Visible(DbHosts[MainHost]) <= Operations
                  THEN "success" ELSE "failed"
    /\ UNCHANGED <<cvars, svars, wvars, hvars>>

\* validate_test compares sum(balance) with accounts * 100 + operations.
Validate ==
    /\ mainpc = "validate"
    /\ MainAccepted
    /\ MainDone("ended")
    /\ verdict' = IF Visible(DbHosts[MainHost]) = Operations
                  THEN "success" ELSE "failed"
    /\ UNCHANGED <<cvars, svars, wvars, hvars>>

\* SIGINT or SIGTERM while the workers run; the statements it cancels are the
\* action Canceled.
Interrupt ==
    /\ mainpc = "wait"
    /\ is_terminate' = TRUE
    /\ MainDone("interrupted")
    /\ UNCHANGED <<cvars, operation_num, wvars, verdict, hvars>>

Main == MainRefused \/ InitTables \/ AllDead \/ Validate

Stopped ==
    /\ mainpc \in {"crashed", "ended", "interrupted"}
    /\ \A w \in Workers : pc[w] \in Ended \cup {"new"}

Cluster ==
    /\ ClusterNext
    /\ UNCHANGED <<svars, wvars, mvars, hvars>>

Next ==
    \/ \E w \in Workers : Worker(w) \/ Deadlock(w) \/ Canceled(w)
    \/ Main \/ MainQueryLost \/ Interrupt
    \/ Cluster
    \/ Stopped /\ UNCHANGED vars

Spec == Init /\ [][Next]_vars

\* Threads are scheduled, and the servers do what they are for: they answer a
\* COMMIT, resolve deadlocks, notice dead clients, replay and come back.  Row
\* locks are queued: a session that already waits for its second row gets it
\* before one that asks for it again after losing a deadlock.
Fairness ==
    /\ \A w \in Workers :
         /\ WF_vars(Worker(w))
         /\ WF_vars(Deadlock(w))
         /\ SF_vars(Lock(w) /\ pc'[w] = "debit")
    /\ WF_vars(Main)
    /\ \A b \in Backends :
         /\ WF_vars(ServerCommit(b) /\ UNCHANGED <<svars, wvars, mvars, hvars>>)
         /\ WF_vars(Reap(b) /\ UNCHANGED <<svars, wvars, mvars, hvars>>)
    /\ \A h \in Hosts :
         /\ WF_vars(Replay(h) /\ UNCHANGED <<svars, wvars, mvars, hvars>>)
         /\ WF_vars(Restart(h) /\ UNCHANGED <<svars, wvars, mvars, hvars>>)

FairSpec == Spec /\ Fairness

-----------------------------------------------------------------------------
WorkerTypeOK ==
    /\ pc \in [Workers -> WorkerStates]
    /\ reg \in [Workers -> Nat]
    /\ db_local \in [Workers -> Backends \cup {NoSession}]
    /\ reconnect_attempt \in [Workers -> Nat]
    /\ at \in [Workers -> 1 .. NHosts]
    /\ want \in [Workers -> Rows \cup {NoRow}]
    /\ exc \in [Workers -> Exceptions]

MainTypeOK ==
    /\ operation_num \in Nat
    /\ is_terminate \in BOOLEAN
    /\ mainpc \in {"init", "crashed", "wait", "validate", "ended", "interrupted"}
    /\ mainAt \in 1 .. NHosts
    /\ mainAttempt \in Nat
    /\ verdict \in {"none", "success", "failed"}

HistoryTypeOK ==
    /\ claims \in Nat
    /\ op \in [Workers -> Nat]
    /\ confirmed \subseteq Nat
    /\ doubted \subseteq Nat

TypeOK == ClusterTypeOK /\ WorkerTypeOK /\ MainTypeOK /\ HistoryTypeOK

-----------------------------------------------------------------------------
(* Properties.                                                             *)

\* An operation is applied for good: an acknowledged position holds it.
Settled(i) == \E k \in 1 .. acked : k <= Len(log) /\ log[k][1] = i

\* A worker that goes on to the next operation (do_work = False) leaves the
\* last one in the history every later primary keeps, through switchovers,
\* crashes and failovers; without synchronous_mode that is not promised.
ConfirmedIsDurable == SyncMode => \A i \in confirmed : Settled(i)

\* An operation is lost only with its thread: every claim is applied, or a
\* worker is still at it, or the worker was told to stop or has died of an
\* exception its handlers do not name.
NoOperationLost ==
    SyncMode =>
      \A i \in 1 .. claims :
        \/ Settled(i)
        \/ \E w \in Workers :
             op[w] = i /\ pc[w] \in TaskStates \cup {"returned", "dead"}

\* The retry loop books an operation twice only when the connection was lost
\* while the answer to its COMMIT was outstanding.
RepeatsOnlyDoubted ==
    \A j, k \in 1 .. Len(log) :
      j < k /\ log[j][1] = log[k][1] => log[j][1] \in doubted

\* No error path commits half a transfer: each entry raises the sum by 1.
WholeTransfers == \A k \in 1 .. Len(log) : log[k][2] = 1

\* Whatever exception ends an attempt, no session that is still connected
\* keeps a transaction (and its row locks) once no worker is inside a task
\* on it: not the ones abandoned on a read-only server, nor those of threads
\* that ended.
NoTransactionLeftBehind ==
    \A b \in Backends :
      Connected(b) /\ sess[b].st # "idle" =>
        \E w \in Workers : db_local[w] = b /\ pc[w] \in TaskStates

\* The verdict "Test successful!" is not given while the sum is short: with
\* asynchronous replication a failover may lose transfers, and the test says so.
VerdictEarned ==
    [][verdict' = "success" => Len(log) >= Operations]_verdict

\* "Test successful!" means that no transaction was lost.
SuccessMeansNoneLost ==
    [][verdict' = "success" =>
         \A i \in confirmed : \E k \in 1 .. Len(log) : log[k][1] = i]_verdict

\* Connections the handlers let go of without closing them, and those of
\* threads that returned, hold every slot of the primary.
Starved ==
    \A p \in Pids :
      LET b == <<primary, p>> IN Connected(b) /\ sess[b].link = "left"

\* Deadlocks, switchovers, crashes and lost connections do not keep the test
\* from its end: the retry loop gets through once they stop, unless its own
\* abandoned connections have used up the slots of the primary.
TestEnds == <>(Stopped \/ Starved)

\* After SIGTERM every worker ends, whatever it was doing, with the same
\* exception: the loops that connect do not look at is_terminate.
InterruptHonoured ==
    is_terminate ~> (\A w \in Workers : pc[w] \in Ended) \/ Starved

\* The message "Stopping..." of the main thread: the test does stop.
StoppingStops == is_terminate ~> \A w \in Workers : pc[w] \in Ended

\* The whole test as an implementation of AtLeastOnce, as long as no thread
\* has died and synchronous_mode is on.
Booked == INSTANCE AtLeastOnce WITH
    claimed <- claims,
    applied <- {i \in 1 .. claims : Settled(i)},
    closed <- /\ mainpc \in {"validate", "ended", "crashed"}
              /\ \A w \in Workers :
                   pc[w] = "finished" \/ (pc[w] = "dead" /\ op[w] = 0)

BooksBalance == Booked!ASpec

\* validate_test reports "Test failed! Lost transactions" only when the sum
\* is short of what the operations should have made it.
FailedMeansLost == verdict = "failed" => Len(log) < Operations

=============================================================================
