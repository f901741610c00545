------------------------------ MODULE Shutdown ------------------------------
(***************************************************************************)
(* How the billing test ends: the loop of the main thread under a          *)
(* SignalHandler (psc/pgstatcommon), the dictionary CLUSTERTEST.db_conns   *)
(* that workers fill and the main thread iterates, and the logger thread   *)
(* (psc/pgstatlogger), which writes what the others queue.  The servers    *)
(* are seen from outside: a connection is <<host, pid>>, a statement ends, *)
(* fails or is cancelled.                                                  *)
(*                                                                         *)
(* Python runs a signal handler in the main thread, between two of its     *)
(* steps; the default disposition of SIGINT raises KeyboardInterrupt       *)
(* there, that of SIGTERM kills the process.  A dictionary remembers the   *)
(* order of insertion: db_conns is the sequence of its items.  Of the      *)
(* messages only the thread that logged them matters: log_queue is the set *)
(* of the threads with a message in the queue, copied of those whose       *)
(* messages the running flush handed to the log file.                      *)
(*                                                                         *)
(* told, early, owed and lost are history: the connections that            *)
(* the main thread tried to interrupt, those in db_conns when   *)
(* is_terminate was set, threads with a message that was queued when       *)
(* stop() was called and is not yet written, threads with a message that   *)
(* was deleted from the queue without being written.                       *)
(***************************************************************************)
EXTENDS Integers, Sequences, FiniteSets

CONSTANTS
    Workers,      \* worker threads
    Hosts, Pids,  \* servers and the process numbers each may give a backend
    Operations,   \* --operations
    MaxFaults,    \* bound: failures of statements and connections
    MaxSignals,   \* bound: SIGTERMs and SIGINTs
    NoConn        \* db_local is None

Conns == Hosts \X Pids
Threads == Workers \cup {"main", "logger"}

ASSUME ThreadsAssumption == {"main", "logger", "free"} \cap Workers = {}
ASSUME NoConnAssumption == NoConn \notin Conns
ASSUME OperationsAssumption == Operations \in Nat
ASSUME BoundsAssumption == MaxFaults \in Nat /\ MaxSignals \in Nat
\* Bound: every attempt to connect finds a process number to use.
ASSUME EnoughAssumption == Cardinality(Conns) >= Cardinality(Workers) + MaxFaults

VARIABLES
    pc, db_local, cancelled,                 \* the workers
    operation_num, is_terminate, db_conns,   \* CLUSTERTEST
    main, disposition, interrupted,          \* the main thread, SignalHandler
    size, visited, asked,                    \* the iteration over db_conns
    logger, do_stop, closing,                \* the logger thread
    lock_logger, log_queue, copied,
    killed, faults, signals,
    told, early, owed, lost

wvars == <<pc, db_local, cancelled, faults>>
gvars == <<operation_num, is_terminate, db_conns>>
mvars == <<main, disposition, interrupted, signals, killed>>
ivars == <<size, visited, asked, told, early>>
lvars == <<logger, do_stop, closing, copied, owed, lost>>
qvars == <<lock_logger, log_queue>>
vars == <<wvars, gvars, mvars, ivars, lvars, qvars>>

\* A statement of a worker is executing on its server.
Running == {"task", "last"}
WorkerStates == Running \cup {"new", "started", "loop", "check", "open", "register",
                              "pause", "deadlock", "canceled", "failed", "close", "finished", "ended"}
MainStates == {"init", "start", "enter", "count", "sleep", "live", "check", "exit",
               "leave", "terminate", "received", "items", "each", "interrupting", "stopping",
               "validate", "stop", "exited", "died"}
LoggerStates == {"loop", "acquire", "clear", "ended"}

Init ==
    /\ pc = [w \in Workers |-> "new"]
    /\ db_local = [w \in Workers |-> NoConn]
    /\ cancelled = [w \in Workers |-> FALSE]
    /\ operation_num = 0 /\ is_terminate = FALSE /\ db_conns = <<>>
    /\ main = "init" /\ disposition = "default" /\ interrupted = FALSE
    /\ size = 0 /\ visited = 0 /\ asked = {}
    /\ logger = "loop" /\ do_stop = FALSE /\ closing = FALSE
    /\ lock_logger = "free" /\ log_queue = {} /\ copied = {}
    /\ killed = FALSE /\ faults = 0 /\ signals = 0
    /\ told = {} /\ early = {} /\ owed = {} /\ lost = {}

-----------------------------------------------------------------------------
(* PSCLogger.log: the lock is taken, the message appended, the lock given  *)
(* back.  A worker cannot be interrupted in between and does it in a step; *)
(* the main thread can, by KeyboardInterrupt.                              *)
Acquire(t) == lock_logger = "free" /\ lock_logger' = t /\ UNCHANGED log_queue
Enqueue(t) == lock_logger = t /\ lock_logger' = "free" /\ log_queue' = log_queue \cup {t}
Log(w) ==
    /\ lock_logger = "free" /\ log_queue' = log_queue \cup {w}
    /\ UNCHANGED lock_logger

(* Workers.                                                                *)
Goes(w, from, to) ==
    /\ pc[w] = from
    /\ pc' = [pc EXCEPT ![w] = to]

\* Thread w is at from, logs a message there and goes on to to.
WorkerLogs(w, from, to) ==
    /\ Goes(w, from, to)
    /\ Log(w)
    /\ UNCHANGED <<db_local, cancelled, faults, gvars, mvars, ivars, lvars>>

While(w) ==
    /\ Goes(w, "loop", IF operation_num < Operations THEN "check" ELSE "close")
    /\ UNCHANGED <<db_local, cancelled, faults, gvars, mvars, ivars, lvars, qvars>>

\* Breaks out of the loop, or takes an operation and works on it.
Check(w) ==
    /\ Goes(w, "check", IF is_terminate THEN "close"
                        ELSE IF db_local[w] = NoConn THEN "open" ELSE "task")
    /\ operation_num' = IF is_terminate THEN operation_num ELSE operation_num + 1
    /\ UNCHANGED <<db_local, cancelled, faults, is_terminate, db_conns,
                   mvars, ivars, lvars, qvars>>

\* Connections that are open or the main thread may still mean: their numbers
\* are not given again so soon.
InUse == {db_local[v] : v \in Workers} \cup {db_conns[i] : i \in DOMAIN db_conns}
         \cup told \cup early

\* postgresql.open, SET application_name and pg_backend_pid().
Open(w) ==
    /\ pc[w] = "register" /\ db_local[w] = NoConn
    /\ \E c \in Conns \ InUse : db_local' = [db_local EXCEPT ![w] = c]
    /\ UNCHANGED <<pc, cancelled, faults, gvars, mvars, ivars, lvars, qvars>>

\* CLUSTERTEST.db_conns[current_pid] = db_local: an item with this key keeps
\* its place and loses its old value.
Register(w) ==
    /\ db_local[w] # NoConn
    /\ Goes(w, "register", "task")
    /\ LET same == {i \in DOMAIN db_conns : db_conns[i][2] = db_local[w][2]}
       IN  db_conns' = IF same = {} THEN Append(db_conns, db_local[w])
                       ELSE [i \in DOMAIN db_conns |->
                               IF i \in same THEN db_local[w] ELSE db_conns[i]]
    /\ UNCHANGED <<db_local, cancelled, faults, operation_num, is_terminate,
                   mvars, ivars, lvars, qvars>>

\* The statements of the task, with a pause of the client between them.
Statement(w) ==
    /\ ~cancelled[w]
    /\ \/ Goes(w, "task", "pause") \/ Goes(w, "pause", "last") \/ Goes(w, "last", "loop")
    /\ UNCHANGED <<db_local, cancelled, faults, gvars, mvars, ivars, lvars, qvars>>

\* QueryCanceledError: returns when the test is being stopped.
OnCanceled(w) ==
    /\ pc[w] \in Running /\ cancelled[w]
    /\ cancelled' = [cancelled EXCEPT ![w] = FALSE]
    /\ pc' = [pc EXCEPT ![w] = IF is_terminate THEN "ended" ELSE "canceled"]
    /\ UNCHANGED <<db_local, faults, gvars, mvars, ivars, lvars, qvars>>

\* Any other failure: one that an except clause handles, or one that ends the thread.
Fault(w) ==
    /\ faults < MaxFaults /\ faults' = faults + 1
    /\ \/ Goes(w, "register", "failed")
       \/ pc[w] \in Running /\ \E s \in {"deadlock", "failed", "ended"} : Goes(w, pc[w], s)
    /\ cancelled' = [cancelled EXCEPT ![w] = FALSE]
    /\ UNCHANGED <<db_local, gvars, mvars, ivars, lvars, qvars>>

\* The handlers that log and set db_local = None.  The connection is not
\* closed: db_conns refers to it.
Drop(w) ==
    /\ pc[w] \in {"failed", "canceled"}
    /\ Log(w)
    /\ pc' = [pc EXCEPT ![w] = "open"]
    /\ db_local' = [db_local EXCEPT ![w] = NoConn]
    /\ UNCHANGED <<cancelled, faults, gvars, mvars, ivars, lvars>>

\* db_local.close() after the loop: None has no such method, and the exception
\* ends the thread.
Close(w) ==
    /\ Goes(w, "close", IF db_local[w] = NoConn THEN "ended" ELSE "finished")
    /\ UNCHANGED <<db_local, cancelled, faults, gvars, mvars, ivars, lvars, qvars>>

Worker(w) ==
    \/ WorkerLogs(w, "started", "loop")
    \/ While(w) \/ Check(w)
    \/ WorkerLogs(w, "open", "register") \/ Open(w) \/ Register(w)
    \/ Statement(w) \/ OnCanceled(w) \/ Drop(w)
    \/ WorkerLogs(w, "deadlock", "task")
    \/ Close(w) \/ WorkerLogs(w, "finished", "ended")

\* A server acts on a cancel request: on whatever statement the backend is
\* executing by then, if any.
Cancel(c) ==
    /\ c \in asked /\ asked' = asked \ {c}
    /\ cancelled' = [w \in Workers |->
                       cancelled[w] \/ (db_local[w] = c /\ pc[w] \in Running)]
    /\ UNCHANGED <<pc, db_local, faults, gvars, mvars, size, visited, told, early,
                   lvars, qvars>>

-----------------------------------------------------------------------------
(* The main thread.                                                        *)
MainGoes(from, to) == main = from /\ main' = to

MainLogs(from, to) ==
    /\ main = from
    /\ \/ Acquire("main") /\ UNCHANGED main
       \/ Enqueue("main") /\ main' = to
    /\ UNCHANGED <<wvars, gvars, disposition, interrupted, signals, killed, ivars, lvars>>

\* cluster_specific_execute, around init_test_tbls_and_data and validate_test,
\* catches some exceptions; the others end the main thread.
MainFails ==
    /\ main \in {"init", "validate"} /\ main' = "died"
    /\ lock_logger # "main"
    /\ UNCHANGED <<wvars, gvars, disposition, interrupted, signals, killed, ivars,
                   lvars, qvars>>

StartThreads ==
    /\ MainGoes("start", "enter")
    /\ pc' = [w \in Workers |-> "started"]
    /\ UNCHANGED <<db_local, cancelled, faults, gvars, disposition, interrupted,
                   signals, killed, ivars, lvars, qvars>>

\* SignalHandler.__enter__
Enter ==
    /\ MainGoes("enter", "count")
    /\ interrupted' = FALSE /\ disposition' = "handler"
    /\ UNCHANGED <<wvars, gvars, signals, killed, ivars, lvars, qvars>>

\* SignalHandler.release
Release == disposition' = "default"

\* Mutants of Round: the loop ends with the first thread that does, or looks at
\* interrupted only in the rounds that report.
Round_first_dead ==
    /\ \/ MainGoes("count", IF \E w \in Workers : pc[w] = "ended" THEN "leave" ELSE "sleep")
       \/ MainGoes("sleep", "live") \/ MainGoes("sleep", "check")
       \/ MainGoes("check", IF interrupted THEN "terminate" ELSE "exit")
    /\ UNCHANGED <<wvars, gvars, disposition, interrupted, signals, killed, ivars,
                   lvars, qvars>>
Round_reports_only ==
    /\ \/ MainGoes("count", IF \A w \in Workers : pc[w] = "ended" THEN "leave" ELSE "sleep")
       \/ MainGoes("sleep", "live") \/ MainGoes("sleep", "exit")
       \/ MainGoes("check", IF interrupted THEN "terminate" ELSE "exit")
    /\ UNCHANGED <<wvars, gvars, disposition, interrupted, signals, killed, ivars,
                   lvars, qvars>>

\* The round up to the test of handler.interrupted: alive_count, the sleep of
\* half a second and, in some rounds, the message 'Live %s threads'.
alive == {w \in Workers : pc[w] # "ended"}
Round ==
    /\ \/ MainGoes("count", IF alive = {} THEN "leave" ELSE "sleep")
       \/ MainGoes("sleep", "live") \/ MainGoes("sleep", "check")
       \/ MainGoes("check", IF interrupted THEN "terminate" ELSE "exit")
    /\ UNCHANGED <<wvars, gvars, disposition, interrupted, signals, killed, ivars,
                   lvars, qvars>>

\* SignalHandler.__exit__, before the next round or behind the loop.
Exit ==
    /\ MainGoes("exit", "enter") \/ MainGoes("leave", "validate")
    /\ Release
    /\ UNCHANGED <<wvars, gvars, interrupted, signals, killed, ivars, lvars, qvars>>

\* Mutant of Terminate: the workers are not told.
Terminate_silent ==
    /\ MainGoes("terminate", "received")
    /\ early' = {db_conns[i] : i \in DOMAIN db_conns}
    /\ UNCHANGED <<wvars, gvars, disposition, interrupted, signals, killed, size,
                   visited, asked, told, lvars, qvars>>

Terminate ==
    /\ MainGoes("terminate", "received")
    /\ is_terminate' = TRUE
    /\ early' = {db_conns[i] : i \in DOMAIN db_conns}
    /\ UNCHANGED <<wvars, operation_num, db_conns, disposition, interrupted, signals,
                   killed, size, visited, asked, told, lvars, qvars>>

\* CLUSTERTEST.db_conns.items()
Items ==
    /\ MainGoes("items", "each")
    /\ size' = Len(db_conns) /\ visited' = 0
    /\ UNCHANGED <<wvars, gvars, disposition, interrupted, signals, killed, asked, told,
                   early, lvars, qvars>>

\* The next item.  A dictionary that has grown raises RuntimeError here,
\* outside the try, and the main thread ends.
Each ==
    /\ main = "each"
    /\ main' = IF Len(db_conns) # size THEN "died"
               ELSE IF visited = size THEN "stopping" ELSE "interrupting"
    /\ disposition' = IF main' = "died" THEN "default" ELSE disposition
    /\ UNCHANGED <<wvars, gvars, interrupted, signals, killed, ivars, lvars, qvars>>

\* Mutant of InterruptConn: the try is around the loop, and an error ends it.
InterruptConn_gives_up ==
    /\ main = "interrupting" /\ visited' = visited + 1
    /\ LET c == db_conns[visited + 1]
       IN  /\ told' = told \cup {c}
           /\ \/ main' = "each" /\ asked' = asked \cup {c}
              \/ main' = "stopping" /\ UNCHANGED asked
    /\ UNCHANGED <<wvars, gvars, disposition, interrupted, signals, killed, size, early,
                   lvars, qvars>>

\* conn.interrupt() sends a cancel request; what goes wrong is passed over.
InterruptConn ==
    /\ MainGoes("interrupting", "each")
    /\ LET c == db_conns[visited + 1]
       IN  told' = told \cup {c} /\ asked' \in {asked, asked \cup {c}}
    /\ visited' = visited + 1
    /\ UNCHANGED <<wvars, gvars, disposition, interrupted, signals, killed, size, early,
                   lvars, qvars>>

\* Mutant of Stop: sys.exit(0) without PSCLogger.stop().
Stop_forgotten ==
    /\ MainGoes("stop", "exited")
    /\ Release
    /\ UNCHANGED <<wvars, gvars, interrupted, signals, killed, ivars, lvars, qvars>>

\* PSCLogger.stop(), and the end of the main thread.
Stop ==
    /\ MainGoes("stop", "exited")
    /\ do_stop' = TRUE /\ owed' = log_queue \ copied
    /\ Release
    /\ UNCHANGED <<wvars, gvars, interrupted, signals, killed, ivars, logger, closing,
                   copied, lost, qvars>>

Main ==
    \/ MainLogs("init", "start") \/ StartThreads \/ MainLogs("live", "check")
    \/ Enter \/ Round \/ Exit \/ Terminate
    \/ MainLogs("received", "items") \/ Items \/ Each \/ InterruptConn
    \/ MainLogs("stopping", "stop") \/ MainLogs("validate", "stop") \/ Stop

\* The handler of SignalHandler restores the dispositions it found and sets
\* interrupted.  With the default one SIGTERM ends the process, and so does
\* KeyboardInterrupt once the main thread only waits for the others; earlier it
\* ends the main thread where it is, but for the bare except around interrupt().
Signal(sig) ==
    /\ signals < MaxSignals /\ signals' = signals + 1
    /\ UNCHANGED <<wvars, gvars, size, asked, early, lvars, qvars>>
    /\ \/ /\ disposition = "handler"
          /\ Release /\ interrupted' = TRUE
          /\ UNCHANGED <<main, killed, visited, told>>
       \/ /\ disposition = "default"
          /\ sig = "SIGTERM" \/ main \in {"exited", "died"}
          /\ killed' = TRUE
          /\ UNCHANGED <<main, disposition, interrupted, visited, told>>
       \/ /\ disposition = "default" /\ sig = "SIGINT" /\ main = "interrupting"
          /\ main' = "each" /\ visited' = visited + 1
          /\ told' = told \cup {db_conns[visited + 1]}
          /\ UNCHANGED <<disposition, interrupted, killed>>
       \/ /\ disposition = "default" /\ sig = "SIGINT"
          /\ main \notin {"exited", "died", "interrupting"}
          /\ main' = "died"
          /\ UNCHANGED <<disposition, interrupted, killed, visited, told>>

-----------------------------------------------------------------------------
(* The logger thread.                                                      *)
\* Mutant of LoggerLoop: no flush behind the loop.
LoggerLoop_no_last ==
    /\ logger = "loop"
    /\ closing' = do_stop
    /\ logger' = IF do_stop THEN "ended" ELSE "acquire"
    /\ UNCHANGED <<wvars, gvars, mvars, ivars, do_stop, copied, owed, lost, qvars>>

\* The next flush is due: after stop() the last one, before it that of every
\* fiftieth nap.  A nap that no flush follows changes nothing and is left out.
LoggerLoop ==
    /\ logger = "loop" /\ logger' = "acquire"
    /\ closing' = do_stop
    /\ UNCHANGED <<wvars, gvars, mvars, ivars, do_stop, copied, owed, lost, qvars>>

\* Mutant of FlushBegin: the queue is written without the lock.
FlushBegin_unlocked ==
    /\ logger = "acquire" /\ logger' = "clear"
    /\ copied' = log_queue /\ owed' = {}
    /\ UNCHANGED <<wvars, gvars, mvars, ivars, do_stop, closing, lost, qvars>>

\* flush_data: the loop over log_queue ...
FlushBegin ==
    /\ logger = "acquire" /\ logger' = "clear"
    /\ Acquire("logger")
    /\ copied' = log_queue /\ owed' = {}
    /\ UNCHANGED <<wvars, gvars, mvars, ivars, do_stop, closing, lost>>

\* Mutant of FlushEnd: the last flush keeps the lock.
FlushEnd_keeps_lock ==
    /\ logger = "clear" /\ logger' = IF closing THEN "ended" ELSE "loop"
    /\ lost' = lost \cup (log_queue \ copied)
    /\ log_queue' = {} /\ copied' = {}
    /\ lock_logger' = IF closing THEN lock_logger ELSE "free"
    /\ UNCHANGED <<wvars, gvars, mvars, ivars, do_stop, closing, owed>>

\* ... and del log_queue[:].
FlushEnd ==
    /\ logger = "clear" /\ logger' = IF closing THEN "ended" ELSE "loop"
    /\ lost' = lost \cup (log_queue \ copied)
    /\ log_queue' = {} /\ copied' = {}
    /\ lock_logger' = "free"
    /\ UNCHANGED <<wvars, gvars, mvars, ivars, do_stop, closing, owed>>

Logger == LoggerLoop \/ FlushBegin \/ FlushEnd

-----------------------------------------------------------------------------
\* The process has ended: killed, or every thread has returned.
Over ==
    \/ killed
    \/ /\ main \in {"exited", "died"}
       /\ \A w \in Workers : pc[w] \in {"new", "ended"}
       /\ logger = "ended"

Next ==
    /\ ~Over
    /\ \/ \E w \in Workers : Worker(w) \/ Fault(w)
       \/ \E c \in Conns : Cancel(c)
       \/ Main \/ MainFails
       \/ \E sig \in {"SIGTERM", "SIGINT"} : Signal(sig)
       \/ Logger

Spec == Init /\ [][Next]_vars

\* Every thread is scheduled, and a thread that waits for the logger's lock gets
\* it: nobody holds it but for the time of an append or a flush, and the logger
\* naps between two flushes.  Nothing is assumed of faults, signals and cancels.
Fairness ==
    /\ \A w \in Workers : SF_vars(~Over /\ Worker(w))
    /\ SF_vars(~Over /\ Main)
    /\ SF_vars(~Over /\ Logger)

FairSpec == Spec /\ Fairness

-----------------------------------------------------------------------------
TypeOK ==
    /\ pc \in [Workers -> WorkerStates]
    /\ db_local \in [Workers -> Conns \cup {NoConn}]
    /\ cancelled \in [Workers -> BOOLEAN]
    /\ operation_num \in Nat /\ is_terminate \in BOOLEAN
    /\ db_conns \in Seq(Conns)
    /\ main \in MainStates /\ disposition \in {"default", "handler"}
    /\ interrupted \in BOOLEAN
    /\ size \in Nat /\ visited \in 0 .. size
    /\ asked \subseteq told /\ told \subseteq Conns /\ early \subseteq Conns
    /\ logger \in LoggerStates /\ do_stop \in BOOLEAN /\ closing \in BOOLEAN
    /\ lock_logger \in Threads \cup {"free"}
    /\ log_queue \subseteq Threads /\ copied \subseteq log_queue /\ owed \subseteq log_queue
    /\ lost \subseteq Threads /\ killed \in BOOLEAN
    /\ faults \in 0 .. MaxFaults /\ signals \in 0 .. MaxSignals

\* flush_data deletes exactly what it wrote: no message that a thread queues
\* while the logger is busy disappears.
NothingLostInFlush == lost = {}

\* When the logger thread has ended, all that was queued before stop() was
\* called is in the file.
StopWritesWhatWasLogged == logger = "ended" => owed = {}

\* A test that was not interrupted and whose main thread got to its end leaves
\* no message in the queue: stop() is called after the last thread logged.
QuietEndWritesAll ==
    main = "exited" /\ ~is_terminate /\ logger = "ended" => log_queue = {}

\* A statement is only cancelled when the test is being stopped, and so the
\* thread ends: no worker reconnects and repeats an operation because of it.
CancelledThreadsEnd ==
    [][\A w \in Workers :
         cancelled[w] /\ pc'[w] # pc[w] /\ UNCHANGED faults => pc'[w] = "ended"]_vars

\* When 'Stopping...' is logged, the main thread has tried to interrupt every
\* connection that was in db_conns when it set is_terminate and still is.
RegisteredAreTold ==
    main \in {"stopping", "stop"} /\ is_terminate =>
      \A i \in DOMAIN db_conns : db_conns[i] \in early => db_conns[i] \in told

-----------------------------------------------------------------------------
AllEnded == \A w \in Workers : pc[w] \in {"new", "ended"}

\* A signal that arrives while the main thread sleeps or reports, which is
\* nearly all of its time, stops the test, unless another one ends the thread.
SignalTerminates ==
    interrupted /\ main \in {"sleep", "live"} ~> is_terminate \/ killed \/ main = "died"

\* KeyboardInterrupt between the acquire and the release of log().
LockAbandoned == main = "died" /\ lock_logger = "main"

\* Once is_terminate is set every worker ends, unless the main thread took the
\* logger's lock with it.
TerminatedWorkersEnd == is_terminate ~> AllEnded \/ killed \/ LockAbandoned

\* When the main thread reaches its end, the process ends.
CleanExitEnds == main = "exited" ~> Over

=============================================================================
