--------------------------- MODULE ShutdownProofs ---------------------------
(***************************************************************************)
(* The messages of the billing test reach the log file, for any number of  *)
(* workers, servers, operations, failures and signals.                     *)
(***************************************************************************)
EXTENDS Shutdown, TLAPS

\* While the logger is between writing the queue and clearing it, it has the
\* lock, and the queue is what it wrote.
Exclusive ==
    /\ logger = "clear" => lock_logger = "logger" /\ copied = log_queue
    /\ lost = {}

\* stop() is the last thing the main thread does, the logger looks for it before
\* the last flush, and that flush leaves nothing owed.
LastFlush ==
    /\ do_stop => main = "exited"
    /\ closing => do_stop
    /\ logger = "ended" => closing
    /\ closing /\ logger \in {"clear", "ended"} => owed = {}

\* From 'Received termination signal!' on is_terminate is set; without it the
\* main thread only gets past its loop when no worker is left; and then nobody
\* queues behind the last flush.
AllDead == \A w \in Workers : pc[w] = "ended"
Stopping == {"received", "items", "each", "interrupting", "stopping"}
Closing == {"leave", "validate", "stop", "exited"}
Quiet ==
    /\ main \in Stopping => is_terminate
    /\ main \in Closing /\ ~is_terminate => AllDead
    /\ logger = "ended" /\ ~is_terminate => log_queue = {}

IInv == Exclusive /\ LastFlush /\ Quiet

LEMMA InitIInv == Init => IInv
  BY DEF Init, IInv, Exclusive, LastFlush, Quiet, Stopping, Closing

LEMMA WorkerKeeps ==
    ASSUME IInv, NEW w \in Workers, Worker(w) \/ Fault(w)
    PROVE  IInv'
<1> USE DEF IInv, gvars, mvars, ivars, lvars, qvars
<1>1. /\ UNCHANGED <<main, is_terminate, logger, do_stop, closing, copied, owed, lost>>
      /\ pc[w] # "ended"
  BY DEF Worker, WorkerLogs, Goes, While, Check, Open, Register, Statement, OnCanceled,
         Drop, Close, Fault, Running
<1>2. UNCHANGED <<lock_logger, log_queue>> \/ (lock_logger = "free" /\ UNCHANGED lock_logger)
  BY DEF Worker, WorkerLogs, Log, While, Check, Open, Register, Statement, OnCanceled,
         Drop, Close, Fault
<1>3. Exclusive' BY <1>1, <1>2 DEF Exclusive
<1>4. LastFlush' BY <1>1 DEF LastFlush
<1>5. ~(main \in Closing /\ ~is_terminate) BY <1>1 DEF Quiet, AllDead
<1>6. ~(logger = "ended" /\ ~is_terminate) BY <1>5 DEF LastFlush, Closing
<1>7. Quiet' BY <1>1, <1>5, <1>6 DEF Quiet
<1> QED BY <1>3, <1>4, <1>7

LEMMA MainKeeps ==
    ASSUME IInv, Main \/ MainFails
    PROVE  IInv'
<1> USE DEF IInv, wvars, gvars, mvars, ivars, lvars, qvars, MainGoes
<1>1. main # "exited" /\ UNCHANGED <<logger, closing, copied, lost>>
  BY DEF Main, MainLogs, StartThreads, Enter, Round, Exit, Terminate, Items, Each,
         InterruptConn, Stop, MainFails
<1>2. ~do_stop /\ ~closing /\ logger # "ended" BY <1>1 DEF LastFlush
<1>3. \/ UNCHANGED <<lock_logger, log_queue>>
      \/ lock_logger = "free" /\ lock_logger' = "main"
      \/ lock_logger = "main"
  BY DEF Main, MainLogs, Acquire, Enqueue, StartThreads, Enter, Round, Exit, Terminate,
         Items, Each, InterruptConn, Stop, MainFails
<1>4. Exclusive' BY <1>1, <1>3 DEF Exclusive
<1>5. LastFlush'
  <2>1. do_stop' => main' = "exited"
    BY <1>2 DEF Main, MainLogs, StartThreads, Enter, Round, Exit, Terminate, Items, Each,
                InterruptConn, Stop, MainFails
  <2> QED BY <1>1, <1>2, <2>1 DEF LastFlush
<1>6. Quiet'
  <2>1. CASE StartThreads
    BY <2>1, <1>1, <1>2 DEF StartThreads, Quiet, Stopping, Closing
  <2>2. CASE Terminate
    BY <2>2, <1>1, <1>2 DEF Terminate, Quiet, Stopping, Closing
  <2>3. CASE Round
    BY <2>3, <1>1, <1>2 DEF Round, Quiet, Stopping, Closing, AllDead, alive
  <2>4. CASE UNCHANGED <<pc, is_terminate>> /\ ~Round /\ ~Terminate
    <3>1. main' \in Stopping => main \in Stopping
      BY <2>4 DEF Main, MainLogs, StartThreads, Enter, Exit, Terminate, Items, Each,
                  InterruptConn, Stop, MainFails, Stopping
    <3>2. main' \in Closing => main \in Closing \cup Stopping
      BY <2>4 DEF Main, MainLogs, StartThreads, Enter, Exit, Terminate, Items, Each,
                  InterruptConn, Stop, MainFails, Stopping, Closing
    <3> QED BY <1>1, <1>2, <2>4, <3>1, <3>2 DEF Quiet, AllDead
  <2>5. Main \/ MainFails => StartThreads \/ Terminate \/ UNCHANGED <<pc, is_terminate>>
    BY DEF Main, MainLogs, Enter, Round, Exit, Items, Each, InterruptConn, Stop, MainFails
  <2> QED BY <2>1, <2>2, <2>3, <2>4, <2>5
<1> QED BY <1>4, <1>5, <1>6

LEMMA SignalKeeps ==
    ASSUME IInv, NEW sig \in {"SIGTERM", "SIGINT"}, Signal(sig)
    PROVE  IInv'
<1> USE DEF IInv, wvars, gvars, lvars, qvars
<1>1. /\ UNCHANGED <<pc, is_terminate, logger, do_stop, closing, copied, owed, lost,
                     lock_logger, log_queue>>
      /\ \/ main' = main
         \/ main = "interrupting" /\ main' = "each"
         \/ main # "exited" /\ main' = "died"
  BY DEF Signal
<1>2. Exclusive' BY <1>1 DEF Exclusive
<1>3. LastFlush' BY <1>1 DEF LastFlush
<1>4. Quiet' BY <1>1 DEF Quiet, Stopping, Closing, AllDead
<1> QED BY <1>2, <1>3, <1>4

LEMMA LoggerKeeps ==
    ASSUME IInv, Logger
    PROVE  IInv'
<1> USE DEF IInv, wvars, gvars, mvars, ivars, qvars
<1>1. UNCHANGED <<pc, main, is_terminate, do_stop>>
  BY DEF Logger, LoggerLoop, FlushBegin, FlushEnd
<1>2. CASE LoggerLoop
  BY <1>1, <1>2 DEF LoggerLoop, Exclusive, LastFlush, Quiet, AllDead
<1>3. CASE FlushBegin
  BY <1>1, <1>3 DEF FlushBegin, Acquire, Exclusive, LastFlush, Quiet, AllDead
<1>4. CASE FlushEnd
  BY <1>1, <1>4 DEF FlushEnd, Exclusive, LastFlush, Quiet, AllDead
<1> QED BY <1>2, <1>3, <1>4 DEF Logger

LEMMA NextKeeps == IInv /\ [Next]_vars => IInv'
<1> SUFFICES ASSUME IInv, [Next]_vars PROVE IInv' OBVIOUS
<1>1. CASE Next
  <2>1. CASE \E w \in Workers : Worker(w) \/ Fault(w) BY <2>1, WorkerKeeps
  <2>2. CASE Main \/ MainFails BY <2>2, MainKeeps
  <2>3. CASE \E sig \in {"SIGTERM", "SIGINT"} : Signal(sig) BY <2>3, SignalKeeps
  <2>4. CASE Logger BY <2>4, LoggerKeeps
  <2>5. CASE \E c \in Conns : Cancel(c)
    <3>1. UNCHANGED <<pc, main, is_terminate, lvars, qvars>>
      BY <2>5 DEF Cancel, gvars, mvars
    <3> QED BY <3>1 DEF IInv, Exclusive, LastFlush, Quiet, AllDead, lvars, qvars
  <2> QED BY <1>1, <2>1, <2>2, <2>3, <2>4, <2>5 DEF Next
<1>2. CASE UNCHANGED vars
  BY <1>2 DEF vars, wvars, gvars, mvars, lvars, qvars, IInv, Exclusive, LastFlush, Quiet,
              AllDead
<1> QED BY <1>1, <1>2

LEMMA IInvHolds == Spec => []IInv
  BY InitIInv, NextKeeps, PTL DEF Spec

\* No flush deletes a message it has not written.
THEOREM NothingLostTheorem == Spec => []NothingLostInFlush
<1>1. IInv => NothingLostInFlush BY DEF IInv, Exclusive, NothingLostInFlush
<1> QED BY <1>1, IInvHolds, PTL

\* The logger thread ends with all written that was queued before stop().
THEOREM StopWritesTheorem == Spec => []StopWritesWhatWasLogged
<1>1. IInv => StopWritesWhatWasLogged BY DEF IInv, LastFlush, StopWritesWhatWasLogged
<1> QED BY <1>1, IInvHolds, PTL

\* A test that comes to its own end leaves no message behind.
THEOREM QuietEndTheorem == Spec => []QuietEndWritesAll
<1>1. IInv => QuietEndWritesAll BY DEF IInv, Quiet, QuietEndWritesAll
<1> QED BY <1>1, IInvHolds, PTL

-----------------------------------------------------------------------------
\* What the types rest on: db_conns never shrinks below the size the iteration
\* began with, the iteration has an item left when it interrupts one, and a
\* flush that is under way leaves nothing owed.
Visiting ==
    /\ size <= Len(db_conns)
    /\ main = "interrupting" => visited < size
    /\ logger = "clear" => owed = {}

TInv == TypeOK /\ Visiting

LEMMA InitTInv == Init => TInv
<1> SUFFICES ASSUME Init PROVE TInv OBVIOUS
<1>1. /\ pc \in [Workers -> WorkerStates]
      /\ db_local \in [Workers -> Conns \cup {NoConn}]
      /\ cancelled \in [Workers -> BOOLEAN]
  BY DEF Init, WorkerStates
<1>2. db_conns \in Seq(Conns) /\ Len(db_conns) = 0 BY DEF Init
<1>3. faults \in 0 .. MaxFaults /\ signals \in 0 .. MaxSignals
  BY BoundsAssumption DEF Init
<1>4. size \in Nat /\ visited \in 0 .. size /\ size <= Len(db_conns) BY <1>2 DEF Init
<1>5. /\ lock_logger \in Threads \cup {"free"}
      /\ operation_num \in Nat /\ is_terminate \in BOOLEAN
      /\ main \in MainStates /\ main # "interrupting"
      /\ disposition \in {"default", "handler"} /\ interrupted \in BOOLEAN
      /\ logger \in LoggerStates /\ logger # "clear"
      /\ do_stop \in BOOLEAN /\ closing \in BOOLEAN /\ killed \in BOOLEAN
  BY DEF Init, MainStates, LoggerStates, Threads
<1>6. /\ asked = {} /\ told = {} /\ early = {}
      /\ log_queue = {} /\ copied = {} /\ owed = {} /\ lost = {}
  BY DEF Init
<1> QED BY <1>1, <1>2, <1>3, <1>4, <1>5, <1>6 DEF TInv, TypeOK, Visiting

\* The part of TypeOK about the queue and its lock.
QueueOK ==
    /\ lock_logger \in Threads \cup {"free"}
    /\ log_queue \subseteq Threads /\ copied \subseteq log_queue /\ owed \subseteq log_queue

\* The part about the workers.
WorkersOK ==
    /\ pc \in [Workers -> WorkerStates]
    /\ db_local \in [Workers -> Conns \cup {NoConn}]
    /\ cancelled \in [Workers -> BOOLEAN]
    /\ operation_num \in Nat /\ faults \in 0 .. MaxFaults

LEMMA WorkerKeepsTypes ==
    ASSUME TInv, NEW w \in Workers, Worker(w) \/ Fault(w)
    PROVE  TInv'
<1> USE DEF gvars, mvars, ivars, lvars, qvars, Goes, Running
<1>1. UNCHANGED <<mvars, ivars, lvars, is_terminate>>
  BY DEF Worker, WorkerLogs, While, Check, Open, Register, Statement, OnCanceled, Drop,
         Close, Fault
<1>2. QueueOK'
  <2>1. \/ UNCHANGED <<lock_logger, log_queue>>
        \/ UNCHANGED lock_logger /\ log_queue' = log_queue \cup {w}
    BY DEF Worker, WorkerLogs, Log, While, Check, Open, Register, Statement, OnCanceled,
           Drop, Close, Fault
  <2> QED BY <1>1, <2>1 DEF TInv, TypeOK, QueueOK, Threads
<1>3. WorkersOK'
  <2> USE DEF TInv, TypeOK, WorkersOK, WorkerStates
  <2>1. CASE WorkerLogs(w, "started", "loop") \/ WorkerLogs(w, "open", "register")
             \/ WorkerLogs(w, "deadlock", "task") \/ WorkerLogs(w, "finished", "ended")
    BY <2>1 DEF WorkerLogs
  <2>2. CASE While(w) \/ Statement(w) \/ Close(w) BY <2>2 DEF While, Statement, Close
  <2>3. CASE Check(w) BY <2>3 DEF Check
  <2>4. CASE Open(w) BY <2>4 DEF Open
  <2>5. CASE Register(w) BY <2>5 DEF Register
  <2>6. CASE OnCanceled(w) \/ Drop(w) BY <2>6 DEF OnCanceled, Drop
  <2>7. CASE Fault(w) BY <2>7, BoundsAssumption DEF Fault
  <2> QED BY <2>1, <2>2, <2>3, <2>4, <2>5, <2>6, <2>7 DEF Worker
<1>4. db_conns' \in Seq(Conns) /\ Len(db_conns') >= Len(db_conns)
  <2>0. db_conns \in Seq(Conns) /\ db_local \in [Workers -> Conns \cup {NoConn}]
    BY DEF TInv, TypeOK
  <2>1. CASE UNCHANGED db_conns BY <2>0, <2>1
  <2>2. CASE Register(w)
    <3> DEFINE same == {i \in DOMAIN db_conns : db_conns[i][2] = db_local[w][2]}
    <3>1. db_local[w] \in Conns BY <2>0, <2>2 DEF Register
    <3>2. CASE db_conns' = Append(db_conns, db_local[w]) BY <2>0, <3>1, <3>2
    <3>3. CASE db_conns' = [i \in DOMAIN db_conns |->
                              IF i \in same THEN db_local[w] ELSE db_conns[i]]
      <4>1. DOMAIN db_conns = 1 .. Len(db_conns) BY <2>0
      <4>2. \A i \in 1 .. Len(db_conns) : db_conns[i] \in Conns BY <2>0
      <4>3. db_conns' \in [1 .. Len(db_conns) -> Conns] BY <3>1, <3>3, <4>1, <4>2
      <4>4. Len(db_conns) \in Nat BY <2>0
      <4> QED BY <4>3, <4>4
    <3> QED BY <2>2, <3>2, <3>3 DEF Register
  <2>3. UNCHANGED db_conns \/ Register(w)
    BY DEF Worker, WorkerLogs, While, Check, Open, Statement, OnCanceled, Drop, Close, Fault
  <2> QED BY <2>1, <2>2, <2>3
<1>5. size <= Len(db_conns')
  BY <1>4 DEF TInv, TypeOK, Visiting
<1> QED BY <1>1, <1>2, <1>3, <1>4, <1>5 DEF TInv, TypeOK, Visiting, QueueOK, WorkersOK

LEMMA MainKeepsTypes ==
    ASSUME TInv, IInv, Main \/ MainFails
    PROVE  TInv'
<1> USE DEF wvars, gvars, mvars, ivars, lvars, qvars, MainGoes
<1>1. UNCHANGED <<db_local, cancelled, faults, operation_num, db_conns, signals, killed,
                  logger, closing, copied, lost>>
  BY DEF Main, MainLogs, StartThreads, Enter, Round, Exit, Terminate, Items, Each,
         InterruptConn, Stop, MainFails
<1>2. WorkersOK'
  <2>1. pc' \in [Workers -> WorkerStates]
    BY DEF Main, MainLogs, StartThreads, Enter, Round, Exit, Terminate, Items, Each,
           InterruptConn, Stop, MainFails, TInv, TypeOK, WorkerStates
  <2> QED BY <1>1, <2>1 DEF TInv, TypeOK, WorkersOK
<1>3. QueueOK' /\ do_stop' \in BOOLEAN /\ (logger' = "clear" => owed' = {})
  <2>1. CASE Stop
    BY <1>1, <2>1 DEF Stop, TInv, TypeOK, QueueOK, IInv, Exclusive
  <2>2. CASE UNCHANGED <<do_stop, owed>> /\ ~Stop
    <3>1. \/ UNCHANGED qvars \/ Acquire("main") \/ Enqueue("main")
      BY <2>2 DEF Main, MainLogs, StartThreads, Enter, Round, Exit, Terminate, Items, Each,
                  InterruptConn, MainFails
    <3> QED BY <1>1, <2>2, <3>1
            DEF Acquire, Enqueue, TInv, TypeOK, Visiting, QueueOK, Threads
  <2>3. Stop \/ UNCHANGED <<do_stop, owed>>
    BY DEF Main, MainLogs, StartThreads, Enter, Round, Exit, Terminate, Items, Each,
           InterruptConn, MainFails
  <2> QED BY <2>1, <2>2, <2>3
<1>4. /\ main' \in MainStates /\ disposition' \in {"default", "handler"}
      /\ interrupted' \in BOOLEAN /\ is_terminate' \in BOOLEAN
  BY DEF Main, MainLogs, StartThreads, Enter, Round, Exit, Release, Terminate, Items, Each,
         InterruptConn, Stop, MainFails, TInv, TypeOK, MainStates
<1>5. \A i \in DOMAIN db_conns : db_conns[i] \in Conns BY DEF TInv, TypeOK
<1>6. /\ size' \in Nat /\ visited' \in 0 .. size' /\ size' <= Len(db_conns)
      /\ main' = "interrupting" => visited' < size'
      /\ asked' \subseteq told' /\ told' \subseteq Conns /\ early' \subseteq Conns
  <2> USE DEF TInv, TypeOK, Visiting
  <2>1. CASE Items BY <2>1 DEF Items
  <2>2. CASE Each BY <2>2 DEF Each
  <2>3. CASE InterruptConn
    <3>1. db_conns[visited + 1] \in Conns BY <1>5, <2>3 DEF InterruptConn
    <3>2. visited' = visited + 1 /\ visited < size /\ UNCHANGED <<size, early>>
          /\ main' = "each"
      BY <2>3 DEF InterruptConn
    <3>3. asked' \subseteq told' /\ told' \subseteq Conns
      BY <2>3, <3>1 DEF InterruptConn
    <3> QED BY <3>2, <3>3
  <2>4. CASE Terminate BY <1>5, <2>4 DEF Terminate
  <2>5. CASE UNCHANGED ivars /\ main' # "interrupting" BY <2>5
  <2> QED BY <2>1, <2>2, <2>3, <2>4, <2>5
          DEF Main, MainLogs, StartThreads, Enter, Round, Exit, Stop, MainFails
<1> QED BY <1>1, <1>2, <1>3, <1>4, <1>6 DEF TInv, TypeOK, Visiting, QueueOK, WorkersOK

LEMMA SignalKeepsTypes ==
    ASSUME TInv, NEW sig \in {"SIGTERM", "SIGINT"}, Signal(sig)
    PROVE  TInv'
<1> USE DEF wvars, gvars, lvars, qvars, TInv, TypeOK, Visiting
<1>1. signals' \in 0 .. MaxSignals BY BoundsAssumption DEF Signal
<1>2. UNCHANGED <<wvars, gvars, size, asked, early, lvars, qvars>> BY DEF Signal
<1>3. /\ main' \in MainStates /\ disposition' \in {"default", "handler"}
      /\ interrupted' \in BOOLEAN /\ killed' \in BOOLEAN
  BY DEF Signal, Release, MainStates
<1>4. /\ visited' \in 0 .. size /\ told \subseteq told' /\ told' \subseteq Conns
      /\ main' = "interrupting" => visited' < size
  BY DEF Signal
<1> QED BY <1>1, <1>2, <1>3, <1>4

LEMMA LoggerKeepsTypes ==
    ASSUME TInv, Logger
    PROVE  TInv'
<1> USE DEF wvars, gvars, mvars, ivars, qvars, TInv, TypeOK, Visiting
<1>1. UNCHANGED <<wvars, gvars, mvars, ivars, do_stop>>
  BY DEF Logger, LoggerLoop, FlushBegin, FlushEnd
<1>2. /\ logger' \in LoggerStates /\ closing' \in BOOLEAN
      /\ lock_logger' \in Threads \cup {"free"} /\ log_queue' \subseteq Threads
      /\ copied' \subseteq log_queue' /\ owed' \subseteq log_queue'
      /\ lost' \subseteq Threads /\ (logger' = "clear" => owed' = {})
  BY DEF Logger, LoggerLoop, FlushBegin, Acquire, FlushEnd, LoggerStates, Threads
<1> QED BY <1>1, <1>2

LEMMA NextKeepsTypes == IInv /\ TInv /\ [Next]_vars => TInv'
<1> SUFFICES ASSUME IInv, TInv, [Next]_vars PROVE TInv' OBVIOUS
<1>1. CASE Next
  <2>1. CASE \E w \in Workers : Worker(w) \/ Fault(w) BY <2>1, WorkerKeepsTypes
  <2>2. CASE Main \/ MainFails BY <2>2, MainKeepsTypes
  <2>3. CASE \E sig \in {"SIGTERM", "SIGINT"} : Signal(sig) BY <2>3, SignalKeepsTypes
  <2>4. CASE Logger BY <2>4, LoggerKeepsTypes
  <2>5. CASE \E c \in Conns : Cancel(c)
    BY <2>5 DEF Cancel, gvars, mvars, lvars, qvars, TInv, TypeOK, Visiting
  <2> QED BY <1>1, <2>1, <2>2, <2>3, <2>4, <2>5 DEF Next
<1>2. CASE UNCHANGED vars
  BY <1>2 DEF vars, wvars, gvars, mvars, ivars, lvars, qvars, TInv, TypeOK, Visiting
<1> QED BY <1>1, <1>2

LEMMA TInvHolds == Spec => []TInv
  BY InitTInv, NextKeepsTypes, IInvHolds, PTL DEF Spec

\* Every variable has its type: in particular the iteration over db_conns never
\* passes its end, and nothing is owed that the queue does not hold.
THEOREM ShutdownTypes == Spec => []TypeOK
<1>1. TInv => TypeOK BY DEF TInv
<1> QED BY <1>1, TInvHolds, PTL

-----------------------------------------------------------------------------
\* A connection that was opened and not yet registered is nobody else's, is not
\* in db_conns, and was not there when is_terminate was set.
Fresh(w) ==
    /\ db_local[w] \notin early
    /\ \A i \in DOMAIN db_conns : db_conns[i] # db_local[w]
    /\ \A v \in Workers \ {w} : db_local[v] # db_local[w]

Opening ==
    \A w \in Workers :
      /\ pc[w] = "open" => db_local[w] = NoConn
      /\ pc[w] = "register" /\ db_local[w] # NoConn => Fresh(w)

\* The connections that the iteration has passed are told, if they were there
\* in time; is_terminate is set for good.
Telling ==
    /\ is_terminate => main \in Stopping \cup {"stop", "exited", "died"}
    /\ main \in {"each", "interrupting"} =>
         \A i \in DOMAIN db_conns : i <= visited /\ db_conns[i] \in early => db_conns[i] \in told
    /\ RegisteredAreTold

RInv == Opening /\ Telling

LEMMA InitRInv == Init => RInv
  BY DEF Init, RInv, Opening, Telling, RegisteredAreTold

LEMMA WorkerKeepsFresh ==
    ASSUME TInv, RInv, NEW w \in Workers, Worker(w) \/ Fault(w)
    PROVE  RInv'
<1> USE DEF gvars, mvars, ivars, lvars, qvars, Goes
<1>1. /\ UNCHANGED <<is_terminate, main, visited, told, early>>
      /\ \A v \in Workers \ {w} : pc'[v] = pc[v]
  BY DEF Worker, WorkerLogs, While, Check, Open, Register, Statement, OnCanceled, Drop,
         Close, Fault, TInv, TypeOK
<1>2. /\ pc \in [Workers -> WorkerStates] /\ db_local \in [Workers -> Conns \cup {NoConn}]
      /\ DOMAIN db_conns = 1 .. Len(db_conns) /\ Len(db_conns) \in Nat
      /\ size \in Nat /\ visited \in 0 .. size /\ size <= Len(db_conns)
  BY DEF TInv, TypeOK, Visiting
<1>3. CASE Open(w)
  <2>1. PICK c \in Conns \ InUse : db_local' = [db_local EXCEPT ![w] = c]
    BY <1>3 DEF Open
  <2>2. UNCHANGED <<pc, db_conns>> /\ db_local'[w] = c
        /\ \A v \in Workers \ {w} : db_local'[v] = db_local[v] /\ db_local[v] # c
    BY <1>2, <1>3, <2>1 DEF Open, InUse
  <2>3. c \notin early /\ \A i \in DOMAIN db_conns : db_conns[i] # c
    BY <2>1 DEF InUse
  <2>4. Opening' BY <1>1, <1>3, <2>2, <2>3 DEF Open, RInv, Opening, Fresh
  <2> QED BY <1>1, <2>2, <2>4 DEF RInv, Telling, RegisteredAreTold
<1>4. CASE Register(w)
  <2> DEFINE same == {i \in DOMAIN db_conns : db_conns[i][2] = db_local[w][2]}
  <2>1. /\ pc[w] = "register" /\ pc'[w] = "task" /\ UNCHANGED db_local
        /\ db_local[w] # NoConn /\ Fresh(w)
    BY <1>2, <1>4 DEF Register, RInv, Opening
  <2>2. \A i \in DOMAIN db_conns' :
          db_conns'[i] = db_local[w] \/ (i \in DOMAIN db_conns /\ db_conns'[i] = db_conns[i])
    <3>1. CASE db_conns' = Append(db_conns, db_local[w])
      BY <3>1 DEF TInv, TypeOK
    <3>2. CASE db_conns' = [i \in DOMAIN db_conns |->
                              IF i \in same THEN db_local[w] ELSE db_conns[i]]
      BY <3>2
    <3> QED BY <1>4, <3>1, <3>2 DEF Register
  <2>3. Opening' BY <1>1, <2>1, <2>2 DEF RInv, Opening, Fresh
  <2>4. Telling' BY <1>1, <2>1, <2>2 DEF RInv, Telling, RegisteredAreTold, Fresh
  <2> QED BY <2>3, <2>4 DEF RInv
<1>5. CASE Drop(w)
  <2>1. pc'[w] = "open" /\ db_local'[w] = NoConn /\ UNCHANGED db_conns
        /\ \A v \in Workers \ {w} : db_local'[v] = db_local[v]
    BY <1>2, <1>5 DEF Drop
  <2>2. Opening'
    BY <1>1, <2>1 DEF RInv, Opening, Fresh
  <2> QED BY <1>1, <2>1, <2>2 DEF RInv, Telling, RegisteredAreTold
<1>6. CASE UNCHANGED <<db_local, db_conns>>
  <2>1. pc'[w] = "open" => db_local[w] = NoConn
    BY <1>2, <1>6 DEF Worker, WorkerLogs, While, Check, Open, Register, Statement, OnCanceled,
                      Drop, Close, Fault, Running, RInv, Opening
  <2>2. pc'[w] = "register" => pc[w] = "register" \/ db_local[w] = NoConn
    BY <1>2, <1>6 DEF Worker, WorkerLogs, While, Check, Open, Register, Statement, OnCanceled,
                      Drop, Close, Fault, Running, RInv, Opening
  <2>3. Opening' BY <1>1, <1>6, <2>1, <2>2 DEF RInv, Opening, Fresh
  <2> QED BY <1>1, <1>6, <2>3 DEF RInv, Telling, RegisteredAreTold
<1>7. Open(w) \/ Register(w) \/ Drop(w) \/ UNCHANGED <<db_local, db_conns>>
  BY DEF Worker, WorkerLogs, While, Check, Statement, OnCanceled, Close, Fault
<1> QED BY <1>3, <1>4, <1>5, <1>6, <1>7

LEMMA MainKeepsFresh ==
    ASSUME TInv, RInv, Main \/ MainFails
    PROVE  RInv'
<1> USE DEF wvars, gvars, mvars, ivars, lvars, qvars, MainGoes
<1>1. UNCHANGED <<db_local, db_conns>>
  BY DEF Main, MainLogs, StartThreads, Enter, Round, Exit, Terminate, Items, Each,
         InterruptConn, Stop, MainFails
<1>2. CASE StartThreads
  <2>1. \A w \in Workers : pc'[w] = "started" BY <1>2 DEF StartThreads
  <2> QED BY <1>1, <1>2, <2>1
          DEF StartThreads, RInv, Opening, Telling, Stopping, RegisteredAreTold
<1>3. CASE Terminate
  <2>1. Opening' BY <1>1, <1>3 DEF Terminate, RInv, Opening, Fresh
  <2> QED BY <1>3, <2>1 DEF Terminate, RInv, Telling, Stopping, RegisteredAreTold
<1>4. CASE ~StartThreads /\ ~Terminate
  <2>1. UNCHANGED <<pc, early, is_terminate>>
    BY <1>4 DEF Main, MainLogs, Enter, Round, Exit, Items, Each, InterruptConn, Stop, MainFails
  <2>2. Opening' BY <1>1, <2>1 DEF RInv, Opening, Fresh
  <2>0. /\ DOMAIN db_conns = 1 .. Len(db_conns) /\ Len(db_conns) \in Nat
        /\ size \in Nat /\ visited \in 0 .. size
    BY DEF TInv, TypeOK
  <2>3. CASE Items
    <3>1. main' = "each" /\ visited' = 0 /\ UNCHANGED told BY <2>3 DEF Items
    <3>2. is_terminate => main' \in Stopping BY <3>1 DEF Stopping
    <3>3. \A i \in DOMAIN db_conns : ~(i <= visited') BY <2>0, <3>1
    <3> QED BY <1>1, <2>1, <2>2, <3>1, <3>2, <3>3 DEF RInv, Telling, RegisteredAreTold
  <2>4. CASE Each
    <3>1. /\ main = "each" /\ UNCHANGED <<visited, told>>
          /\ main' \in {"died", "stopping", "interrupting"}
          /\ main' = "stopping" => visited = Len(db_conns)
      BY <2>4 DEF Each
    <3>2. is_terminate => main' \in Stopping \cup {"died"} BY <3>1 DEF Stopping
    <3>3. main' = "stopping" => \A i \in DOMAIN db_conns : i <= visited BY <2>0, <3>1
    <3> QED BY <1>1, <2>1, <2>2, <3>1, <3>2, <3>3 DEF RInv, Telling, RegisteredAreTold
  <2>5. CASE InterruptConn
    <3>1. /\ main = "interrupting" /\ main' = "each" /\ visited' = visited + 1
          /\ told' = told \cup {db_conns[visited + 1]}
      BY <2>5 DEF InterruptConn
    <3>2. \A i \in DOMAIN db_conns : i <= visited' => i <= visited \/ i = visited + 1
      BY <2>0, <3>1
    <3>3. is_terminate => main' \in Stopping BY <3>1 DEF Stopping
    <3> QED BY <1>1, <2>1, <2>2, <3>1, <3>2, <3>3 DEF RInv, Telling, RegisteredAreTold
  <2>6. CASE ~Items /\ ~Each /\ ~InterruptConn
    <3>1. UNCHANGED ivars /\ main' \notin {"each", "interrupting"}
      BY <1>4, <2>6 DEF Main, MainLogs, Enter, Round, Exit, Stop, MainFails
    <3>2. main' \in {"stopping", "stop"} /\ is_terminate => main = main' \/ main = "stopping"
      BY <1>4, <2>6 DEF Main, MainLogs, Enter, Round, Exit, Stop, MainFails, RInv, Telling,
                        Stopping
    <3>3. is_terminate => main' \in Stopping \cup {"stop", "exited", "died"}
      BY <1>4, <2>6 DEF Main, MainLogs, Enter, Round, Exit, Stop, MainFails, RInv, Telling,
                        Stopping
    <3> QED BY <1>1, <2>1, <2>2, <3>1, <3>2, <3>3 DEF RInv, Telling, RegisteredAreTold
  <2> QED BY <2>3, <2>4, <2>5, <2>6
<1> QED BY <1>2, <1>3, <1>4

LEMMA NextKeepsRInv == TInv /\ RInv /\ [Next]_vars => RInv'
<1> SUFFICES ASSUME TInv, RInv, [Next]_vars PROVE RInv' OBVIOUS
<1>1. CASE Next
  <2>1. CASE \E w \in Workers : Worker(w) \/ Fault(w) BY <2>1, WorkerKeepsFresh
  <2>2. CASE Main \/ MainFails BY <2>2, MainKeepsFresh
  <2>3. CASE \E sig \in {"SIGTERM", "SIGINT"} : Signal(sig)
    <3>1. /\ UNCHANGED <<pc, db_local, db_conns, early, is_terminate, size>>
          /\ \/ UNCHANGED <<main, visited, told>>
             \/ /\ main = "interrupting" /\ main' = "each" /\ visited' = visited + 1
                /\ told' = told \cup {db_conns[visited + 1]}
             \/ main' = "died" /\ UNCHANGED <<visited, told>>
      BY <2>3 DEF Signal, wvars, gvars
    <3>2. Opening' BY <3>1 DEF RInv, Opening, Fresh
    <3>3. Telling'
      BY <3>1 DEF RInv, Telling, Stopping, RegisteredAreTold, TInv, TypeOK
    <3> QED BY <3>2, <3>3 DEF RInv
  <2>4. CASE Logger \/ \E c \in Conns : Cancel(c)
    <3>1. UNCHANGED <<pc, db_local, gvars, main, visited, told, early>>
      BY <2>4 DEF Logger, LoggerLoop, FlushBegin, FlushEnd, Cancel, wvars, mvars, ivars
    <3> QED BY <3>1 DEF RInv, Opening, Fresh, Telling, RegisteredAreTold, gvars
  <2> QED BY <1>1, <2>1, <2>2, <2>3, <2>4 DEF Next
<1>2. CASE UNCHANGED vars
  BY <1>2 DEF vars, wvars, gvars, mvars, ivars, RInv, Opening, Fresh, Telling,
              RegisteredAreTold
<1> QED BY <1>1, <1>2

\* Whatever connections are opened, dropped or replaced while the main thread
\* goes over db_conns, it tries to interrupt every one that was there when
\* is_terminate was set and still is.
THEOREM RegisteredAreToldTheorem == Spec => []RegisteredAreTold
<1>1. RInv => RegisteredAreTold BY DEF RInv, Telling
<1> QED BY <1>1, InitRInv, NextKeepsRInv, TInvHolds, PTL DEF Spec

-----------------------------------------------------------------------------
\* Cancel requests are only sent, and statements only cancelled, when
\* is_terminate is set; a cancelled worker is in the statement it was cancelled in.
Cancelling ==
    /\ asked # {} => is_terminate
    /\ \A w \in Workers : cancelled[w] => is_terminate /\ pc[w] \in Running

LEMMA WorkerEndsCancelled ==
    ASSUME TInv, Cancelling, NEW w \in Workers, Worker(w) \/ Fault(w)
    PROVE  /\ Cancelling'
           /\ \A v \in Workers :
                cancelled[v] /\ pc'[v] # pc[v] /\ UNCHANGED faults => pc'[v] = "ended"
<1> USE DEF gvars, mvars, ivars, lvars, qvars, Goes
<1>1. UNCHANGED <<asked, is_terminate>>
  BY DEF Worker, WorkerLogs, While, Check, Open, Register, Statement, OnCanceled, Drop,
         Close, Fault
<1>2. pc \in [Workers -> WorkerStates] /\ cancelled \in [Workers -> BOOLEAN]
      /\ faults \in 0 .. MaxFaults
  BY DEF TInv, TypeOK
<1>3. \A v \in Workers \ {w} : pc'[v] = pc[v] /\ cancelled'[v] = cancelled[v]
  BY <1>2 DEF Worker, WorkerLogs, While, Check, Open, Register, Statement, OnCanceled, Drop,
              Close, Fault
<1>4. CASE OnCanceled(w) \/ Fault(w)
  <2>1. ~cancelled'[w] BY <1>2, <1>4 DEF OnCanceled, Fault
  <2>2. CASE OnCanceled(w)
    <3>1. cancelled[w] /\ pc'[w] = IF is_terminate THEN "ended" ELSE "canceled"
      BY <1>2, <2>2 DEF OnCanceled
    <3> QED BY <1>1, <1>3, <2>1, <3>1 DEF Cancelling
  <2>3. CASE Fault(w)
    <3>1. faults' # faults BY <1>2, <2>3, BoundsAssumption DEF Fault
    <3> QED BY <1>1, <1>3, <2>1, <3>1 DEF Cancelling
  <2> QED BY <1>4, <2>2, <2>3
<1>5. CASE ~OnCanceled(w) /\ ~Fault(w)
  <2>1. UNCHANGED cancelled
    BY <1>5 DEF Worker, WorkerLogs, While, Check, Open, Register, Statement, Drop, Close
  <2>2. cancelled[w] => UNCHANGED pc
    BY <1>5 DEF Worker, WorkerLogs, While, Check, Open, Register, Statement, Drop, Close,
                Cancelling, Running
  <2> QED BY <1>1, <1>3, <2>1, <2>2 DEF Cancelling
<1> QED BY <1>4, <1>5

LEMMA OthersKeepCancelling ==
    ASSUME TInv, IInv, RInv, Cancelling,
           \/ Main \/ MainFails \/ Logger \/ UNCHANGED vars
           \/ \E sig \in {"SIGTERM", "SIGINT"} : Signal(sig)
           \/ \E c \in Conns : Cancel(c)
    PROVE  /\ Cancelling'
           /\ \A w \in Workers : cancelled[w] => pc'[w] = pc[w]
<1> USE DEF vars, wvars, gvars, mvars, ivars, lvars, qvars, MainGoes
<1>1. CASE StartThreads
  <2>1. ~is_terminate BY <1>1 DEF StartThreads, RInv, Telling, Stopping
  <2>2. asked = {} /\ \A w \in Workers : ~cancelled[w] BY <2>1 DEF Cancelling
  <2> QED BY <1>1, <2>2 DEF StartThreads, Cancelling
<1>2. CASE InterruptConn
  <2>1. is_terminate BY <1>2 DEF InterruptConn, IInv, Quiet, Stopping
  <2> QED BY <1>2, <2>1 DEF InterruptConn, Cancelling
<1>3. CASE \E c \in Conns : Cancel(c)
  <2>1. PICK c \in Conns : Cancel(c) BY <1>3
  <2>2. is_terminate BY <2>1 DEF Cancel, Cancelling
  <2> QED BY <2>1, <2>2 DEF Cancel, Cancelling
<1>4. CASE UNCHANGED <<pc, cancelled, asked>> /\ (is_terminate => is_terminate')
  BY <1>4 DEF Cancelling
<1>5. \/ StartThreads \/ InterruptConn \/ \E c \in Conns : Cancel(c)
      \/ UNCHANGED <<pc, cancelled, asked>> /\ (is_terminate => is_terminate')
  BY DEF Main, MainLogs, Enter, Round, Exit, Terminate, Items, Each, Stop, MainFails, Signal,
         Logger, LoggerLoop, FlushBegin, FlushEnd
<1> QED BY <1>1, <1>2, <1>3, <1>4, <1>5

LEMMA NextKeepsCancelling ==
    TInv /\ IInv /\ RInv /\ Cancelling /\ [Next]_vars =>
      /\ Cancelling'
      /\ \A w \in Workers :
           cancelled[w] /\ pc'[w] # pc[w] /\ UNCHANGED faults => pc'[w] = "ended"
  BY WorkerEndsCancelled, OthersKeepCancelling DEF Next

\* A worker whose statement was cancelled is in a test that is being stopped:
\* unless something else fails first, its thread returns and does not repeat
\* the operation.
THEOREM CancelledThreadsEndTheorem == Spec => CancelledThreadsEnd
<1>1. Init => Cancelling BY DEF Init, Cancelling
<1>2. TInv /\ IInv /\ RInv /\ Cancelling /\ [Next]_vars =>
        [\A w \in Workers :
           cancelled[w] /\ pc'[w] # pc[w] /\ UNCHANGED faults => pc'[w] = "ended"]_vars
  BY NextKeepsCancelling
<1> QED BY <1>1, <1>2, NextKeepsCancelling, InitRInv, NextKeepsRInv, TInvHolds, IInvHolds, PTL
        DEF Spec, CancelledThreadsEnd

=============================================================================
