------------------------------ MODULE PqControl ------------------------------
(***************************************************************************)
(* Starting and stopping a server (cluster.py) and the temporary cluster of   *)
(* a process (temporal.py).  A Cluster object has a subprocess it started, or   *)
(* only the pid file in the data directory; operations are sequences of steps,   *)
(* between which the postmaster starts, stops, crashes and its pid is reused.     *)
(* The postmaster is external.                                                     *)
(***************************************************************************)
EXTENDS Integers, Sequences, FiniteSets

CONSTANTS
  MaxStarts,  \* bound: postmasters started, and the pids they get
  MaxCrashes, \* bound: crashes of a postmaster and pids reused by the system
  MaxCalls    \* bound: operations of the program

ASSUME ControlBounds == MaxStarts \in Nat /\ MaxCrashes \in Nat /\ MaxCalls \in Nat

VARIABLES
  kDir,      \* the data directory: void or initialized
  kFile,     \* the pid in postmaster.pid, 0 if there is no file
  kPm,       \* the postmaster: its pid and st: starting, up, smart, fast, exited
  kClients,  \* are clients connected?
  kForeign,  \* pids of other processes of the system
  kDaemon,   \* Cluster.daemon_process: a pid, or 0
  kSteps,    \* the steps left of the operation being executed
  kTemp,     \* Temporal: none, initializing, set (cluster is not None)
  kLog       \* bounds, the last exception, and whether drop warned

controlVars == <<kDir, kFile, kPm, kClients, kForeign, kDaemon, kSteps, kTemp, kLog>>

PmAlive == kPm.st # "exited"
Alive(p) == (p = kPm.pid /\ PmAlive) \/ p \in kForeign

\* Cluster.running: the subprocess while it lives; once it was reaped, or for a
\* server somebody else started, the process the pid file names.
DaemonLives == kDaemon # 0 /\ kDaemon = kPm.pid /\ PmAlive
DaemonRuns == DaemonLives \/ (kFile # 0 /\ Alive(kFile))
\* What running() does to the object.
Polled == IF kDaemon # 0 /\ ~DaemonLives /\ kFile # 0 THEN 0 ELSE kDaemon
\* Cluster.pid
Pid == IF kFile # 0 THEN kFile ELSE kDaemon

NextStep(steps) == kSteps' = steps
Done == NextStep(Tail(kSteps))
Fails(why) == kSteps' = <<>> /\ kLog' = [kLog EXCEPT !.failed = why]
At(step) == kSteps # <<>> /\ Head(kSteps) = step

\* A signal to Cluster.pid; a process that is gone is ignored.
Signalled(sig) ==
  IF Pid # kPm.pid \/ ~PmAlive THEN kPm
  ELSE CASE sig = "TERM" -> [kPm EXCEPT !.st = IF @ = "fast" THEN @ ELSE "smart"]
         [] sig = "INT"  -> [kPm EXCEPT !.st = "fast"]
         [] sig = "KILL" -> [kPm EXCEPT !.st = "exited"]
SignalStep(step, sig) ==
  /\ At(step) /\ Done
  /\ kPm' = Signalled(sig)
  /\ kForeign' = IF sig = "KILL" THEN kForeign \ {Pid} ELSE kForeign
  /\ kClients' = (kClients /\ kPm'.st # "exited")
  /\ UNCHANGED <<kDir, kFile, kDaemon, kTemp, kLog>>

\* wait_until_stopped.  In drop() a timeout leads to a kill and another wait, and
\* a timeout of that one to a warning.
AfterTimeout_ignored == Tail(kSteps)
AfterTimeout == <<"kill", "wait_again">> \o Tail(kSteps)
WaitStopped ==
  /\ At("wait") \/ At("drop_wait") \/ At("wait_again")
  /\ kDaemon' = Polled
  /\ \/ ~DaemonRuns /\ Done /\ UNCHANGED kLog
     \/ /\ DaemonRuns
        /\ CASE At("wait")       -> Fails("timeout")
             [] At("drop_wait")  -> NextStep(AfterTimeout) /\ UNCHANGED kLog
             [] At("wait_again") -> Done /\ kLog' = [kLog EXCEPT !.warned = TRUE]
  /\ UNCHANGED <<kDir, kFile, kPm, kClients, kForeign, kTemp>>

\* start(): nothing when a server runs.
StartStep ==
  /\ At("start") /\ Done
  /\ IF DaemonRuns THEN kDaemon' = Polled /\ UNCHANGED <<kPm, kLog>>
     ELSE /\ kPm' = [pid |-> kLog.started + 1, st |-> "starting"]
          /\ kDaemon' = kLog.started + 1
          /\ kLog' = [kLog EXCEPT !.started = @ + 1]
  /\ UNCHANGED <<kDir, kFile, kClients, kForeign, kTemp>>
\* wait_until_started
WaitStarted ==
  /\ At("wait_started") /\ kDaemon' = Polled
  /\ \/ ~DaemonRuns /\ Fails(IF kDaemon' # 0 THEN "terminated" ELSE "not_running")
     \/ DaemonRuns /\ kPm.st = "up" /\ Done /\ UNCHANGED kLog
     \/ DaemonRuns /\ Fails("timeout")
  /\ UNCHANGED <<kDir, kFile, kPm, kClients, kForeign, kTemp>>
\* restart() between its waits.
StillRunning ==
  /\ At("check_stopped") /\ kDaemon' = Polled
  /\ IF DaemonRuns THEN Fails("not_stopped") ELSE Done /\ UNCHANGED kLog
  /\ UNCHANGED <<kDir, kFile, kPm, kClients, kForeign, kTemp>>

\* init(): initdb, which fails on a directory that is there; drop() removes it.
InitStep ==
  /\ At("init")
  /\ IF kDir = "void" THEN kDir' = "initialized" /\ Done /\ UNCHANGED kLog
     ELSE Fails("initdb") /\ UNCHANGED kDir
  /\ UNCHANGED <<kFile, kPm, kClients, kForeign, kDaemon, kTemp>>
DropStep ==
  /\ At("drop") /\ kDaemon' = Polled
  /\ NextStep((IF DaemonRuns THEN <<"shutdown", "drop_wait">> ELSE <<>>) \o <<"remove">> \o Tail(kSteps))
  /\ kLog' = [kLog EXCEPT !.warned = FALSE]
  /\ UNCHANGED <<kDir, kFile, kPm, kClients, kForeign, kTemp>>
RemoveStep ==
  /\ At("remove") /\ Done
  /\ kDir' = "void" /\ kFile' = 0
  /\ UNCHANGED <<kPm, kClients, kForeign, kDaemon, kTemp, kLog>>

\* Temporal.init sets its cluster last, Temporal.destroy forgets it first.
TempStep ==
  /\ At("temp_set") \/ At("temp_unset") \/ At("temp_drop")
  /\ CASE At("temp_set")   -> kTemp' = "set" /\ Done
       [] At("temp_unset") -> kTemp' = "none" /\ Done
       [] At("temp_drop")  -> /\ UNCHANGED kTemp
                              /\ NextStep((IF kDir = "initialized" THEN <<"drop">> ELSE <<>>) \o Tail(kSteps))
  /\ UNCHANGED <<kDir, kFile, kPm, kClients, kForeign, kDaemon, kLog>>

Operations ==
  {<<"init">>, <<"start">>, <<"start", "wait_started">>, <<"stop", "wait">>, <<"stop">>,
   <<"shutdown">>, <<"kill">>, <<"drop">>}
RestartSteps == (IF DaemonRuns THEN <<"stop", "wait">> ELSE <<>>)
                \o <<"check_stopped", "start", "wait_started">>
TempInit == <<"temp_drop", "init", "start", "wait_started", "temp_set">>
TempDestroy == <<"temp_unset", "stop", "wait", "drop">>
\* A call of the program on a Cluster, or of Temporal's init or destroy.  A Cluster
\* is made anew for each temporary cluster.
ClusterCall ==
  /\ kSteps = <<>> /\ kLog.calls < MaxCalls /\ kLog.started < MaxStarts
  /\ \/ kSteps' \in Operations \cup {RestartSteps} /\ UNCHANGED <<kTemp, kDaemon>>
     \/ kTemp # "set" /\ NextStep(TempInit) /\ kTemp' = "initializing" /\ kDaemon' = 0
     \/ kTemp = "set" /\ NextStep(TempDestroy) /\ UNCHANGED <<kTemp, kDaemon>>
  /\ kLog' = [kLog EXCEPT !.calls = @ + 1, !.failed = "no",
                          !.unseen = @ \/ (kDaemon' = 0 /\ kFile # kPm.pid /\ PmAlive)]
  /\ UNCHANGED <<kDir, kFile, kPm, kClients, kForeign>>

\* The postmaster: it takes the pid file unless a living process holds it, is
\* ready, serves clients, ends as it was told to, or crashes and leaves the file.
PostmasterStarts ==
  /\ kPm.st = "starting"
  /\ IF kDir = "initialized" /\ (kFile \in {0, kPm.pid} \/ ~Alive(kFile))
     THEN kFile' = kPm.pid /\ kPm' = [kPm EXCEPT !.st = IF kFile = kPm.pid THEN "up" ELSE @]
     ELSE kPm' = [kPm EXCEPT !.st = "exited"] /\ UNCHANGED kFile
  /\ UNCHANGED <<kDir, kClients, kForeign, kDaemon, kSteps, kTemp, kLog>>
Clients ==
  /\ kPm.st = "up" \/ kClients
  /\ kClients' = ~kClients
  /\ UNCHANGED <<kDir, kFile, kPm, kForeign, kDaemon, kSteps, kTemp, kLog>>
PostmasterEnds ==
  /\ kPm.st = "fast" \/ (kPm.st = "smart" /\ ~kClients)
  /\ kPm' = [kPm EXCEPT !.st = "exited"] /\ kClients' = FALSE
  /\ kFile' = IF kFile = kPm.pid THEN 0 ELSE kFile
  /\ UNCHANGED <<kDir, kForeign, kDaemon, kSteps, kTemp, kLog>>
Misfortune ==
  /\ kLog.crashes < MaxCrashes
  /\ kLog' = [kLog EXCEPT !.crashes = @ + 1]
  /\ \/ PmAlive /\ kPm' = [kPm EXCEPT !.st = "exited"] /\ kClients' = FALSE /\ UNCHANGED kForeign
     \/ /\ ~PmAlive /\ kPm.pid # 0 /\ kForeign' = kForeign \cup {kPm.pid}
        /\ UNCHANGED <<kPm, kClients>>
  /\ UNCHANGED <<kDir, kFile, kDaemon, kSteps, kTemp>>

\* The directory is void, or a server that somebody else started runs in it.
ControlInit ==
  /\ \/ kDir = "void" /\ kFile = 0 /\ kPm = [pid |-> 0, st |-> "exited"]
     \/ kDir = "initialized" /\ kFile = 1 /\ kPm = [pid |-> 1, st |-> "up"]
  /\ kClients = FALSE /\ kForeign = {} /\ kDaemon = 0 /\ kSteps = <<>> /\ kTemp = "none"
  /\ kLog = [started |-> kPm.pid, crashes |-> 0, calls |-> 0, failed |-> "no", warned |-> FALSE,
            unseen |-> FALSE]
ControlNext ==
  \/ ClusterCall \/ WaitStopped \/ StartStep \/ WaitStarted \/ StillRunning
  \/ InitStep \/ DropStep \/ RemoveStep \/ TempStep
  \/ SignalStep("stop", "TERM") \/ SignalStep("shutdown", "INT") \/ SignalStep("kill", "KILL")
  \/ PostmasterStarts \/ Clients \/ PostmasterEnds \/ Misfortune
ControlSpec == ControlInit /\ [][ControlNext]_controlVars

ControlTypeOK ==
  /\ kPm.st \in {"starting", "up", "smart", "fast", "exited"}
  /\ kFile \in 0..MaxStarts /\ kDaemon \in 0..MaxStarts
  /\ kTemp \in {"none", "initializing", "set"}

StepReturns(step) == At(step) /\ kSteps' = Tail(kSteps) /\ kLog'.failed = "no"
\* What the waits say is true, whatever the pid file, a crash or a reused pid made
\* of running(): a wait for the stop returns without an exception only when no
\* postmaster lives, one for the start only when it is ready, and drop() removes
\* the directory of no living postmaster unless it warned.  Not so for
\* a postmaster that another Cluster object started and that had not yet written its
\* pid file.
WaitsAreTrue ==
  [][/\ StepReturns("wait") /\ ~kLog.unseen => ~PmAlive
     /\ StepReturns("wait_started") => kPm.st = "up"
     /\ StepReturns("remove") /\ ~kLog.unseen => ~PmAlive \/ kLog.warned]_controlVars
=============================================================================
