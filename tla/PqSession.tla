------------------------------ MODULE PqSession ------------------------------
(***************************************************************************)
(* Transactions and settings of one connection (driver/pq3.py): with blocks  *)
(* of Transaction and SettingsCM nested in any order, explicit commit and     *)
(* rollback, the settings cache, reset().  The server's side -- savepoints,   *)
(* failed blocks, settings that follow them, reported settings -- is external. *)
(***************************************************************************)
EXTENDS Integers, Sequences, FiniteSets, SequencesExt

CONSTANTS
  Keys,       \* names of settings
  Reported,   \* those whose changes the server reports
  MaxFrames,  \* bound: nested with blocks
  MaxWork,    \* bound: rows written in an outermost block
  MaxSets     \* bound: times the program sets or resets a setting

ASSUME SessionBounds ==
  /\ Keys # {} /\ Reported \subseteq Keys
  /\ MaxFrames \in Nat \ {0} /\ MaxWork \in Nat /\ MaxSets \in Nat

VARIABLES
  sSrv,     \* the server's session: st, vals, work, saves
  sCache,   \* Settings.cache; Absent where nothing is cached
  sFrames,  \* the with blocks the program is in
  sExc,     \* the exception on its way: none, error or base (no Exception)
  sLog      \* what excuses the properties: based, stale

sessionVars == <<sSrv, sCache, sFrames, sExc, sLog>>

Absent == -1
Default == 1
\* What one command leads to: the session, and whether it succeeded.
Does(srv) == [srv |-> srv, ok |-> TRUE]
RefusedBy(srv) == [srv |-> [srv EXCEPT !.st = IF @ = "T" THEN "E" ELSE @], ok |-> FALSE]
BackTo(srv, save) == [srv EXCEPT !.vals = save.vals, !.work = save.work]
Idled(srv) == [srv EXCEPT !.st = "I", !.saves = <<>>]
Aborted(srv) == IF srv.saves = <<>> THEN srv ELSE Idled(BackTo(srv, srv.saves[1]))

\* Rows of earlier blocks are no longer told apart.
Begin(srv) ==
  IF srv.st # "I" THEN RefusedBy(srv)
  ELSE Does([srv EXCEPT !.st = "T", !.work = {}, !.saves = <<[id |-> 0, vals |-> srv.vals, work |-> {}]>>])
Savepoint(srv, id) ==
  IF srv.st # "T" THEN RefusedBy(srv)
  ELSE Does([srv EXCEPT !.saves = Append(@, [id |-> id, vals |-> srv.vals, work |-> srv.work])])
\* COMMIT of a failed block rolls back and reports no error.
CommitBlock(srv) ==
  CASE srv.st = "lost" -> RefusedBy(srv) [] srv.st = "E" -> Does(Aborted(srv)) [] OTHER -> Does(Idled(srv))
AbortBlock(srv) == IF srv.st = "lost" THEN RefusedBy(srv) ELSE Does(Aborted(srv))
Saved(srv, id) == {i \in 2..Len(srv.saves) : srv.saves[i].id = id}
Newest(srv, id) == CHOOSE i \in Saved(srv, id) : \A j \in Saved(srv, id) : j <= i
ReleaseTo(srv, id) ==
  IF srv.st # "T" \/ Saved(srv, id) = {} THEN RefusedBy(srv)
  ELSE Does([srv EXCEPT !.saves = SubSeq(@, 1, Newest(srv, id) - 1)])
RollbackTo(srv, id) ==
  IF srv.st \notin {"T", "E"} \/ Saved(srv, id) = {} THEN RefusedBy(srv)
  ELSE LET i == Newest(srv, id)
       IN Does([BackTo(srv, srv.saves[i]) EXCEPT !.st = "T", !.saves = SubSeq(@, 1, i - 1)])
SetTo(srv, k, v) ==
  IF srv.st \notin {"I", "T"} THEN RefusedBy(srv) ELSE Does([srv EXCEPT !.vals[k] = v])

\* Settings._notify: a reported setting that changed is cached with its value.
Notify_lost(cache, old, new) == cache
Notify(cache, old, new) ==
  [k \in Keys |-> IF k \in Reported /\ old.vals[k] # new.vals[k] THEN new.vals[k] ELSE cache[k]]

closed == sSrv.st = "lost"
Top == Last(sFrames)
Outer == Front(sFrames)
NoException == sExc = "none"

\* Connection.execute and the prepared queries of Settings: push, complete, and
\* an exception exactly when the transaction ended with an error.
Executes(r) ==
  /\ sSrv' = r.srv
  /\ sCache' = Notify(sCache, sSrv, r.srv)
SessionRaises(r) == sExc' = IF r.ok THEN sExc ELSE "error"
\* An abort, a rollback or a reset changed settings the server does not report.
Stale(r) == \E k \in Keys \ Reported : r.srv.vals[k] # sSrv.vals[k]
Sets == sLog.sets < MaxSets /\ sLog' = [sLog EXCEPT !.sets = @ + 1]
Logs(r) == sLog' = [sLog EXCEPT !.stale = @ \/ Stale(r)]

Frame(kind, type, k) ==
  [ kind |-> kind, type |-> type, state |-> "open", items |-> {}, called |-> FALSE,
    key |-> k, stored |-> Absent, pre |-> sSrv.vals[k], trusted |-> ~sLog.stale ]

\* Transaction.start, at the entry of the with block.
StartXact ==
  /\ NoException /\ Len(sFrames) < MaxFrames /\ Len(sSrv.saves) <= MaxFrames
  /\ \E configured \in BOOLEAN :
       LET type == IF sSrv.st = "I" THEN "block" ELSE "savepoint"
           r == IF type = "savepoint" /\ configured THEN [srv |-> sSrv, ok |-> FALSE]
                ELSE IF type = "block" THEN Begin(sSrv)
                ELSE Savepoint(sSrv, Len(sFrames) + 1)
       IN /\ Executes(r) /\ SessionRaises(r)
          /\ sFrames' = IF r.ok THEN Append(sFrames, Frame("xact", type, CHOOSE k \in Keys : TRUE))
                        ELSE sFrames
          /\ sLog' = IF r.ok /\ type = "block" THEN [sLog EXCEPT !.written = 0] ELSE sLog

\* Transaction.commit and rollback of frame i: the object's next state, and the
\* command sent, if any.
CommitOf(f, i) ==
  CASE f.state = "committed" -> [r |-> Does(sSrv), state |-> "committed"]
    [] f.state = "aborted" -> [r |-> [srv |-> sSrv, ok |-> FALSE], state |-> "aborted"]
    [] f.state = "open" ->
         LET r == IF f.type = "block" THEN CommitBlock(sSrv) ELSE ReleaseTo(sSrv, i)
         IN [r |-> r, state |-> IF r.ok THEN "committed" ELSE "open"]
UndoCommand_release(f, i) == IF f.type = "block" THEN AbortBlock(sSrv) ELSE ReleaseTo(sSrv, i)
UndoCommand(f, i) == IF f.type = "block" THEN AbortBlock(sSrv) ELSE RollbackTo(sSrv, i)
RollbackOf(f, i) ==
  CASE f.state = "aborted" -> [r |-> Does(sSrv), state |-> "aborted"]
    [] f.state = "committed" -> [r |-> [srv |-> sSrv, ok |-> FALSE], state |-> "committed"]
    [] f.state = "open" ->
         LET r == UndoCommand(f, i)
         IN [r |-> r, state |-> IF r.ok THEN "aborted" ELSE "open"]

\* The program calls commit or rollback of an enclosing with block's object.
Called(i, d) ==
  /\ Executes(d.r) /\ SessionRaises(d.r) /\ Logs(d.r)
  /\ sFrames' = [j \in 1..Len(sFrames) |->
       [sFrames[j] EXCEPT !.called = TRUE, !.state = IF i = j THEN d.state ELSE @]]
Blocks == {i \in 1..Len(sFrames) : NoException /\ sFrames[i].kind = "xact"}
CommitCall == \E i \in Blocks : Called(i, CommitOf(sFrames[i], i))
RollbackCall == \E i \in Blocks : Called(i, RollbackOf(sFrames[i], i))

\* A block is left: what was written in it is no longer promised by the
\* enclosing ones when an exception leaves with it.
Leave(raising) ==
  sFrames' = [j \in 1..Len(Outer) |->
    IF raising THEN [Outer[j] EXCEPT !.items = @ \ Top.items] ELSE Outer[j]]

\* Transaction.__exit__ without an exception.  A deferred constraint can make
\* COMMIT fail; the error is none that __exit__ handles.
FailedBlock_unseen == FALSE
FailedBlock == sSrv.st = "E"
ExitXact ==
  /\ NoException /\ sFrames # <<>> /\ Top.kind = "xact"
  /\ \E deferred \in BOOLEAN :
       LET failed == FailedBlock
           fails  == deferred /\ Top.state = "open" /\ Top.type = "block" /\ sSrv.st = "T"
           d == IF failed THEN RollbackOf(Top, Len(sFrames)) ELSE CommitOf(Top, Len(sFrames))
           r == IF fails THEN [srv |-> Aborted(sSrv), ok |-> FALSE] ELSE d.r
       IN /\ Executes(r) /\ Logs(r)
          /\ sExc' = IF failed \/ ~r.ok THEN "error" ELSE "none"
          /\ Leave(failed \/ ~r.ok)

\* Transaction.__exit__ with an exception: rolled back when it is an Exception
\* and the connection is not closed; any other only passes.
RollsBack_when_alive == sExc = "error" /\ sSrv.st = "T"
RollsBack == sExc = "error" /\ ~closed
ExitXactRaised ==
  /\ sExc # "none" /\ sFrames # <<>> /\ Top.kind = "xact"
  /\ LET r == IF RollsBack THEN RollbackOf(Top, Len(sFrames)).r ELSE Does(sSrv)
     IN Executes(r) /\ SessionRaises(r) /\ Logs(r)
  /\ Leave(TRUE)

\* A query of the program, in some block: it writes a row or fails.
Query ==
  /\ NoException /\ sFrames # <<>>
  /\ \E ok \in BOOLEAN :
       LET n == sLog.written + 1
           r == IF ok /\ sSrv.st \in {"I", "T"} THEN Does([sSrv EXCEPT !.work = @ \cup {n}])
                ELSE RefusedBy(sSrv)
       IN /\ ok => n <= MaxWork
          /\ Executes(r) /\ SessionRaises(r)
          /\ sFrames' = IF r.ok THEN [j \in 1..Len(sFrames) |-> [sFrames[j] EXCEPT !.items = @ \cup {n}]]
                        ELSE sFrames
          /\ sLog' = IF r.ok THEN [sLog EXCEPT !.written = n] ELSE sLog

\* The program raises something of its own, or catches what is on its way.
Throw ==
  /\ NoException /\ sFrames # <<>>
  /\ sExc' \in {"error", "base"}
  /\ sLog' = [sLog EXCEPT !.based = @ \/ (sExc' = "base")]
  /\ UNCHANGED <<sSrv, sCache, sFrames>>
Catch ==
  /\ sExc = "error"
  /\ sExc' = "none"
  /\ UNCHANGED <<sSrv, sCache, sFrames, sLog>>

\* Settings.__setitem__: nothing is sent when the cached value is the one asked
\* for; otherwise set_config, and the value returned is cached.
SetItem ==
  /\ NoException
  /\ \E k \in Keys, v \in 0..1 :
       LET r == IF sCache[k] = v THEN Does(sSrv) ELSE SetTo(sSrv, k, v)
       IN /\ sSrv' = r.srv /\ SessionRaises(r)
          /\ sCache' = IF r.ok THEN [sCache EXCEPT ![k] = v] ELSE sCache
  /\ Sets /\ UNCHANGED sFrames

\* Settings.get: a miss asks the server and caches the answer.
GetItem ==
  /\ NoException
  /\ \E k \in Keys :
       LET r == IF sSrv.st \in {"I", "T"} THEN Does(sSrv) ELSE RefusedBy(sSrv)
       IN /\ sCache[k] = Absent
          /\ sSrv' = r.srv /\ SessionRaises(r)
          /\ sCache' = IF r.ok THEN [sCache EXCEPT ![k] = sSrv.vals[k]] ELSE sCache
  /\ UNCHANGED <<sFrames, sLog>>

\* Settings.__delitem__: RESET, then the cached value is dropped.
DelItem ==
  /\ NoException
  /\ \E k \in Keys :
       LET r == SetTo(sSrv, k, Default)
       IN /\ sSrv' = r.srv /\ SessionRaises(r)
          /\ sCache' = IF r.ok THEN [sCache EXCEPT ![k] = Absent] ELSE sCache
  /\ Sets /\ UNCHANGED sFrames

\* SettingsCM.__enter__: getset from the cache or else from the server, then
\* update.
StoredValue_cached(k) == IF sCache[k] # Absent THEN sCache[k] ELSE 0
StoredValue(k) == IF sCache[k] # Absent THEN sCache[k] ELSE sSrv.vals[k]
EnterSettings ==
  /\ NoException /\ Len(sFrames) < MaxFrames
  /\ \E k \in Keys, v \in 0..1 :
       LET stored == StoredValue(k)
           r == SetTo(sSrv, k, v)
       IN /\ sSrv' = r.srv /\ SessionRaises(r)
          /\ sCache' = IF r.ok THEN [sCache EXCEPT ![k] = v] ELSE sCache
          /\ sFrames' = IF r.ok THEN Append(sFrames, [Frame("settings", "none", k) EXCEPT !.stored = stored])
                        ELSE sFrames
  /\ Sets

\* SettingsCM.__exit__: update, whatever exception is on its way; an error of
\* the update replaces it.
ExitSettings ==
  /\ sFrames # <<>> /\ Top.kind = "settings"
  /\ LET r == SetTo(sSrv, Top.key, Top.stored)
     IN /\ sSrv' = r.srv /\ SessionRaises(r)
        /\ sCache' = IF r.ok THEN [sCache EXCEPT ![Top.key] = Top.stored] ELSE sCache
        /\ Leave(sExc # "none" \/ ~r.ok)
  /\ UNCHANGED sLog

\* Connection.reset: ABORT; RESET ALL.
Reset ==
  /\ NoException
  /\ LET a == AbortBlock(sSrv).srv
         r == IF closed THEN RefusedBy(sSrv) ELSE Does([a EXCEPT !.vals = [k \in Keys |-> Default]])
     IN /\ Executes(r) /\ SessionRaises(r) /\ sLog.sets < MaxSets
        /\ sLog' = [sLog EXCEPT !.stale = @ \/ Stale(r), !.sets = @ + 1]
  /\ sFrames' = [j \in 1..Len(sFrames) |-> [sFrames[j] EXCEPT !.called = TRUE]]

SessionLost ==
  /\ NoException /\ ~closed
  /\ sSrv' = [Aborted(sSrv) EXCEPT !.st = "lost"] /\ sExc' = "error"
  /\ UNCHANGED <<sCache, sFrames, sLog>>

SessionInit ==
  /\ sSrv = [st |-> "I", vals |-> [k \in Keys |-> Default], work |-> {}, saves |-> <<>>]
  /\ sCache = [k \in Keys |-> Absent]
  /\ sFrames = <<>> /\ sExc = "none"
  /\ sLog = [based |-> FALSE, stale |-> FALSE, written |-> 0, sets |-> 0]
SessionNext ==
  \/ StartXact \/ CommitCall \/ RollbackCall \/ ExitXact \/ ExitXactRaised
  \/ Query \/ Throw \/ Catch \/ SetItem \/ GetItem \/ DelItem
  \/ EnterSettings \/ ExitSettings \/ Reset \/ SessionLost
SessionSpec == SessionInit /\ [][SessionNext]_sessionVars

SessionTypeOK ==
  /\ sSrv.st \in {"I", "T", "E", "lost"} /\ sSrv.work \subseteq 1..MaxWork
  /\ sCache \in [Keys -> {Absent, 0, 1}]
  /\ Len(sFrames) <= MaxFrames /\ sExc \in {"none", "error", "base"}

LeavesBlock(kind) == sFrames # <<>> /\ Len(sFrames') < Len(sFrames) /\ Top.kind = kind

\* A with block of a transaction that nobody else has ended: left without an
\* exception it keeps every row written in it, left by an Exception none of them.
XactEnds ==
  ~Top.called => /\ sExc' = "none" => Top.items \subseteq sSrv'.work
                 /\ sExc' = "error" => Top.items \cap sSrv'.work = {}
\* A settings block gives the setting the value it had before, or an aborted
\* transaction around it will.
SettingsEnd == Top.trusted => sSrv'.vals[Top.key] = Top.pre \/ sSrv'.st \in {"E", "lost"}

\* A with block is atomic at any depth: left without an exception it keeps every
\* row written in it, also when the program swallowed the error that made the
\* server abort it; left by an Exception, or turned into one at its end, it leaves
\* no row behind.  A settings block restores its setting.
WithIsAtomic ==
  [][ /\ LeavesBlock("xact") => XactEnds
      /\ LeavesBlock("settings") => SettingsEnd ]_sessionVars

\* Outside every with block no transaction is left open, whatever was called and
\* failed inside; only an exception that is no Exception (KeyboardInterrupt)
\* leaves one.
NothingLeftOpen ==
  sFrames = <<>> /\ ~sLog.based => sSrv.st \in {"I", "lost"}

\* A reported setting is cached with the server's value after every command, the
\* rollbacks included; the others until a rollback or reset() changed one.
CacheHonest ==
  \A k \in Keys :
    sCache[k] # Absent /\ ~closed /\ (k \in Reported \/ ~sLog.stale) => sCache[k] = sSrv.vals[k]
=============================================================================
