------------------------------- MODULE PqLocks -------------------------------
(***************************************************************************)
(* Advisory locks (alock.py): every ALock counts its acquisitions and stands *)
(* for a sequence of identifiers locked in one mode by its session.  The       *)
(* statements of lib/libsys.sql lock one identifier after another, while other  *)
(* sessions do the same; the server's lock table is external.                    *)
(***************************************************************************)
EXTENDS Integers, Sequences, FiniteSets

CONSTANTS
  ALocks,    \* ALock objects: records of a name, a session, a mode and identifiers
  MaxCount,  \* bound: nested acquisitions of one ALock
  MaxErrors  \* bound: statements that end with an error

ASSUME LockBounds ==
  /\ \A l \in ALocks : l.mode \in {"share", "exclusive"} /\ l.ids \in Seq(Nat)
  /\ MaxCount \in Nat \ {0} /\ MaxErrors \in Nat

VARIABLES
  lCount,   \* ALock._count
  lCall,    \* what each session's thread is executing
  lHeld,    \* the server's lock table: session, mode and identifier to a number
  lClosed,  \* closed connections
  lLog      \* what excuses the properties

lockVars == <<lCount, lCall, lHeld, lClosed, lLog>>

LockSessions == {l.session : l \in ALocks}
LockIds == UNION {{l.ids[i] : i \in DOMAIN l.ids} : l \in ALocks}
NoCall == [op |-> "none"]
Holds(s, id) == lHeld[s]["exclusive"][id] > 0 \/ lHeld[s]["share"][id] > 0
\* Another session's lock that is in the way.
Conflict(s, mode, id) ==
  \E o \in LockSessions \ {s} :
    lHeld[o]["exclusive"][id] > 0 \/ (mode = "exclusive" /\ lHeld[o]["share"][id] > 0)
Granted(held, l, id) == [held EXCEPT ![l.session][l.mode][id] = @ + 1]
\* The identifiers at these places, released one after another; releasing what
\* is not held is only a warning.
UnlockAll(l, places) ==
  LET times(id) == Cardinality({i \in places : l.ids[i] = id})
      left(n, k) == IF n > k THEN n - k ELSE 0
  IN [lHeld EXCEPT ![l.session][l.mode] = [id \in LockIds |-> left(@[id], times(id))]]
Calls(l, c) == lCall' = [lCall EXCEPT ![l.session] = c]
Free(l) == lCall[l.session] = NoCall

\* acquire() of an ALock that is held only counts.
Reacquire(l) ==
  /\ Free(l) /\ lCount[l] \in 1..(MaxCount - 1)
  /\ lCount' = [lCount EXCEPT ![l] = @ + 1]
  /\ UNCHANGED <<lCall, lHeld, lClosed, lLog>>
\* acquire(): the statement that waits for every identifier, or tries each.
Acquire(l) ==
  /\ Free(l) /\ lCount[l] = 0 /\ l.session \notin lClosed
  /\ \E op \in {"acquire", "try"} : Calls(l, [op |-> op, lock |-> l, at |-> 1, got |-> {}])
  /\ UNCHANGED <<lCount, lHeld, lClosed, lLog>>

\* The next identifier of the statement; the places that were locked are kept.
LockNext(l) ==
  LET c == lCall[l.session]
  IN /\ c # NoCall /\ c.lock = l /\ c.at <= Len(l.ids)
     /\ LET id   == l.ids[c.at]
            busy == Conflict(l.session, l.mode, id)
        IN /\ c.op = "acquire" => ~busy
           /\ c.op \in {"acquire", "try"}
           /\ lHeld' = IF busy THEN lHeld ELSE Granted(lHeld, l, id)
           /\ Calls(l, [c EXCEPT !.at = @ + 1, !.got = IF busy THEN @ ELSE @ \cup {c.at}])
  /\ UNCHANGED <<lCount, lClosed, lLog>>
\* A deadlock or a cancel ends the statement with an error; locks it has taken
\* stay with the session.
LockError(l) ==
  LET c == lCall[l.session]
  IN /\ c # NoCall /\ c.lock = l /\ c.op = "acquire" /\ c.at <= Len(l.ids)
     /\ Conflict(l.session, l.mode, l.ids[c.at])
     /\ Len(lLog.errors) < MaxErrors
     /\ lLog' = [lLog EXCEPT !.errors = Append(@, l.session)]
     /\ Calls(l, NoCall)
  /\ UNCHANGED <<lCount, lHeld, lClosed>>

\* The statement has ended: the count, or the release of what a failed try took.
Undone_none(got) == {}
Undone(got) == got
Acquired(l) ==
  LET c == lCall[l.session]
  IN /\ c # NoCall /\ c.lock = l /\ c.at > Len(l.ids)
     /\ Calls(l, NoCall)
     /\ IF c.got = DOMAIN l.ids
        THEN lCount' = [lCount EXCEPT ![l] = @ + 1] /\ UNCHANGED lHeld
        ELSE lHeld' = UnlockAll(l, Undone(c.got)) /\ UNCHANGED lCount
  /\ UNCHANGED <<lClosed, lLog>>

\* release(): the statement whatever the count, then the count.
Release(l) ==
  /\ Free(l) /\ lCount[l] > 0
  /\ lHeld' = IF l.session \in lClosed THEN lHeld ELSE UnlockAll(l, DOMAIN l.ids)
  /\ lCount' = [lCount EXCEPT ![l] = @ - 1]
  /\ lLog' = [lLog EXCEPT !.nested = @ \/ (lCount[l] > 1 /\ l.session \notin lClosed)]
  /\ UNCHANGED <<lCall, lClosed>>

CloseSession(s) ==
  /\ s \notin lClosed /\ lCall[s] = NoCall
  /\ lClosed' = lClosed \cup {s}
  /\ lHeld' = [lHeld EXCEPT ![s] = [m \in {"share", "exclusive"} |-> [i \in LockIds |-> 0]]]
  /\ UNCHANGED <<lCount, lCall, lLog>>

LocksInit ==
  /\ lCount = [l \in ALocks |-> 0]
  /\ lCall = [s \in LockSessions |-> NoCall]
  /\ lHeld = [s \in LockSessions |-> [m \in {"share", "exclusive"} |-> [i \in LockIds |-> 0]]]
  /\ lClosed = {}
  /\ lLog = [errors |-> <<>>, nested |-> FALSE]
LocksNext ==
  \/ \E l \in ALocks : \/ Reacquire(l) \/ Acquire(l) \/ LockNext(l) \/ LockError(l)
                       \/ Acquired(l) \/ Release(l)
  \/ \E s \in LockSessions : CloseSession(s)
LocksSpec == LocksInit /\ [][LocksNext]_lockVars

LocksTypeOK ==
  /\ lCount \in [ALocks -> 0..MaxCount] /\ lClosed \subseteq LockSessions
  /\ \A s \in LockSessions : lCall[s] # NoCall => lCall[s].op \in {"acquire", "try"}

Locked(l) == lCount[l] > 0 /\ l.session \notin lClosed
Exclusion ==
  \A k, l \in {a \in ALocks : Locked(a)} :
    /\ k.session # l.session
    /\ \E i \in DOMAIN k.ids, j \in DOMAIN l.ids : k.ids[i] = l.ids[j]
    => k.mode = "share" /\ l.mode = "share"

\* Until a nested ALock is released, two sessions never both hold ALocks that
\* exclude each other; and when nothing on a session is held or being acquired,
\* the server holds nothing for it, after any failed attempts, unless a statement
\* ended with an error (ALock.acquire and release).
LocksMatchCounts ==
  /\ ~lLog.nested => Exclusion
  /\ \A s \in LockSessions \ {lLog.errors[i] : i \in DOMAIN lLog.errors} :
       lCall[s] = NoCall /\ (\A l \in ALocks : l.session = s => lCount[l] = 0)
         => \A id \in LockIds : ~Holds(s, id)

\* "They can be acquired multiple times, and they must be released the same
\* number of times for the lock to actually be released" (the docstring of ALock):
\* two sessions are never both told locked() of ALocks that exclude each other.
LockedExcludes == Exclusion
=============================================================================
