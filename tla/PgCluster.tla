----------------------------- MODULE PgCluster -----------------------------
(***************************************************************************)
(* The PostgreSQL cluster as the billing test driver of                    *)
(* tools/pg_cluster_backend sees it: a set of servers of which one is the  *)
(* primary, the sessions clients hold on them, the row locks a session     *)
(* takes and the log of committed transfers, which the replicas replay.    *)
(*                                                                         *)
(* None of this is code of the repository.  It is the contract the driver  *)
(* relies on, read off the exceptions worker_func handles (deadlock,       *)
(* read-only transaction, cancelled query, shutdown, lost connection) and  *)
(* off the roles the playbooks install (Patroni, HAProxy).  The module     *)
(* declares the state and gives one operator per thing a client or the     *)
(* environment can do to it; module Billing supplies the client.           *)
(***************************************************************************)
EXTENDS Integers, Sequences, FiniteSets

CONSTANTS
    Hosts,       \* database servers
    Pids,        \* backend pids of one server: its max_connections
    Rows,        \* ids of table public.accounts
    FirstPrimary,\* the server that is primary at the start
    SyncMode,    \* Patroni synchronous_mode
    MaxFaults    \* bound on the faults injected in one behaviour

ASSUME HostsAssumption == FirstPrimary \in Hosts
ASSUME SyncModeAssumption == SyncMode \in BOOLEAN
ASSUME MaxFaultsAssumption == MaxFaults \in Nat

VARIABLES
    primary,     \* the server Patroni holds as leader (it may be down)
    up,          \* servers that accept connections
    replayed,    \* replayed[h]: length of the prefix of log that h holds
    log,         \* committed transfers, as <<operation, change of the sum>>
    acked,       \* every commit at or below this position was acknowledged
    sess,        \* sess[b]: server and socket state of backend b
    faults       \* faults injected so far

cvars == <<primary, up, replayed, log, acked, sess, faults>>

Backends == Hosts \X Pids

(* "block" is an open transaction block, "failed" one that an error has     *)
(* aborted, "commit" one whose COMMIT is on its way, "committed" one whose  *)
(* acknowledgement is on its way.  A server that went away leaves the       *)
(* client end of its sessions "fatal" (a FATAL message is waiting to be     *)
(* read) or "reset" (the socket is dead).  The link is "cut" when the       *)
(* network lost it and the server does not know, "left" when the client has *)
(* let go of the session without closing it, "dropped" when both happened.  *)
SessionStates ==
    {"free", "idle", "block", "failed", "commit", "committed", "fatal", "reset"}
Live == {"idle", "block", "failed", "commit", "committed"}

Session ==
    [st : SessionStates, link : {"up", "cut", "left", "dropped"},
     rows : SUBSET Rows, delta : Int, op : Nat, pos : Nat]

FreeSession ==
    [st |-> "free", link |-> "up", rows |-> {}, delta |-> 0, op |-> 0, pos |-> 0]

ClusterInit ==
    /\ primary = FirstPrimary
    /\ up = Hosts
    /\ replayed = [h \in Hosts |-> 0]
    /\ log = << >>
    /\ acked = 0
    /\ sess = [b \in Backends |-> FreeSession]
    /\ faults = 0

-----------------------------------------------------------------------------
(* What a client reads.  *)

Writable(h) == h = primary /\ h \in up

\* The length of the committed history a query on h sees.
Visible(h) == IF h = primary THEN Len(log) ELSE replayed[h]

Healthy(b) == sess[b].st \in Live /\ sess[b].link = "up"

\* Server and client process both hold the session, used or not.
Connected(b) == sess[b].st \in Live /\ sess[b].link \in {"up", "left"}

Holder(r) == {b \in Backends : r \in sess[b].rows}

-----------------------------------------------------------------------------
(* What a client does.  Each operator determines sess' (and log', acked'). *)

Accept(b) ==
    /\ b[1] \in up
    /\ sess[b].st = "free"
    /\ sess' = [sess EXCEPT ![b].st = "idle"]

Begin(b) == sess' = [sess EXCEPT ![b].st = "block"]

LockRow(b, r) ==
    /\ Holder(r) = {}
    /\ sess' = [sess EXCEPT ![b].rows = @ \cup {r}]

Change(b, amount) == sess' = [sess EXCEPT ![b].delta = @ + amount]

\* An ERROR aborts the transaction: its locks and its changes are gone, the
\* block stays open until the client ends it.
Abort(b) ==
    sess' = [sess EXCEPT ![b] = [FreeSession EXCEPT !.st = "failed"]]

EndBlock(b) ==
    sess' = [sess EXCEPT ![b] = [FreeSession EXCEPT !.st = "idle"]]

SendCommit(b, op) ==
    sess' = [sess EXCEPT ![b].st = "commit", ![b].op = op]

\* The acknowledgement of a COMMIT reaches the client.  With synchronous_mode
\* the primary sends it once a standby has the commit, or when none is up.
Acknowledge(b) ==
    /\ sess[b].st = "committed"
    /\ SyncMode => LET standbys == up \ {primary}
                   IN  standbys # {} =>
                         \E h \in standbys : replayed[h] >= sess[b].pos
    /\ acked' = IF sess[b].pos > acked THEN sess[b].pos ELSE acked
    /\ EndBlock(b)

\* The client closes a session: a server the socket does not reach any more
\* learns of it later.
Disconnect(b) ==
    sess' = [sess EXCEPT ![b] = IF @.st \in Live /\ @.link = "cut"
                                THEN [@ EXCEPT !.link = "dropped"]
                                ELSE FreeSession]

\* The client lets go of a session without closing it: one that is healthy
\* stays open, something else still refers to its socket.
Forget(b) ==
    IF Healthy(b) THEN sess' = [sess EXCEPT ![b].link = "left"] ELSE Disconnect(b)

-----------------------------------------------------------------------------
(* What the servers and the environment do on their own. *)

ServerCommit(b) ==
    /\ sess[b].st = "commit"
    /\ Writable(b[1])
    /\ log' = Append(log, <<sess[b].op, sess[b].delta>>)
    /\ sess' = [sess EXCEPT ![b] =
                  [@ EXCEPT !.st = "committed", !.pos = Len(log) + 1]]
    /\ UNCHANGED <<primary, up, replayed, acked, faults>>

\* What is left of a session its server has ended: the end the client holds.
ClientEnd(b, how) ==
    IF sess[b].link \in {"dropped", "left"} THEN FreeSession
    ELSE [FreeSession EXCEPT !.st = IF sess[b].link = "cut" THEN "reset" ELSE how]

\* A server notices that the client of a session is gone.
Reap(b) ==
    /\ sess[b].st \in Live
    /\ sess[b].link \in {"cut", "dropped"}
    /\ sess' = [sess EXCEPT ![b] = ClientEnd(b, "reset")]
    /\ UNCHANGED <<primary, up, replayed, log, acked, faults>>

Replay(h) ==
    /\ h # primary
    /\ {h, primary} \subseteq up
    /\ replayed[h] < Len(log)
    /\ replayed' = [replayed EXCEPT ![h] = @ + 1]
    /\ UNCHANGED <<primary, up, log, acked, sess, faults>>

\* Every session of h ends; an unacknowledged commit may be in the log or not.
EndSessions(h, how) ==
    sess' = [b \in Backends |->
               IF b[1] = h /\ sess[b].st \in Live
               THEN ClientEnd(b, how) ELSE sess[b]]

Fault == faults < MaxFaults /\ faults' = faults + 1

\* The network drops one client connection.
Cut(b) ==
    /\ Fault
    /\ Connected(b)
    /\ sess' = [sess EXCEPT ![b].link = IF @ = "up" THEN "cut" ELSE "dropped"]
    /\ UNCHANGED <<primary, up, replayed, log, acked>>

\* A planned switchover: the new primary has replayed everything, the old one
\* restarts as a replica.
Switchover(h) ==
    /\ Fault
    /\ h # primary
    /\ {h, primary} \subseteq up
    /\ replayed[h] = Len(log)
    /\ primary' = h
    /\ replayed' = [replayed EXCEPT ![primary] = Len(log)]
    /\ EndSessions(primary, "fatal")
    /\ UNCHANGED <<up, log, acked>>

Crash(h) ==
    /\ Fault
    /\ h \in up
    /\ up' = up \ {h}
    /\ EndSessions(h, "reset")
    /\ UNCHANGED <<primary, replayed, log, acked>>

\* The leader key of a crashed primary expires and a replica is promoted.  What
\* it has not replayed is lost; with synchronous_mode only a replica that
\* holds every acknowledged commit may be promoted.
Failover(h) ==
    /\ primary \notin up
    /\ h \in up
    /\ SyncMode => replayed[h] >= acked
    /\ primary' = h
    /\ log' = SubSeq(log, 1, replayed[h])
    /\ acked' = IF acked > replayed[h] THEN replayed[h] ELSE acked
    /\ replayed' = [g \in Hosts |->
                      IF g = primary \/ replayed[g] > replayed[h]
                      THEN replayed[h] ELSE replayed[g]]
    /\ UNCHANGED <<up, sess, faults>>

\* A crashed server comes back, as the primary it still is or as a replica.
Restart(h) ==
    /\ h \notin up
    /\ up' = up \cup {h}
    /\ UNCHANGED <<primary, replayed, log, acked, sess, faults>>

ClusterNext ==
    \/ \E b \in Backends : ServerCommit(b) \/ Reap(b) \/ Cut(b)
    \/ \E h \in Hosts :
         Replay(h) \/ Switchover(h) \/ Crash(h) \/ Failover(h) \/ Restart(h)

-----------------------------------------------------------------------------
ClusterTypeOK ==
    /\ primary \in Hosts
    /\ up \subseteq Hosts
    /\ replayed \in [Hosts -> Nat]
    /\ log \in Seq(Nat \X Int)
    /\ acked \in Nat
    /\ sess \in [Backends -> Session]
    /\ faults \in 0 .. MaxFaults

=============================================================================
