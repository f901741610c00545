------------------------------ MODULE MCLocks ------------------------------
(***************************************************************************)
(* Two sessions and three ALocks over one identifier for TLC: nested acquisition   *)
(* against another session.                                                       *)
(***************************************************************************)
EXTENDS PqLocks

LockObject(n, session, mode) == [name |-> n, session |-> session, mode |-> mode, ids |-> <<1>>]
LockObjects == {LockObject("a", 1, "exclusive"), LockObject("b", 2, "exclusive"), LockObject("c", 2, "share")}
=============================================================================
