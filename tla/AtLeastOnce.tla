---------------------------- MODULE AtLeastOnce ----------------------------
(***************************************************************************)
(* What the billing test asks of the cluster and of its own retry loop:    *)
(* operations are claimed one by one, a claimed operation is applied for   *)
(* good at some point, and the books are closed only when enough           *)
(* operations were claimed and none of them is missing.                    *)
(***************************************************************************)
EXTENDS Integers

CONSTANT Operations

VARIABLES claimed, applied, closed

avars == <<claimed, applied, closed>>

AInit == claimed = 0 /\ applied = {} /\ closed = FALSE

Claim ==
    /\ ~closed
    /\ claimed' = claimed + 1
    /\ UNCHANGED <<applied, closed>>

\* One acknowledgement may vouch for several operations.
Apply ==
    /\ ~closed
    /\ applied' \in SUBSET (1 .. claimed)
    /\ applied \subseteq applied'
    /\ UNCHANGED <<claimed, closed>>

Close ==
    /\ claimed >= Operations
    /\ applied = 1 .. claimed
    /\ closed' = TRUE
    /\ UNCHANGED <<claimed, applied>>

ANext == Claim \/ Apply \/ Close

ASpec == AInit /\ [][ANext]_avars
=============================================================================
