----------------------------- MODULE MCBilling -----------------------------
(* Instances of Billing for TLC.                                           *)
EXTENDS Billing, TLC

CONSTANTS h1, h2, w1, w2

MCHosts == {h1, h2}
MCDbHosts == <<h1, h2>>
OneWorker == {w1}
TwoWorkers == {w1, w2}

\* The threads are interchangeable.
MCSymmetry == Permutations(TwoWorkers)

=============================================================================
