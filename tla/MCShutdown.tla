---------------------------- MODULE MCShutdown ----------------------------
(* Instances of Shutdown for TLC.                                          *)
EXTENDS Shutdown, TLC

CONSTANTS w1, w2, h1, h2, p1, p2, p3

OneWorker == {w1}
TwoWorkers == {w1, w2}
OneHost == {h1}
TwoHosts == {h1, h2}
OnePid == {p1}
ThreePids == {p1, p2, p3}
MCSymmetry == Permutations(TwoWorkers) \cup Permutations(ThreePids)

=============================================================================
