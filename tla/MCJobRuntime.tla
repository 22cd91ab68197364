----------------------------- MODULE MCJobRuntime -----------------------------
(* Small instances of the runtime.                                          *)
EXTENDS JobRuntime, TLC

CONSTANTS w1, w2, l1, l2, l3, i1, i2, i3

OneWorker  == {w1}
TwoWorkers == {w1, w2}
OneLane    == {l1}
TwoLanes   == {l1, l2}
ThreeLanes == {l1, l2, l3}
LaneOfOne     == (l1 :> w1)
LanePerWorker == (l1 :> w1) @@ (l2 :> w2)
TwoAndOne     == (l1 :> w1) @@ (l2 :> w1) @@ (l3 :> w2)
MCSymmetry == Permutations(Ids)
=============================================================================
