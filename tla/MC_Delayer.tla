---------------------------- MODULE MC_Delayer ----------------------------
(* Cluster sizes up to 10000 nodes; 7 doublings reach 16384.              *)
EXTENDS Delayer

(***************************************************************************)
(* Reference definition: one more doubling for every halving (rounded up)  *)
(* that the cluster needs to fall to scaleThreshold.  Written as a         *)
(* function over Nat so that the proofs can reason about it.               *)
(***************************************************************************)
refScale[n \in Nat] ==
    IF n <= scaleThreshold THEN 1 ELSE 1 + refScale[(n + 1) \div 2]

(***************************************************************************)
(* scaleFactor of ae.go computes the log2 rule at every cluster size: the  *)
(* factor grows by one (it does not double, as ae.go's comment says) each  *)
(* time the cluster doubles past scaleThreshold: the float expression of   *)
(* scaleFactor against the halving recursion.                              *)
(***************************************************************************)
ScaleMatchesReference == scaleFactor(nodes) = refScale[nodes]
=============================================================================
