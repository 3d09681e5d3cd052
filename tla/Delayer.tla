------------------------------ MODULE Delayer ------------------------------
(***************************************************************************)
(* The cluster-size delayer of agent/ae (ae.go): scaleFactor and Jitter.   *)
(* scaleFactor(nodes) is 1 up to scaleThreshold nodes and otherwise        *)
(* ceil(log2(nodes) - log2(scaleThreshold)) + 1.  That ceiling is the      *)
(* least k with nodes <= doubled[k], where doubled[k] is                   *)
(* scaleThreshold * 2^k: math.Log2 is exact on powers of two, and          *)
(* elsewhere log2(nodes) - 7 is not an integer, so the float expression    *)
(* and the integer one have the same ceiling.                              *)
(*                                                                         *)
(* The behaviour walks nodes = 0, 1, ..., MaxNodes so that TLC evaluates   *)
(* the properties at every cluster size up to the bound.                   *)
(***************************************************************************)
EXTENDS Naturals

CONSTANTS
    MaxNodes,      \* largest cluster size checked
    MaxDoublings   \* bound on the doublings above scaleThreshold

\* const scaleThreshold = 128
scaleThreshold == 128

\* scaleThreshold * 2^k: the cluster size after k doublings past the threshold.
doubled[k \in Nat] == IF k = 0 THEN scaleThreshold ELSE 2 * doubled[k - 1]

ASSUME DelayerAssumptions ==
    /\ MaxNodes \in Nat
    /\ MaxDoublings \in Nat
    /\ MaxNodes <= doubled[MaxDoublings]

\* A cluster of `nodes` fits within k doublings of the threshold.
FitsIn(nodes, k) == nodes <= doubled[k]

\* ceil(log2(nodes) - log2(scaleThreshold)) for nodes > scaleThreshold.
CeilLog2Excess(nodes) ==
    CHOOSE k \in 0..MaxDoublings :
        FitsIn(nodes, k) /\ \A j \in 0..(k - 1) : ~FitsIn(nodes, j)

(* Mutant of scaleFactor: the trailing + 1.0 of the log2 branch lost.    *)
scaleFactorNoOffset(nodes) ==
    IF nodes <= scaleThreshold THEN 1 ELSE CeilLog2Excess(nodes)

scaleFactor(nodes) ==
    IF nodes <= scaleThreshold THEN 1 ELSE CeilLog2Excess(nodes) + 1

(* lib.RandomStagger(intv): a uniform value in [0, intv), 0 when intv = 0. *)
RandomStagger(intv) == IF intv = 0 THEN {0} ELSE 0..(intv - 1)

(* delayer.Jitter: the possible results for a cluster of `nodes`.          *)
Jitter(nodes, delay) == RandomStagger(scaleFactor(nodes) * delay)

VARIABLE nodes

Init == nodes = 0

Next == nodes < MaxNodes /\ nodes' = nodes + 1

Spec == Init /\ [][Next]_nodes

=============================================================================
