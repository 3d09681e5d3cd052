--------------------------- MODULE DelayerProofs ---------------------------
(***************************************************************************)
(* Proofs about the cluster-size delayer of ae.go.  doubled[k] is the      *)
(* threshold doubled k times, CeilLog2Excess picks the least k a cluster   *)
(* fits in, and from these scaleFactor is one more than at half the       *)
(* cluster (ScaleHalvingAt) and equals the reference refScale of           *)
(* MC_Delayer at every cluster size                                        *)
(* the constants allow.                                                    *)
(*                                                                         *)
(* The induction theorems of NaturalsInduction take an operator parameter  *)
(* the provers cannot instantiate, so facts "for every k" are proved from  *)
(* a least counterexample instead: WFMin on the well-founded < of Nat.     *)
(***************************************************************************)
EXTENDS MC_Delayer, WellFoundedInduction, TLAPS

(* Least-number principle: a non-empty set of naturals has a least        *)
(* element.                                                               *)
LEMMA NatLeast ==
  ASSUME NEW T \in SUBSET Nat, T # {}
  PROVE  \E x \in T : \A y \in T : x <= y
<1> DEFINE R == OpToRel(<, Nat)
<1>1. PICK x \in T : \A y \in T : ~(<<y, x>> \in R)
  BY NatLessThanWellFounded, WFMin DEF R
<1>2. \A y \in T : y < x => <<y, x>> \in R
  BY Zenon DEF R, OpToRel
<1>3. \A y \in T : ~(y < x)
  BY <1>1, <1>2, Zenon
<1>4. \A y \in T : x <= y
  BY <1>3
<1>5. QED
  BY <1>4

\* The step of the recursion that defines doubled.
DoubleStep(v, k) == 2 * v

(* doubled is the function that primitive recursion from scaleThreshold  *)
(* by DoubleStep defines.                                                 *)
LEMMA DoubledDef == NatInductiveDefConclusion(doubled, scaleThreshold, DoubleStep)
<1>1. NatInductiveDefHypothesis(doubled, scaleThreshold, DoubleStep)
  BY DEF NatInductiveDefHypothesis, doubled, DoubleStep
<1>2. QED
  BY <1>1, NatInductiveDef

(* The recursion equations of doubled.                                    *)
LEMMA DoubledRec ==
  /\ doubled[0] = scaleThreshold
  /\ \A k \in Nat \ {0} : doubled[k] = 2 * doubled[k - 1]
BY DoubledDef DEF NatInductiveDefConclusion, DoubleStep

(* Every doubled size is a natural number: a least k where it is not     *)
(* cannot be 0, and the size before it is a natural number.               *)
LEMMA DoubledNat == \A k \in Nat : doubled[k] \in Nat
<1> DEFINE Bad == {k \in Nat : doubled[k] \notin Nat}
<1>1. SUFFICES ASSUME Bad # {} PROVE FALSE
  BY DEF Bad
<1>2. PICK x \in Bad : \A y \in Bad : x <= y
  BY <1>1, NatLeast
<1>3. x # 0
  BY <1>2, DoubledRec DEF scaleThreshold, Bad
<1>4. x - 1 \notin Bad
  BY <1>2, <1>3 DEF Bad
<1>5. QED
  BY <1>2, <1>3, <1>4, DoubledRec DEF Bad

(* A cluster fits in j + 1 doublings exactly when half of it, rounded up, *)
(* fits in j: n <= 2c iff (n + 1) \div 2 <= c.                            *)
LEMMA HalfFits ==
  ASSUME NEW n \in Nat, NEW j \in Nat
  PROVE  FitsIn(n, j + 1) <=> FitsIn((n + 1) \div 2, j)
<1>1. doubled[j + 1] = 2 * doubled[j] /\ doubled[j] \in Nat
  BY DoubledRec, DoubledNat
<1>2. QED
  BY <1>1 DEF FitsIn

\* k is the least number of doublings a cluster of n nodes fits in.
IsLeastFit(n, k) ==
  /\ k \in 0..MaxDoublings
  /\ FitsIn(n, k)
  /\ \A j \in 0..(k - 1) : ~FitsIn(n, j)

(* Every cluster of at most MaxNodes nodes has a least fitting number of  *)
(* doublings: MaxDoublings fits by DelayerAssumptions.                    *)
LEMMA LeastFitExists ==
  ASSUME NEW n \in 0..MaxNodes
  PROVE  \E k \in Nat : IsLeastFit(n, k)
<1> DEFINE T == {k \in 0..MaxDoublings : FitsIn(n, k)}
<1>1. T \in SUBSET Nat /\ T # {}
  <2>1. doubled[MaxDoublings] \in Nat
    BY DelayerAssumptions, DoubledNat
  <2>2. FitsIn(n, MaxDoublings)
    BY <2>1, DelayerAssumptions DEF FitsIn
  <2>3. QED
    BY <2>2, DelayerAssumptions DEF T
<1>2. PICK x \in T : \A y \in T : x <= y
  BY <1>1, NatLeast
<1>3. \A j \in 0..(x - 1) : ~FitsIn(n, j)
  BY <1>2, DelayerAssumptions DEF T
<1>4. QED
  BY <1>2, <1>3 DEF IsLeastFit, T

(* CeilLog2Excess returns the least fitting number of doublings.          *)
LEMMA CeilLog2ExcessLeast ==
  ASSUME NEW n \in 0..MaxNodes, NEW k, IsLeastFit(n, k)
  PROVE  CeilLog2Excess(n) = k
<1>1. \A i, j : IsLeastFit(n, i) /\ IsLeastFit(n, j) => i = j
  BY DEF IsLeastFit
<1>2. IsLeastFit(n, CeilLog2Excess(n))
  BY LeastFitExists DEF IsLeastFit, CeilLog2Excess
<1>3. QED
  BY <1>1, <1>2

(* The halving rule at one cluster size n above the threshold: if k is   *)
(* the least number of doublings n fits in, half of n fits in k - 1 of    *)
(* them and in none fewer, so its factor is one less.                     *)
LEMMA ScaleHalvingAt ==
  ASSUME NEW n \in 0..MaxNodes, n > scaleThreshold
  PROVE  scaleFactor(n) = 1 + scaleFactor((n + 1) \div 2)
<1> DEFINE m == (n + 1) \div 2
<1>1. PICK k \in Nat : IsLeastFit(n, k)
  BY LeastFitExists
<1>2. k >= 1
  BY <1>1, DoubledRec DEF IsLeastFit, FitsIn, scaleThreshold
<1>3. scaleFactor(n) = k + 1
  <2>1. CeilLog2Excess(n) = k
    BY <1>1, CeilLog2ExcessLeast
  <2>2. QED
    BY <2>1 DEF scaleFactor, scaleThreshold
<1>4. m \in 0..MaxNodes /\ m \in Nat
  BY DelayerAssumptions DEF scaleThreshold
<1>5. FitsIn(m, k - 1)
  BY <1>1, <1>2, HalfFits DEF IsLeastFit
<1>6. \A j \in 0..((k - 1) - 1) : ~FitsIn(m, j)
  <2>1. SUFFICES ASSUME NEW j \in 0..((k - 1) - 1) PROVE ~FitsIn(m, j)
    OBVIOUS
  <2>2. ~FitsIn(n, j + 1)
    BY <1>1, <1>2 DEF IsLeastFit
  <2>3. QED
    BY <2>2, HalfFits
<1>7. CASE m <= scaleThreshold
  <2>1. FitsIn(m, 0)
    BY <1>7, DoubledRec DEF FitsIn
  <2>2. k = 1
    BY <1>2, <1>6, <2>1
  <2>3. QED
    BY <1>3, <1>7, <2>2 DEF scaleFactor, m
<1>8. CASE m > scaleThreshold
  <2>1. k - 1 \in 0..MaxDoublings
    BY <1>1, <1>2, DelayerAssumptions DEF IsLeastFit
  <2>2. IsLeastFit(m, k - 1)
    BY <2>1, <1>5, <1>6 DEF IsLeastFit
  <2>3. CeilLog2Excess(m) = k - 1
    BY <1>4, <2>2, CeilLog2ExcessLeast
  <2>4. scaleFactor(m) = k
    BY <1>8, <2>3 DEF scaleFactor, scaleThreshold
  <2>5. QED
    BY <1>3, <2>4 DEF m
<1>9. QED
  BY <1>7, <1>8 DEF scaleThreshold

-----------------------------------------------------------------------------
\* The walk over cluster sizes stays within 0..MaxNodes.
NodesBound == nodes \in 0..MaxNodes

-----------------------------------------------------------------------------
(***************************************************************************)
(* The reference scale of MC_Delayer.  Its recursion is well-founded: above *)
(* scaleThreshold the argument (n + 1) \div 2 is smaller than n.            *)
(***************************************************************************)
\* The body of the recursion that defines refScale.
RefDef(g, n) == IF n <= scaleThreshold THEN 1 ELSE 1 + g[(n + 1) \div 2]

(* refScale is the function that well-founded recursion on < by RefDef     *)
(* defines.                                                                *)
LEMMA RefScaleDef == WFInductiveDefines(refScale, Nat, RefDef)
<1> DEFINE R == OpToRel(<, Nat)
<1>1. IsWellFoundedOn(R, Nat)
  BY NatLessThanWellFounded DEF R
<1>2. WFDefOn(R, Nat, RefDef)
  <2>1. SUFFICES ASSUME NEW g, NEW h, NEW x \in Nat,
                        \A y \in SetLessThan(x, R, Nat) : g[y] = h[y]
                 PROVE  RefDef(g, x) = RefDef(h, x)
    BY DEF WFDefOn
  <2>2. CASE x <= scaleThreshold
    BY <2>2 DEF RefDef
  <2>3. CASE ~(x <= scaleThreshold)
    <3>1. (x + 1) \div 2 \in Nat /\ (x + 1) \div 2 < x
      BY <2>3 DEF scaleThreshold
    <3>2. (x + 1) \div 2 \in SetLessThan(x, R, Nat)
      BY <3>1, Zenon DEF SetLessThan, R, OpToRel
    <3>3. QED
      BY <2>1, <2>3, <3>2 DEF RefDef
  <2>4. QED
    BY <2>2, <2>3
<1>3. OpDefinesFcn(refScale, Nat, RefDef)
  BY DEF OpDefinesFcn, refScale, RefDef
<1>4. QED
  BY <1>1, <1>2, <1>3, WFInductiveDef

(* The recursion equation of refScale.                                     *)
LEMMA RefScaleRec ==
  ASSUME NEW n \in Nat
  PROVE  refScale[n] = IF n <= scaleThreshold THEN 1
                       ELSE 1 + refScale[(n + 1) \div 2]
  BY RefScaleDef DEF WFInductiveDefines, RefDef

(* scaleFactor and the reference agree at every size up to MaxNodes: at a  *)
(* least size where they differ, both are 1 up to the threshold, and above *)
(* it both are one more than at half the size, where they agree.           *)
LEMMA ScaleMatchesAt ==
  ASSUME NEW n \in 0..MaxNodes
  PROVE  scaleFactor(n) = refScale[n]
<1> DEFINE Bad == {k \in 0..MaxNodes : scaleFactor(k) # refScale[k]}
<1>1. SUFFICES ASSUME Bad # {} PROVE FALSE
  BY DEF Bad
<1>2. PICK x \in Bad : \A y \in Bad : x <= y
  <2>1. Bad \in SUBSET Nat
    BY DelayerAssumptions DEF Bad
  <2>2. QED
    BY <1>1, <2>1, NatLeast
<1>3. CASE x <= scaleThreshold
  <2>1. scaleFactor(x) = 1 /\ refScale[x] = 1
    BY <1>3, RefScaleRec DEF scaleFactor
  <2>2. QED
    BY <1>2, <2>1 DEF Bad
<1>4. CASE ~(x <= scaleThreshold)
  <2> DEFINE m == (x + 1) \div 2
  <2>1. m \in 0..MaxNodes /\ m < x
    BY <1>4, DelayerAssumptions DEF Bad, scaleThreshold
  <2>2. scaleFactor(m) = refScale[m]
    BY <1>2, <2>1 DEF Bad
  <2>3. scaleFactor(x) = 1 + scaleFactor(m)
    BY <1>4, ScaleHalvingAt DEF Bad, scaleThreshold
  <2>4. refScale[x] = 1 + refScale[m]
    BY <1>4, RefScaleRec, DelayerAssumptions DEF Bad
  <2>5. QED
    BY <1>2, <2>2, <2>3, <2>4 DEF Bad
<1>5. QED
  BY <1>3, <1>4

(* scaleFactor's float expression ceil(log2(n) - 7) + 1 of ae.go computes  *)
(* the halving recursion of the reference at every cluster size up to      *)
(* MaxNodes: the factor grows by one (it does not double) each time the    *)
(* cluster doubles past scaleThreshold, whatever MaxNodes and MaxDoublings *)
(* satisfy DelayerAssumptions.                                             *)
THEOREM ScaleMatchesReferenceHolds == Spec => []ScaleMatchesReference
<1>1. Init => NodesBound
  BY DelayerAssumptions DEF Init, NodesBound
<1>2. NodesBound /\ [Next]_nodes => NodesBound'
  BY DelayerAssumptions DEF Next, NodesBound
<1>3. NodesBound => ScaleMatchesReference
  BY ScaleMatchesAt DEF NodesBound, ScaleMatchesReference
<1>4. QED
  BY <1>1, <1>2, <1>3, PTL DEF Spec

=============================================================================
