------------------------- MODULE AntiEntropyProofs -------------------------
(***************************************************************************)
(* Proofs about the StateSyncer model, for every set of pausers and every  *)
(* bound on their pauses: the pause refcount and chPaused stay in step     *)
(* with the outstanding Pause calls (so Resume's underflow panic is        *)
(* unreachable), and the periodic full sync timer is armed whenever Run    *)
(* waits in sync.                                                          *)
(***************************************************************************)
EXTENDS AntiEntropy, FiniteSetTheorems, TLAPS

\* The pausers whose Pause has not been matched by a Resume.
PausedSet == {p \in Pausers : ppc[p] = "paused"}

(* SyncFull runs only after fullSync has armed timerNextFullSync, so the  *)
(* timer is armed from the SyncFull call on, not only once Run waits in   *)
(* sync: AntiEntropyArmed alone is not inductive.                          *)
ArmedFromSyncFull == spc \in {"syncFull", "loop", "syncChanges"} => nextFullArmed

(* The inductive invariant: the type, the refcount and the armed timer.   *)
(* The bound paused <= Cardinality(Pausers) of TypeOK holds only because   *)
(* paused counts PausedSet, a subset of Pausers.                           *)
IInv == TypeOK /\ PauseRefcount /\ ArmedFromSyncFull

(* The pausers a pc function marks paused form a finite subset of Pausers, *)
(* so their number is bounded.                                             *)
LEMMA PausedSetBound ==
    ASSUME NEW f \in [Pausers -> {"idle", "paused", "trigger"}]
    PROVE  /\ IsFiniteSet({p \in Pausers : f[p] = "paused"})
           /\ Cardinality({p \in Pausers : f[p] = "paused"})
                \in 0..Cardinality(Pausers)
<1> DEFINE S == {p \in Pausers : f[p] = "paused"}
<1>1. S \in SUBSET Pausers
  OBVIOUS
<1>2. Cardinality(S) <= Cardinality(Pausers) /\ IsFiniteSet(S)
  BY <1>1, AEAssumptions, FS_Subset
<1>3. Cardinality(S) \in Nat
  BY <1>2, FS_CardinalityType
<1>4. Cardinality(Pausers) \in Nat
  BY AEAssumptions, FS_CardinalityType
<1>. QED  BY <1>2, <1>3, <1>4

(* Changing one pauser's pc to "paused" adds it to PausedSet, changing it  *)
(* from "paused" to something else removes it.                             *)
LEMMA PausedSetUpdate ==
    ASSUME NEW f \in [Pausers -> {"idle", "paused", "trigger"}],
           NEW p \in Pausers, NEW v \in {"idle", "paused", "trigger"}
    PROVE  {q \in Pausers : [f EXCEPT ![p] = v][q] = "paused"}
             = IF v = "paused" THEN {q \in Pausers : f[q] = "paused"} \cup {p}
                               ELSE {q \in Pausers : f[q] = "paused"} \ {p}
  OBVIOUS

-----------------------------------------------------------------------------
THEOREM InitIInv == Init => IInv
<1> SUFFICES ASSUME Init PROVE IInv
  OBVIOUS
<1>1. PausedSet = {}
  BY DEF Init, PausedSet
<1>2. paused = Cardinality(PausedSet)
  BY <1>1, FS_EmptySet DEF Init
<1>3. Cardinality(Pausers) \in Nat
  BY AEAssumptions, FS_CardinalityType
<1>4. npauses \in [Pausers -> 0..MaxPauses]
  BY AEAssumptions DEF Init
<1>5. paused \in 0..Cardinality(Pausers)
  BY <1>3 DEF Init
<1>6. TypeOK
  BY <1>4, <1>5 DEF Init, TypeOK, SyncerPcs
<1>7. PauseRefcount
  BY <1>2 DEF Init, PauseRefcount, PausedSet
<1>. QED
  BY <1>6, <1>7 DEF Init, IInv, ArmedFromSyncFull

(* The actions that leave the pause state alone.                           *)
LEMMA NoPauseChange ==
    ASSUME IInv,
           UNCHANGED <<paused, chPaused, ppc, npauses>>,
           spc' \in SyncerPcs,
           delayPos' \in BOOLEAN, nextFullArmed' \in BOOLEAN,
           fullTrig' \in BOOLEAN, changesTrig' \in BOOLEAN,
           shutdown' \in BOOLEAN, dirty' \in BOOLEAN, drift' \in BOOLEAN,
           spc' \in {"syncFull", "loop", "syncChanges"} => nextFullArmed'
    PROVE  IInv'
  BY DEF IInv, TypeOK, PauseRefcount, ArmedFromSyncFull

THEOREM NextIInv == IInv /\ [Next]_vars => IInv'
<1> SUFFICES ASSUME IInv, [Next]_vars PROVE IInv'
  OBVIOUS
<1>. USE DEF IInv, TypeOK, SyncerPcs
<1>1. CASE FullSyncZero
  BY <1>1, NoPauseChange DEF FullSyncZero
<1>2. CASE SyncFullOk
  BY <1>2, NoPauseChange DEF SyncFullOk, ArmedFromSyncFull
<1>3. CASE SyncFullFail
  BY <1>3, NoPauseChange DEF SyncFullFail
<1>4. CASE FullDelayElapsed
  BY <1>4, NoPauseChange DEF FullDelayElapsed
<1>5. CASE FullRetrigger
  BY <1>5, NoPauseChange DEF FullRetrigger
<1>6. CASE FullShutdown
  BY <1>6, NoPauseChange DEF FullShutdown
<1>7. CASE LoopFullTrig
  BY <1>7, NoPauseChange DEF LoopFullTrig
<1>8. CASE LoopTimer
  BY <1>8, NoPauseChange DEF LoopTimer
<1>9. CASE LoopChanges
  BY <1>9, NoPauseChange DEF LoopChanges, ArmedFromSyncFull
<1>10. CASE SyncChangesDone
  BY <1>10, NoPauseChange DEF SyncChangesDone, ArmedFromSyncFull
<1>11. CASE LoopShutdown
  BY <1>11, NoPauseChange DEF LoopShutdown
<1>12. ASSUME NEW p \in Pausers, Pause(p) PROVE IInv'
  <2>0. IsFiniteSet(PausedSet)
    BY PausedSetBound DEF PausedSet
  <2>1. PausedSet' = PausedSet \cup {p} /\ p \notin PausedSet
    BY <1>12, PausedSetUpdate DEF Pause, PausedSet
  <2>2. Cardinality(PausedSet') = Cardinality(PausedSet) + 1
    BY <2>0, <2>1, FS_AddElement
  <2>3. paused' = Cardinality(PausedSet')
    BY <1>12, <2>2 DEF Pause, PauseRefcount, PausedSet
  <2>4. ppc' \in [Pausers -> {"idle", "paused", "trigger"}]
    BY <1>12 DEF Pause
  <2>5. Cardinality(PausedSet') \in 0..Cardinality(Pausers)
    BY <2>4, PausedSetBound DEF PausedSet
  <2>6. paused' \in 0..Cardinality(Pausers) /\ paused' > 0
    BY <2>2, <2>3, <2>5, PausedSetBound DEF PausedSet
  <2>. QED
    BY <1>12, <2>3, <2>4, <2>6, AEAssumptions DEF Pause, PauseRefcount,
       PausedSet, ArmedFromSyncFull
<1>13. ASSUME NEW p \in Pausers, Resume(p) PROVE IInv'
  <2>0. IsFiniteSet(PausedSet)
    BY PausedSetBound DEF PausedSet
  <2>1. PausedSet' = PausedSet \ {p} /\ p \in PausedSet
    BY <1>13, PausedSetUpdate DEF Resume, PausedSet
  <2>2. Cardinality(PausedSet') = Cardinality(PausedSet) - 1
    BY <2>0, <2>1, FS_RemoveElement
  <2>3. paused' = Cardinality(PausedSet')
    BY <1>13, <2>2 DEF Resume, PauseRefcount, PausedSet
  <2>4. ppc' \in [Pausers -> {"idle", "paused", "trigger"}]
    BY <1>13 DEF Resume
  <2>5. paused' \in 0..Cardinality(Pausers)
    BY <2>3, <2>4, PausedSetBound DEF PausedSet
  <2>6. chPaused' <=> paused' > 0
    BY <1>13, <2>5 DEF Resume, PauseRefcount
  <2>. QED
    BY <1>13, <2>3, <2>4, <2>5, <2>6 DEF Resume, PauseRefcount, PausedSet,
       ArmedFromSyncFull
<1>14. ASSUME NEW p \in Pausers, ResumeTrigger(p) PROVE IInv'
  <2>1. PausedSet' = PausedSet
    BY <1>14, PausedSetUpdate DEF ResumeTrigger, PausedSet
  <2>. QED
    BY <1>14, <2>1 DEF ResumeTrigger, PauseRefcount, PausedSet,
       ArmedFromSyncFull
<1>15. CASE LocalChange
  BY <1>15, NoPauseChange DEF LocalChange, ArmedFromSyncFull
<1>16. CASE ServerJoined
  BY <1>16, NoPauseChange DEF ServerJoined, ArmedFromSyncFull
<1>17. CASE RemoteDrift
  BY <1>17, NoPauseChange DEF RemoteDrift, ArmedFromSyncFull
<1>18. CASE Shutdown
  BY <1>18, NoPauseChange DEF Shutdown, ArmedFromSyncFull
<1>19. CASE UNCHANGED vars
  BY <1>19, NoPauseChange DEF vars, ArmedFromSyncFull
<1>. QED
  BY <1>1, <1>2, <1>3, <1>4, <1>5, <1>6, <1>7, <1>8, <1>9, <1>10, <1>11,
     <1>12, <1>13, <1>14, <1>15, <1>16, <1>17, <1>18, <1>19 DEF Next

-----------------------------------------------------------------------------
(* The StateSyncer keeps every variable in its type; in particular paused  *)
(* never leaves 0..Cardinality(Pausers), so Resume never panics.           *)
THEOREM TypeCorrect == Spec => []TypeOK
<1>1. IInv => TypeOK
  BY DEF IInv
<1>. QED  BY <1>1, InitIInv, NextIInv, PTL DEF Spec

(* Pause and Resume keep the refcount equal to the outstanding Pause calls *)
(* and chPaused non-nil exactly while it is positive.                      *)
THEOREM PauseRefcountHolds == Spec => []PauseRefcount
<1>1. IInv => PauseRefcount
  BY DEF IInv
<1>. QED  BY <1>1, InitIInv, NextIInv, PTL DEF Spec

(* Whenever Run waits in sync or runs SyncChanges, timerNextFullSync is    *)
(* armed: fullSync arms it before any SyncFull and only the timer case    *)
(* of sync consumes it, re-entering fullSync.                              *)
THEOREM AntiEntropyArmedHolds == Spec => []AntiEntropyArmed
<1>1. IInv => AntiEntropyArmed
  BY DEF IInv, ArmedFromSyncFull, AntiEntropyArmed
<1>. QED  BY <1>1, InitIInv, NextIInv, PTL DEF Spec

=============================================================================
