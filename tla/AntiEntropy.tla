---------------------------- MODULE AntiEntropy ----------------------------
(***************************************************************************)
(* The anti-entropy StateSyncer of agent/ae (ae.go): Run, sync, fullSync   *)
(* with its delay/retry loop and periodic timer, Pause/Resume with the     *)
(* paused refcount and chPaused, and the SyncFull/SyncChanges triggers.    *)
(*                                                                         *)
(* Durations are abstracted to whether a delay is zero: Jitter(x) returns  *)
(* a value in [0, scale*x), so Jitter(serverUpInterval) may be zero while  *)
(* retryFailInterval + Jitter(..) and Interval + Jitter(..) are positive.  *)
(* The synchronised SyncState is abstracted to two flags: local changes    *)
(* not yet pushed (SyncChanges or SyncFull push them) and remote drift     *)
(* (only SyncFull, which reads the remote state, repairs it).              *)
(***************************************************************************)
EXTENDS Naturals, FiniteSets

CONSTANTS
    Pausers,    \* goroutines that call Pause and then Resume (agent reload)
    MaxPauses   \* bound on the Pause/Resume pairs of each of them

ASSUME AEAssumptions ==
    /\ Pausers # {}
    /\ IsFiniteSet(Pausers)
    /\ MaxPauses \in Nat

VARIABLES
    spc,           \* where the Run goroutine is (see below)
    delayPos,      \* the delay of fullSync is > 0
    nextFullArmed, \* timerNextFullSync will deliver
    fullTrig,      \* a value is buffered in the SyncFull Trigger
    changesTrig,   \* a value is buffered in the SyncChanges Trigger
    shutdown,      \* ShutdownCh is closed
    paused,        \* s.paused
    chPaused,      \* s.chPaused # nil
    ppc,           \* where each pauser is
    npauses,       \* Pause calls each pauser has made
    dirty,         \* local state has changes not yet synced
    drift          \* the remote catalog differs from the local state

vars == <<spc, delayPos, nextFullArmed, fullTrig, changesTrig, shutdown,
          paused, chPaused, ppc, npauses, dirty, drift>>

(* spc: "full" at the top of the fullSync loop, "syncFull" inside          *)
(* State.SyncFull, "loop" in the select of sync, "syncChanges" inside      *)
(* State.SyncChanges, "stopped" once Run has returned.                     *)
SyncerPcs == {"full", "syncFull", "loop", "syncChanges", "stopped"}

(* isPaused *)
isPaused == paused # 0

(* Run starts with fullSync(0); timerNextFullSync is still nil.            *)
Init ==
    /\ spc = "full"
    /\ delayPos = FALSE
    /\ nextFullArmed = FALSE
    /\ fullTrig = FALSE
    /\ changesTrig = FALSE
    /\ shutdown = FALSE
    /\ paused = 0
    /\ chPaused = FALSE
    /\ ppc = [p \in Pausers |-> "idle"]
    /\ npauses = [p \in Pausers |-> 0]
    /\ dirty = FALSE
    /\ drift = FALSE

-----------------------------------------------------------------------------
(* Mutants of FullSyncZero: timerNextFullSync set only on the paused path, *)
(* or never re-armed after the first run.                                  *)
FullSyncZeroArmOnlyPaused ==
    /\ spc = "full"
    /\ ~delayPos
    /\ IF isPaused
       THEN /\ delayPos' = TRUE
            /\ nextFullArmed' = TRUE
            /\ UNCHANGED spc
       ELSE /\ spc' = "syncFull"
            /\ UNCHANGED <<delayPos, nextFullArmed>>
    /\ UNCHANGED <<fullTrig, changesTrig, shutdown, paused, chPaused, ppc,
                   npauses, dirty, drift>>

FullSyncZeroNoRearm ==
    /\ spc = "full"
    /\ ~delayPos
    /\ IF isPaused
       THEN /\ delayPos' = TRUE
            /\ UNCHANGED spc
       ELSE /\ spc' = "syncFull"
            /\ UNCHANGED delayPos
    /\ UNCHANGED <<nextFullArmed, fullTrig, changesTrig, shutdown, paused,
                   chPaused, ppc, npauses, dirty, drift>>

(* fullSync, delay == 0: arm the next periodic full sync; if paused, retry *)
(* after retryDelay(), else call State.SyncFull.                           *)
FullSyncZero ==
    /\ spc = "full"
    /\ ~delayPos
    /\ nextFullArmed' = TRUE
    /\ IF isPaused
       THEN /\ delayPos' = TRUE
            /\ UNCHANGED spc
       ELSE /\ spc' = "syncFull"
            /\ UNCHANGED delayPos
    /\ UNCHANGED <<fullTrig, changesTrig, shutdown, paused, chPaused, ppc,
                   npauses, dirty, drift>>

(* State.SyncFull returns nil: fullSync returns and Run enters sync.       *)
SyncFullOk ==
    /\ spc = "syncFull"
    /\ spc' = "loop"
    /\ dirty' = FALSE
    /\ drift' = FALSE
    /\ UNCHANGED <<delayPos, nextFullArmed, fullTrig, changesTrig, shutdown,
                   paused, chPaused, ppc, npauses>>

(* State.SyncFull fails: delay = retryDelay().                             *)
SyncFullFail ==
    /\ spc = "syncFull"
    /\ spc' = "full"
    /\ delayPos' = TRUE
    /\ UNCHANGED <<nextFullArmed, fullTrig, changesTrig, shutdown, paused,
                   chPaused, ppc, npauses, dirty, drift>>

(* The select of fullSync with delay > 0: time.After(delay) fires.         *)
FullDelayElapsed ==
    /\ spc = "full"
    /\ delayPos
    /\ delayPos' = FALSE
    /\ UNCHANGED <<spc, nextFullArmed, fullTrig, changesTrig, shutdown,
                   paused, chPaused, ppc, npauses, dirty, drift>>

(* ... or the SyncFull trigger: delay = Jitter(serverUpInterval).          *)
FullRetrigger ==
    /\ spc = "full"
    /\ delayPos
    /\ fullTrig
    /\ fullTrig' = FALSE
    /\ delayPos' \in BOOLEAN
    /\ UNCHANGED <<spc, nextFullArmed, changesTrig, shutdown, paused,
                   chPaused, ppc, npauses, dirty, drift>>

(* ... or ShutdownCh: return errShutdown, which ends Run.                  *)
FullShutdown ==
    /\ spc = "full"
    /\ delayPos
    /\ shutdown
    /\ spc' = "stopped"
    /\ UNCHANGED <<delayPos, nextFullArmed, fullTrig, changesTrig, shutdown,
                   paused, chPaused, ppc, npauses, dirty, drift>>

-----------------------------------------------------------------------------
(* sync, case <-s.SyncFull.wait(): fullSync(Jitter(serverUpInterval)).     *)
LoopFullTrig ==
    /\ spc = "loop"
    /\ fullTrig
    /\ fullTrig' = FALSE
    /\ spc' = "full"
    /\ delayPos' \in BOOLEAN
    /\ UNCHANGED <<nextFullArmed, changesTrig, shutdown, paused, chPaused,
                   ppc, npauses, dirty, drift>>

(* sync, case <-s.timerNextFullSync: fullSync(0).                          *)
LoopTimer ==
    /\ spc = "loop"
    /\ nextFullArmed
    /\ nextFullArmed' = FALSE
    /\ spc' = "full"
    /\ delayPos' = FALSE
    /\ UNCHANGED <<fullTrig, changesTrig, shutdown, paused, chPaused, ppc,
                   npauses, dirty, drift>>

(* sync, case <-s.SyncChanges.wait(): nothing if paused, else              *)
(* State.SyncChanges.                                                      *)
LoopChanges ==
    /\ spc = "loop"
    /\ changesTrig
    /\ changesTrig' = FALSE
    /\ spc' = IF isPaused THEN "loop" ELSE "syncChanges"
    /\ UNCHANGED <<delayPos, nextFullArmed, fullTrig, shutdown, paused,
                   chPaused, ppc, npauses, dirty, drift>>

(* State.SyncChanges returns; an error is only logged.                     *)
SyncChangesDone ==
    /\ spc = "syncChanges"
    /\ spc' = "loop"
    /\ dirty' \in {FALSE, dirty}
    /\ UNCHANGED <<delayPos, nextFullArmed, fullTrig, changesTrig, shutdown,
                   paused, chPaused, ppc, npauses, drift>>

(* sync, case <-s.ShutdownCh.                                              *)
LoopShutdown ==
    /\ spc = "loop"
    /\ shutdown
    /\ spc' = "stopped"
    /\ UNCHANGED <<delayPos, nextFullArmed, fullTrig, changesTrig, shutdown,
                   paused, chPaused, ppc, npauses, dirty, drift>>

-----------------------------------------------------------------------------
(* Pause: paused++ and create chPaused if nil, under pauseLock.            *)
Pause(p) ==
    /\ ppc[p] = "idle"
    /\ npauses[p] < MaxPauses
    /\ paused' = paused + 1
    /\ chPaused' = TRUE
    /\ ppc' = [ppc EXCEPT ![p] = "paused"]
    /\ npauses' = [npauses EXCEPT ![p] = @ + 1]
    /\ UNCHANGED <<spc, delayPos, nextFullArmed, fullTrig, changesTrig,
                   shutdown, dirty, drift>>

(* Mutants of Resume: paused++ copied from Pause, or chPaused not reset.   *)
ResumeIncrements(p) ==
    /\ ppc[p] = "paused"
    /\ paused' = paused + 1
    /\ IF paused' = 0
       THEN /\ chPaused' = FALSE
            /\ ppc' = [ppc EXCEPT ![p] = "trigger"]
       ELSE /\ UNCHANGED chPaused
            /\ ppc' = [ppc EXCEPT ![p] = "idle"]
    /\ UNCHANGED <<spc, delayPos, nextFullArmed, fullTrig, changesTrig,
                   shutdown, npauses, dirty, drift>>

ResumeKeepsChan(p) ==
    /\ ppc[p] = "paused"
    /\ paused' = paused - 1
    /\ UNCHANGED chPaused
    /\ ppc' = [ppc EXCEPT ![p] = IF paused' = 0 THEN "trigger" ELSE "idle"]
    /\ UNCHANGED <<spc, delayPos, nextFullArmed, fullTrig, changesTrig,
                   shutdown, npauses, dirty, drift>>

(* Resume: paused--; on reaching zero close chPaused and set it to nil;    *)
(* the SyncChanges trigger is fired after pauseLock is released.           *)
Resume(p) ==
    /\ ppc[p] = "paused"
    /\ paused' = paused - 1
    /\ IF paused' = 0
       THEN /\ chPaused' = FALSE
            /\ ppc' = [ppc EXCEPT ![p] = "trigger"]
       ELSE /\ UNCHANGED chPaused
            /\ ppc' = [ppc EXCEPT ![p] = "idle"]
    /\ UNCHANGED <<spc, delayPos, nextFullArmed, fullTrig, changesTrig,
                   shutdown, npauses, dirty, drift>>

ResumeTrigger(p) ==
    /\ ppc[p] = "trigger"
    /\ changesTrig' = TRUE
    /\ ppc' = [ppc EXCEPT ![p] = "idle"]
    /\ UNCHANGED <<spc, delayPos, nextFullArmed, fullTrig, shutdown, paused,
                   chPaused, npauses, dirty, drift>>

(* The environment: the local state changes and fires SyncChanges, a       *)
(* server joins and fires SyncFull, the catalog drifts, the agent stops.   *)
LocalChange ==
    /\ dirty' = TRUE
    /\ changesTrig' = TRUE
    /\ UNCHANGED <<spc, delayPos, nextFullArmed, fullTrig, shutdown, paused,
                   chPaused, ppc, npauses, drift>>

ServerJoined ==
    /\ fullTrig' = TRUE
    /\ UNCHANGED <<spc, delayPos, nextFullArmed, changesTrig, shutdown,
                   paused, chPaused, ppc, npauses, dirty, drift>>

RemoteDrift ==
    /\ drift' = TRUE
    /\ UNCHANGED <<spc, delayPos, nextFullArmed, fullTrig, changesTrig,
                   shutdown, paused, chPaused, ppc, npauses, dirty>>

Shutdown ==
    /\ ~shutdown
    /\ shutdown' = TRUE
    /\ UNCHANGED <<spc, delayPos, nextFullArmed, fullTrig, changesTrig,
                   paused, chPaused, ppc, npauses, dirty, drift>>

-----------------------------------------------------------------------------
Next ==
    \/ FullSyncZero \/ SyncFullOk \/ SyncFullFail
    \/ FullDelayElapsed \/ FullRetrigger \/ FullShutdown
    \/ LoopFullTrig \/ LoopTimer \/ LoopChanges \/ SyncChangesDone
    \/ LoopShutdown
    \/ \E p \in Pausers : Pause(p) \/ Resume(p) \/ ResumeTrigger(p)
    \/ LocalChange \/ ServerJoined \/ RemoteDrift \/ Shutdown

(***************************************************************************)
(* The Run goroutine is always runnable or waiting on a timer, and the     *)
(* timers fire; the select of sync picks at random among ready cases, so   *)
(* a case that is ready infinitely often is taken (strong fairness).  A    *)
(* pauser always resumes (the agent defers ResumeSync).  SyncFull is       *)
(* assumed to succeed eventually when retried forever: the servers are not *)
(* unreachable forever.  The environment actions are not required.         *)
(***************************************************************************)
Fairness ==
    /\ WF_vars(FullSyncZero)
    /\ SF_vars(SyncFullOk)
    /\ WF_vars(FullDelayElapsed)
    /\ SF_vars(LoopTimer)
    /\ SF_vars(LoopChanges)
    /\ WF_vars(SyncChangesDone)
    /\ SF_vars(LoopShutdown)
    /\ \A p \in Pausers : WF_vars(Resume(p)) /\ WF_vars(ResumeTrigger(p))

Spec == Init /\ [][Next]_vars /\ Fairness

-----------------------------------------------------------------------------
(* Every variable has its type; paused never goes below zero (Resume's     *)
(* panic on an unbalanced pause/resume is unreachable).                    *)
TypeOK ==
    /\ spc \in SyncerPcs
    /\ delayPos \in BOOLEAN
    /\ nextFullArmed \in BOOLEAN
    /\ fullTrig \in BOOLEAN
    /\ changesTrig \in BOOLEAN
    /\ shutdown \in BOOLEAN
    /\ paused \in 0..Cardinality(Pausers)
    /\ chPaused \in BOOLEAN
    /\ ppc \in [Pausers -> {"idle", "paused", "trigger"}]
    /\ npauses \in [Pausers -> 0..MaxPauses]
    /\ dirty \in BOOLEAN
    /\ drift \in BOOLEAN

(***************************************************************************)
(* The pause refcount counts exactly the Pause calls not yet matched by a  *)
(* Resume, and chPaused exists exactly while it is positive, so that       *)
(* WaitResume hands out a channel only while paused and the last Resume    *)
(* closes it (Pause, Resume, WaitResume).                                  *)
(***************************************************************************)
PauseRefcount ==
    /\ paused = Cardinality({p \in Pausers : ppc[p] = "paused"})
    /\ chPaused <=> paused > 0

(***************************************************************************)
(* Anti-entropy is always scheduled: whenever Run waits in sync, or is     *)
(* inside SyncChanges, the periodic full sync timer is armed, so a failed  *)
(* or dropped SyncChanges and any remote drift are repaired later (the     *)
(* time.After in fullSync and the timerNextFullSync case of sync).         *)
(***************************************************************************)
AntiEntropyArmed ==
    spc \in {"loop", "syncChanges"} => nextFullArmed

(***************************************************************************)
(* Every local change and every remote drift is eventually synchronised,   *)
(* unless the agent shuts down: through pauses, dropped SyncChanges        *)
(* triggers, failed syncs and retriggered delays.                          *)
(***************************************************************************)
InSyncEventually ==
    (dirty \/ drift) ~> ((~dirty /\ ~drift) \/ shutdown)

=============================================================================
