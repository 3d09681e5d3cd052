----------------------------- MODULE ProxyState -----------------------------
(***************************************************************************)
(* The per-proxy state goroutine of agent/proxycfg (state.go): Watch,      *)
(* Close, the run loop with its coalesce timer, the one-slot snapCh and    *)
(* reqCh, and CurrentSnapshot.  The snapshot itself is abstracted to the   *)
(* set of watches that have delivered (the -Set flags Valid() reads) and a *)
(* version that counts the successful handleUpdate calls, so that a clone  *)
(* can be compared with the live snapshot.                                 *)
(*                                                                         *)
(* The environment is the cache (it delivers events on s.ch while the      *)
(* context is live), the proxycfg Manager goroutine that drains snapCh and *)
(* then takes the manager lock to notify watchers, and the callers of      *)
(* Manager.CurrentSnapshot, which hold the same lock for the whole call.   *)
(***************************************************************************)
EXTENDS Integers, Sequences, FiniteSets

CONSTANTS
    Watches,      \* correlation ids of the watches initialize sets up
    Required,     \* the ids whose arrival Valid() requires
    Requesters,   \* goroutines calling Manager.CurrentSnapshot
    MaxEvents,    \* bound on the events the cache delivers in a run
    InboundCap,   \* capacity of s.ch (10 in newState)
    CloneFails,   \* whether snap.Clone() may return an error
    NoOne         \* holder of the manager lock when it is free

ASSUME Assumptions ==
    /\ Required \subseteq Watches
    /\ MaxEvents \in Nat \ {0}
    /\ InboundCap \in Nat \ {0}
    /\ CloneFails \in BOOLEAN
    /\ NoOne \notin Requesters

\* make(chan ConfigSnapshot, 1) and make(chan chan *ConfigSnapshot, 1)
SnapChCap == 1
ReqChCap == 1

\* Values of a requester's reply channel: nothing sent yet, nil, or a clone.
NoReply == [parts |-> {}, version |-> -2]
NilReply == [parts |-> {}, version |-> -1]

Events == [id : Watches, err : BOOLEAN]
Snapshots == [parts : SUBSET Watches, version : 0..MaxEvents]

VARIABLES
    loopState,     \* "new", "running" (run goroutine), "failed", "exited"
    cancelled,     \* the root context of Watch has been cancelled
    ch,            \* s.ch, the inbound cache.UpdateEvent channel
    produced,      \* events the cache has delivered so far
    snap,          \* the snapshot owned by run
    coalesceTimer, \* coalesceTimer # nil in run
    timers,        \* AfterFunc goroutines that have not yet sent on sendCh
    snapCh,        \* s.snapCh
    snapChClosed,  \* close(s.snapCh) has run
    reqCh,         \* s.reqCh
    reply,         \* the reply channel of each requester
    rpc,           \* where each requester is in Manager.CurrentSnapshot
    mu,            \* the Manager's lock
    cpc,           \* where the Manager's snapCh consumer is
    received       \* the last snapshot the consumer took from snapCh

vars == <<loopState, cancelled, ch, produced, snap, coalesceTimer, timers,
          snapCh, snapChClosed, reqCh, reply, rpc, mu, cpc, received>>

(***************************************************************************)
(* ConfigSnapshot.Valid() for a connect-proxy: roots, leaf and            *)
(* intentions have all arrived.                                            *)
(***************************************************************************)
Valid(s) == Required \subseteq s.parts

Init ==
    /\ loopState = "new"
    /\ cancelled = FALSE
    /\ ch = <<>>
    /\ produced = 0
    /\ snap = [parts |-> {}, version |-> 0]
    /\ coalesceTimer = FALSE
    /\ timers = 0
    /\ snapCh = <<>>
    /\ snapChClosed = FALSE
    /\ reqCh = <<>>
    /\ reply = [r \in Requesters |-> NoReply]
    /\ rpc = [r \in Requesters |-> "idle"]
    /\ mu = NoOne
    /\ cpc = "recv"
    /\ received = [parts |-> {}, version |-> 0]

-----------------------------------------------------------------------------
(* Watch: initialize registers the watches; on an error it cancels the     *)
(* context and returns, otherwise it starts run.                           *)
Watch ==
    /\ loopState = "new"
    /\ \/ /\ loopState' = "running"
          /\ UNCHANGED cancelled
       \/ /\ loopState' = "failed"
          /\ cancelled' = TRUE
    /\ UNCHANGED <<ch, produced, snap, coalesceTimer, timers, snapCh,
                   snapChClosed, reqCh, reply, rpc, mu, cpc, received>>

(* Close, called by the Manager with its lock held: cancel the context.    *)
Close ==
    /\ loopState # "new"
    /\ mu = NoOne
    /\ cancelled' = TRUE
    /\ UNCHANGED <<loopState, ch, produced, snap, coalesceTimer, timers,
                   snapCh, snapChClosed, reqCh, reply, rpc, mu, cpc, received>>

(* A cache.Notify goroutine delivers an event (or an error) on s.ch; it    *)
(* blocks while s.ch is full and stops once the context is cancelled.      *)
CacheDeliver(e) ==
    /\ loopState = "running"
    /\ ~cancelled
    /\ produced < MaxEvents
    /\ Len(ch) < InboundCap
    /\ ch' = Append(ch, e)
    /\ produced' = produced + 1
    /\ UNCHANGED <<loopState, cancelled, snap, coalesceTimer, timers, snapCh,
                   snapChClosed, reqCh, reply, rpc, mu, cpc, received>>

-----------------------------------------------------------------------------
(* handleUpdate: an event with an error changes nothing; otherwise the     *)
(* result is stored under its correlation id.                              *)
handleUpdate(s, u) == [parts |-> s.parts \cup {u.id}, version |-> s.version + 1]

(* Mutants of armCoalesceTimer: the nil check or the Valid() check lost.  *)
armCoalesceTimerNoNilCheck(s) ==
    IF Valid(s)
    THEN /\ coalesceTimer' = TRUE
         /\ timers' = timers + 1
    ELSE UNCHANGED <<coalesceTimer, timers>>

armCoalesceTimerNoValidCheck(s) ==
    IF ~coalesceTimer
    THEN /\ coalesceTimer' = TRUE
         /\ timers' = timers + 1
    ELSE UNCHANGED <<coalesceTimer, timers>>

(* After a handled event: if snap is valid and no timer is set, set one.   *)
armCoalesceTimer(s) ==
    IF Valid(s) /\ ~coalesceTimer
    THEN /\ coalesceTimer' = TRUE
         /\ timers' = timers + 1
    ELSE UNCHANGED <<coalesceTimer, timers>>

(* run, case <-ctx.Done(): return, closing snapCh on the way out.          *)
RunDone ==
    /\ loopState = "running"
    /\ cancelled
    /\ loopState' = "exited"
    /\ snapChClosed' = TRUE
    /\ UNCHANGED <<cancelled, ch, produced, snap, coalesceTimer, timers,
                   snapCh, reqCh, reply, rpc, mu, cpc, received>>

(* run, case u := <-s.ch.                                                  *)
RunUpdate ==
    /\ loopState = "running"
    /\ ch # <<>>
    /\ ch' = Tail(ch)
    /\ IF Head(ch).err
       THEN UNCHANGED <<snap, coalesceTimer, timers>>
       ELSE /\ snap' = handleUpdate(snap, Head(ch))
            /\ armCoalesceTimer(snap')
    /\ UNCHANGED <<loopState, cancelled, produced, snapCh, snapChClosed,
                   reqCh, reply, rpc, mu, cpc, received>>

(* In the default branch of the send in run: a fresh timer is set only   *)
(* when coalesceTimer is nil; otherwise the retry relies on the timer that *)
(* has just fired.                                                         *)
retryCoalesceTimer ==
    IF ~coalesceTimer
    THEN /\ coalesceTimer' = TRUE
         /\ UNCHANGED timers
    ELSE /\ timers' = timers - 1
         /\ UNCHANGED coalesceTimer

(* run, case <-sendCh: a timer goroutine has fired.  Clone snap and try a  *)
(* non-blocking send on snapCh; on success clear coalesceTimer.  A failed  *)
(* Clone logs and continues.                                               *)
RunSend ==
    /\ loopState = "running"
    /\ timers > 0
    /\ \/ /\ Len(snapCh) < SnapChCap
          /\ snapCh' = Append(snapCh, snap)
          /\ coalesceTimer' = FALSE
          /\ timers' = timers - 1
       \/ /\ Len(snapCh) = SnapChCap
          /\ retryCoalesceTimer
          /\ UNCHANGED snapCh
       \/ /\ CloneFails
          /\ timers' = timers - 1
          /\ UNCHANGED <<snapCh, coalesceTimer>>
    /\ UNCHANGED <<loopState, cancelled, ch, produced, snap, snapChClosed,
                   reqCh, reply, rpc, mu, cpc, received>>

(* Mutant of RunRequest: the nil reply to an invalid snapshot forgotten.   *)
RunRequestNoNilReply ==
    /\ loopState = "running"
    /\ reqCh # <<>>
    /\ reqCh' = Tail(reqCh)
    /\ \/ /\ ~Valid(snap)
          /\ UNCHANGED reply
       \/ /\ Valid(snap)
          /\ reply' = [reply EXCEPT ![Head(reqCh)] = snap]
    /\ UNCHANGED <<loopState, cancelled, ch, produced, snap, coalesceTimer,
                   timers, snapCh, snapChClosed, rpc, mu, cpc, received>>

(* run, case replyCh := <-s.reqCh: nil when not valid, else a clone; a     *)
(* failed Clone logs and continues without replying.                       *)
RunRequest ==
    /\ loopState = "running"
    /\ reqCh # <<>>
    /\ reqCh' = Tail(reqCh)
    /\ \/ /\ ~Valid(snap)
          /\ reply' = [reply EXCEPT ![Head(reqCh)] = NilReply]
       \/ /\ Valid(snap)
          /\ reply' = [reply EXCEPT ![Head(reqCh)] = snap]
       \/ /\ Valid(snap)
          /\ CloneFails
          /\ UNCHANGED reply
    /\ UNCHANGED <<loopState, cancelled, ch, produced, snap, coalesceTimer,
                   timers, snapCh, snapChClosed, rpc, mu, cpc, received>>

-----------------------------------------------------------------------------
(* Manager.CurrentSnapshot takes the manager lock and, while the proxy is  *)
(* registered, calls state.CurrentSnapshot: send a reply channel on reqCh, *)
(* wait on it, return and unlock.                                          *)
ReqLock(r) ==
    /\ rpc[r] = "idle"
    /\ mu = NoOne
    /\ loopState = "running"
    /\ ~cancelled
    /\ mu' = r
    /\ rpc' = [rpc EXCEPT ![r] = "send"]
    /\ UNCHANGED <<loopState, cancelled, ch, produced, snap, coalesceTimer,
                   timers, snapCh, snapChClosed, reqCh, reply, cpc, received>>

ReqSend(r) ==
    /\ rpc[r] = "send"
    /\ Len(reqCh) < ReqChCap
    /\ reqCh' = Append(reqCh, r)
    /\ reply' = [reply EXCEPT ![r] = NoReply]
    /\ rpc' = [rpc EXCEPT ![r] = "wait"]
    /\ UNCHANGED <<loopState, cancelled, ch, produced, snap, coalesceTimer,
                   timers, snapCh, snapChClosed, mu, cpc, received>>

(* Mutant of ReqRecv: the caller returns without waiting for the reply   *)
(* (the receive <-ch made non-blocking).                                   *)
ReqRecvNoWait(r) ==
    /\ rpc[r] = "wait"
    /\ rpc' = [rpc EXCEPT ![r] = "idle"]
    /\ mu' = NoOne
    /\ UNCHANGED <<loopState, cancelled, ch, produced, snap, coalesceTimer,
                   timers, snapCh, snapChClosed, reqCh, reply, cpc, received>>

ReqRecv(r) ==
    /\ rpc[r] = "wait"
    /\ reply[r] # NoReply
    /\ rpc' = [rpc EXCEPT ![r] = "idle"]
    /\ mu' = NoOne
    /\ UNCHANGED <<loopState, cancelled, ch, produced, snap, coalesceTimer,
                   timers, snapCh, snapChClosed, reqCh, reply, cpc, received>>

(* The Manager's goroutine draining snapCh: receive, then notify watchers  *)
(* under the manager lock; it returns when snapCh is closed and empty.     *)
ConsumerRecv ==
    /\ cpc = "recv"
    /\ \/ /\ snapCh # <<>>
          /\ received' = Head(snapCh)
          /\ snapCh' = Tail(snapCh)
          /\ cpc' = "notify"
       \/ /\ snapCh = <<>>
          /\ snapChClosed
          /\ cpc' = "done"
          /\ UNCHANGED <<received, snapCh>>
    /\ UNCHANGED <<loopState, cancelled, ch, produced, snap, coalesceTimer,
                   timers, snapChClosed, reqCh, reply, rpc, mu>>

ConsumerNotify ==
    /\ cpc = "notify"
    /\ mu = NoOne
    /\ cpc' = "recv"
    /\ UNCHANGED <<loopState, cancelled, ch, produced, snap, coalesceTimer,
                   timers, snapCh, snapChClosed, reqCh, reply, rpc, mu,
                   received>>

-----------------------------------------------------------------------------
Next ==
    \/ Watch
    \/ Close
    \/ \E e \in Events : CacheDeliver(e)
    \/ RunDone
    \/ RunUpdate
    \/ RunSend
    \/ RunRequest
    \/ \E r \in Requesters : ReqLock(r) \/ ReqSend(r) \/ ReqRecv(r)
    \/ ConsumerRecv
    \/ ConsumerNotify

(***************************************************************************)
(* The run goroutine, the timer goroutines, the consumer and a requester   *)
(* inside CurrentSnapshot are runnable goroutines the Go scheduler runs;   *)
(* the select of run picks uniformly among ready cases.  The consumer      *)
(* waits on a sync.Mutex, whose starvation mode hands the lock to a        *)
(* waiter that keeps losing it, hence strong fairness there.  The cache,   *)
(* Watch, Close and new CurrentSnapshot calls are not required to happen.  *)
(***************************************************************************)
Fairness ==
    /\ WF_vars(RunDone)
    /\ WF_vars(RunUpdate)
    /\ WF_vars(RunSend)
    /\ WF_vars(RunRequest)
    /\ \A r \in Requesters : WF_vars(ReqSend(r)) /\ WF_vars(ReqRecv(r))
    /\ WF_vars(ConsumerRecv)
    /\ SF_vars(ConsumerNotify)

Spec == Init /\ [][Next]_vars /\ Fairness

-----------------------------------------------------------------------------
(* Every variable has its type, and the two buffered channels never hold   *)
(* more than their capacity (the sends in run and CurrentSnapshot respect  *)
(* make(chan, n)).                                                         *)
TypeOK ==
    /\ loopState \in {"new", "running", "failed", "exited"}
    /\ cancelled \in BOOLEAN
    /\ ch \in Seq(Events) /\ Len(ch) <= InboundCap
    /\ produced \in 0..MaxEvents
    /\ snap \in Snapshots
    /\ coalesceTimer \in BOOLEAN
    /\ timers \in Nat
    /\ snapCh \in Seq(Snapshots) /\ Len(snapCh) <= SnapChCap
    /\ snapChClosed \in BOOLEAN
    /\ reqCh \in Seq(Requesters) /\ Len(reqCh) <= ReqChCap
    /\ reply \in [Requesters -> Snapshots \cup {NoReply, NilReply}]
    /\ rpc \in [Requesters -> {"idle", "send", "wait"}]
    /\ mu \in Requesters \cup {NoOne}
    /\ cpc \in {"recv", "notify", "done"}
    /\ received \in Snapshots

(***************************************************************************)
(* At most one coalesce token is ever outstanding, and only while          *)
(* coalesceTimer is set: run never has two AfterFunc goroutines racing to  *)
(* send on sendCh (state.go run, the coalesceTimer == nil checks).         *)
(***************************************************************************)
CoalesceTokenUnique ==
    /\ timers <= 1
    /\ timers = 1 => coalesceTimer

EmptySnap == [parts |-> {}, version |-> 0]

(***************************************************************************)
(* Only valid snapshots leave run: whatever sits in snapCh, whatever the   *)
(* consumer last took from it and whatever a CurrentSnapshot caller got    *)
(* back other than nil satisfies Valid() (the timer is armed only after a  *)
(* valid update, and reqCh replies nil to an invalid snapshot).            *)
(***************************************************************************)
PublishedValid ==
    /\ \A i \in 1..Len(snapCh) : Valid(snapCh[i])
    /\ received # EmptySnap => Valid(received)
    /\ \A r \in Requesters : reply[r] \notin {NoReply, NilReply} => Valid(reply[r])

(***************************************************************************)
(* Every CurrentSnapshot call returns: the run loop answers reqCh although *)
(* the caller holds the manager lock that the snapCh consumer needs, since *)
(* the send on snapCh never blocks (the deadlock of PR #9689).             *)
(***************************************************************************)
RequestsAnswered ==
    \A r \in Requesters : rpc[r] = "wait" ~> rpc[r] = "idle"

(***************************************************************************)
(* run answers a CurrentSnapshot call once, and only while its caller      *)
(* waits: every reply goes into the fresh, still empty reply channel of a  *)
(* caller blocked in <-ch, so the send replyCh <- ... in run never blocks  *)
(* and no answer is lost or reaches a caller that has returned.  The only  *)
(* other change of a reply channel is the make of a new one by the caller. *)
(***************************************************************************)
ReplyToWaiter ==
    \A r \in Requesters :
        reply'[r] # reply[r] =>
            \/ rpc[r] = "send" /\ reply'[r] = NoReply
            \/ rpc[r] = "wait" /\ reply[r] = NoReply

ReplyOnlyToWaiter == [][ReplyToWaiter]_vars

(***************************************************************************)
(* A consumer that keeps draining snapCh eventually holds the latest valid *)
(* snapshot of a live state: a full snapCh only delays a delivery, the     *)
(* timer is re-armed until it succeeds (spec 4.3, "Debounced delivery").   *)
(***************************************************************************)
LatestEventuallyDelivered ==
    <>[](~cancelled /\ Valid(snap) => received = snap)


(***************************************************************************)
(* Once run has returned no coalesce timer goroutine is left: closing the  *)
(* state stops every task it started (spec 5, "Cancellation").  The        *)
(* AfterFunc callbacks of run send on the unbuffered sendCh, which nobody  *)
(* receives from after run returns.                                        *)
(***************************************************************************)
NoTimerAfterExit == loopState = "exited" => timers = 0

-----------------------------------------------------------------------------
(* The refinement mapping is the identity on snap and received, and the    *)
(* consumer notifies while it is between its receive and its notify; the  *)
(* channels, the coalesce timer and the requesters are hidden.             *)
ASnap == INSTANCE AbstractSnapshot WITH notifying <- (cpc = "notify")

(***************************************************************************)
(* The state goroutine implements AbstractSnapshot: every event handled    *)
(* by run is one update of the live snapshot, and the consumer of snapCh   *)
(* receives only valid clones, each of a later snapshot than the last one  *)
(* it received (the coalesce timer is armed once per valid change and      *)
(* cleared by the send) and none of a snapshot later than the live one.    *)
(***************************************************************************)
ImplementsAbstractSnapshot == ASnap!SafetySpec

=============================================================================
