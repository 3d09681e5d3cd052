------------------------- MODULE ProxyStateProofs --------------------------
(***************************************************************************)
(* Proofs about the proxycfg state goroutine model, for every set of       *)
(* watches, required ids and requesters and every channel capacity: the    *)
(* channels never overflow, at most one coalesce timer is outstanding, and *)
(* only valid snapshots are ever published.                                *)
(***************************************************************************)
EXTENDS ProxyState, SequenceTheorems, TLAPS

(* Every snapshot of a sequence is valid.                                  *)
AllValid(s) == \A i \in 1..Len(s) : Valid(s[i])

(* handleUpdate is called once per event taken from s.ch, so the version   *)
(* of snap plus the events still queued never exceeds what the cache       *)
(* delivered; this keeps snap.version within 0..MaxEvents.                 *)
VersionBound == snap.version + Len(ch) <= produced

(* A set coalesce timer always belongs to a valid snapshot: it is armed    *)
(* only after a valid update, and handleUpdate only adds parts.            *)
TimerOfValid == coalesceTimer => Valid(snap)

IInv ==
    /\ TypeOK
    /\ VersionBound
    /\ CoalesceTokenUnique
    /\ TimerOfValid
    /\ PublishedValid

-----------------------------------------------------------------------------
(* Receiving from a non-empty channel.                                     *)
LEMMA TakeHead ==
    ASSUME NEW S, NEW s \in Seq(S), s # <<>>
    PROVE  /\ Len(s) \in Nat \ {0}
           /\ Head(s) \in S
           /\ Tail(s) \in Seq(S)
           /\ Len(Tail(s)) = Len(s) - 1
  BY EmptySeq, HeadTailProperties

(* Sending on a channel.                                                   *)
LEMMA PutLast ==
    ASSUME NEW S, NEW s \in Seq(S), NEW x \in S
    PROVE  /\ Append(s, x) \in Seq(S)
           /\ Len(Append(s, x)) = Len(s) + 1
  BY AppendProperties

(* Appending a valid snapshot to a sequence of valid snapshots.            *)
LEMMA AppendValid ==
    ASSUME NEW s \in Seq(Snapshots), NEW x \in Snapshots,
           AllValid(s), Valid(x)
    PROVE  AllValid(Append(s, x))
<1>1. \A i \in 1..Len(s) + 1 : Append(s, x)[i] = IF i = Len(s) + 1 THEN x ELSE s[i]
  BY AppendProperties
<1>2. Len(Append(s, x)) = Len(s) + 1
  BY AppendProperties
<1>. QED  BY <1>1, <1>2 DEF AllValid

(* The head and the tail of a sequence of valid snapshots are valid.       *)
LEMMA TailValid ==
    ASSUME NEW s \in Seq(Snapshots), s # <<>>, AllValid(s)
    PROVE  Valid(Head(s)) /\ AllValid(Tail(s))
<1>1. Len(s) \in Nat \ {0}
  BY EmptySeq
<1>2. Head(s) = s[1]
  OBVIOUS
<1>3. /\ Len(Tail(s)) = Len(s) - 1
      /\ \A i \in 1..Len(Tail(s)) : Tail(s)[i] = s[i + 1]
  BY HeadTailProperties
<1>. QED  BY <1>1, <1>2, <1>3 DEF AllValid

(* handleUpdate only adds parts, so a valid snapshot stays valid.          *)
LEMMA HandleUpdateValid ==
    ASSUME NEW s \in Snapshots, NEW u \in Events, s.version < MaxEvents
    PROVE  /\ handleUpdate(s, u) \in Snapshots
           /\ handleUpdate(s, u).version = s.version + 1
           /\ Valid(s) => Valid(handleUpdate(s, u))
<1>1. s.parts \cup {u.id} \in SUBSET Watches
  BY DEF Snapshots, Events
<1>2. s.version + 1 \in 0..MaxEvents
  BY Assumptions DEF Snapshots
<1>. QED  BY <1>1, <1>2 DEF handleUpdate, Snapshots, Valid

(* The numeric facts TypeOK gives.                                        *)
LEMMA TypeFacts ==
    ASSUME TypeOK
    PROVE  /\ Len(ch) \in Nat /\ Len(ch) <= InboundCap /\ InboundCap \in Nat
           /\ Len(snapCh) \in Nat /\ Len(snapCh) <= 1
           /\ Len(reqCh) \in Nat /\ Len(reqCh) <= 1
           /\ snap.version \in 0..MaxEvents /\ produced \in 0..MaxEvents
           /\ MaxEvents \in Nat /\ timers \in Nat
<1>1. Len(ch) \in Nat /\ Len(snapCh) \in Nat /\ Len(reqCh) \in Nat
  BY LenProperties DEF TypeOK
<1>2. snap.version \in 0..MaxEvents /\ produced \in 0..MaxEvents /\ timers \in Nat
  BY DEF TypeOK, Snapshots
<1>3. /\ Len(ch) <= InboundCap /\ Len(snapCh) <= SnapChCap
      /\ Len(reqCh) <= ReqChCap
  BY Zenon DEF TypeOK
<1>4. MaxEvents \in Nat /\ InboundCap \in Nat
  BY Assumptions, Zenon
<1>. QED  BY <1>1, <1>2, <1>3, <1>4 DEF SnapChCap, ReqChCap

-----------------------------------------------------------------------------
THEOREM InitIInv == Init => IInv
<1> SUFFICES ASSUME Init PROVE IInv
  OBVIOUS
<1>1. /\ ch \in Seq(Events) /\ Len(ch) = 0
      /\ snapCh \in Seq(Snapshots) /\ Len(snapCh) = 0
      /\ reqCh \in Seq(Requesters) /\ Len(reqCh) = 0
  BY EmptySeq DEF Init
<1>2. snap \in Snapshots /\ received \in Snapshots /\ snap = EmptySnap
      /\ received = EmptySnap
  BY Assumptions DEF Init, Snapshots, EmptySnap
<1>3. reply \in [Requesters -> Snapshots \cup {NoReply, NilReply}]
  BY DEF Init
<1>4. /\ loopState \in {"new", "running", "failed", "exited"}
      /\ cancelled \in BOOLEAN /\ coalesceTimer \in BOOLEAN
      /\ snapChClosed \in BOOLEAN /\ timers \in Nat
      /\ produced \in 0..MaxEvents
      /\ rpc \in [Requesters -> {"idle", "send", "wait"}]
      /\ mu \in Requesters \cup {NoOne}
      /\ cpc \in {"recv", "notify", "done"}
  <2>1. /\ loopState = "new" /\ cancelled = FALSE /\ coalesceTimer = FALSE
        /\ snapChClosed = FALSE /\ timers = 0 /\ produced = 0
        /\ rpc = [r \in Requesters |-> "idle"] /\ mu = NoOne /\ cpc = "recv"
    BY DEF Init
  <2>2. produced \in 0..MaxEvents
    BY <2>1, Assumptions
  <2>. QED  BY <2>1, <2>2
<1>5. Len(ch) <= InboundCap /\ Len(snapCh) <= SnapChCap
      /\ Len(reqCh) <= ReqChCap
  BY <1>1, Assumptions DEF SnapChCap, ReqChCap
<1>6. TypeOK
  BY <1>1, <1>2, <1>3, <1>4, <1>5 DEF TypeOK
<1>7. VersionBound /\ CoalesceTokenUnique /\ TimerOfValid
  BY <1>1, <1>2 DEF Init, VersionBound, CoalesceTokenUnique, TimerOfValid,
     EmptySnap
<1>8. PublishedValid
  BY <1>1, <1>2 DEF Init, PublishedValid
<1>. QED
  BY <1>6, <1>7, <1>8 DEF IInv

(* IInv' from its five conjuncts.                                          *)
LEMMA Assemble ==
    ASSUME TypeOK', VersionBound', CoalesceTokenUnique', TimerOfValid',
           PublishedValid'
    PROVE  IInv'
  BY DEF IInv

(* A step that changes none of the channels, snapshots or counters keeps   *)
(* every conjunct of IInv that is about them.                              *)
LEMMA KeepData ==
    ASSUME IInv,
           UNCHANGED <<ch, produced, snap, coalesceTimer, timers, snapCh,
                       reqCh, reply, received>>,
           loopState' \in {"new", "running", "failed", "exited"},
           cancelled' \in BOOLEAN, snapChClosed' \in BOOLEAN,
           rpc' \in [Requesters -> {"idle", "send", "wait"}],
           mu' \in Requesters \cup {NoOne},
           cpc' \in {"recv", "notify", "done"}
    PROVE  IInv'
<1>1. TypeOK'
  BY DEF IInv, TypeOK
<1>2. VersionBound' /\ CoalesceTokenUnique' /\ TimerOfValid'
  BY DEF IInv, VersionBound, CoalesceTokenUnique, TimerOfValid
<1>3. PublishedValid'
  BY DEF IInv, PublishedValid
<1>. QED  BY <1>1, <1>2, <1>3, Assemble

THEOREM NextIInv == IInv /\ [Next]_vars => IInv'
<1> SUFFICES ASSUME IInv, [Next]_vars PROVE IInv'
  OBVIOUS
<1>0. /\ TypeOK /\ VersionBound /\ CoalesceTokenUnique /\ TimerOfValid
      /\ PublishedValid /\ AllValid(snapCh)
  BY DEF IInv, PublishedValid, AllValid
<1>1. CASE Watch
  BY <1>1, KeepData DEF Watch, IInv, TypeOK
<1>2. CASE Close
  BY <1>2, KeepData DEF Close, IInv, TypeOK
<1>3. ASSUME NEW e \in Events, CacheDeliver(e) PROVE IInv'
  <2>1. ch' \in Seq(Events) /\ Len(ch') = Len(ch) + 1
    BY <1>0, <1>3, PutLast DEF CacheDeliver, TypeOK
  <2>2. UNCHANGED <<loopState, cancelled, snap, coalesceTimer, timers,
                    snapCh, snapChClosed, reqCh, reply, rpc, mu, cpc, received>>
    BY <1>3 DEF CacheDeliver
  <2>3. Len(ch) < InboundCap /\ produced < MaxEvents /\ produced' = produced + 1
    BY <1>3 DEF CacheDeliver
  <2>4. TypeOK'
    <3>1. Len(ch') <= InboundCap /\ produced' \in 0..MaxEvents
      BY <1>0, <2>1, <2>3, TypeFacts
    <3>. QED  BY <1>0, <2>1, <2>2, <3>1, Zenon DEF TypeOK
  <2>5. VersionBound'
    BY <1>0, <2>1, <2>2, <2>3, TypeFacts DEF VersionBound
  <2>6. CoalesceTokenUnique' /\ TimerOfValid'
    BY <1>0, <2>2, Zenon DEF CoalesceTokenUnique, TimerOfValid
  <2>7. PublishedValid'
    BY <1>0, <2>2 DEF PublishedValid
  <2>. QED  BY <2>4, <2>5, <2>6, <2>7, Assemble
<1>4. CASE RunDone
  BY <1>4, KeepData DEF RunDone, IInv, TypeOK
<1>5. CASE RunUpdate
  <2>0. ch \in Seq(Events) /\ ch # <<>> /\ ch' = Tail(ch)
    BY <1>0, <1>5 DEF RunUpdate, TypeOK
  <2>1. /\ ch' \in Seq(Events) /\ Len(ch') = Len(ch) - 1
        /\ Head(ch) \in Events /\ Len(ch) \in Nat \ {0}
    BY <2>0, TakeHead
  <2>2. snap.version < MaxEvents
    BY <1>0, <2>1, TypeFacts DEF VersionBound
  <2>3. UNCHANGED <<loopState, cancelled, produced, snapCh, snapChClosed,
                    reqCh, reply, rpc, mu, cpc, received>>
    BY <1>5 DEF RunUpdate
  <2>4. CASE Head(ch).err
    <3>1. UNCHANGED <<snap, coalesceTimer, timers>>
      BY <1>5, <2>4 DEF RunUpdate
    <3>2. TypeOK'
      <4>1. Len(ch') <= InboundCap
        BY <1>0, <2>1, TypeFacts
      <4>. QED  BY <1>0, <2>1, <2>3, <3>1, <4>1, Zenon DEF TypeOK
    <3>3. VersionBound'
      BY <1>0, <2>1, <2>3, <3>1, TypeFacts DEF VersionBound
    <3>7. CoalesceTokenUnique' /\ TimerOfValid'
      BY <1>0, <3>1, Zenon DEF CoalesceTokenUnique, TimerOfValid
    <3>4. PublishedValid'
      BY <1>0, <2>3, <3>1 DEF PublishedValid
    <3>. QED  BY <3>2, <3>3, <3>4, <3>7, Assemble
  <2>5. CASE ~Head(ch).err
    <3>1. /\ snap' = handleUpdate(snap, Head(ch))
          /\ snap' \in Snapshots
          /\ Valid(snap) => Valid(snap')
          /\ snap'.version = snap.version + 1
      BY <1>0, <1>5, <2>1, <2>2, <2>5, HandleUpdateValid DEF RunUpdate, TypeOK
    <3>2. armCoalesceTimer(snap')
      BY <1>5, <2>5 DEF RunUpdate
    <3>3. /\ coalesceTimer' \in BOOLEAN /\ timers' \in Nat
          /\ CoalesceTokenUnique' /\ TimerOfValid'
      <4>1. timers \in Nat /\ coalesceTimer \in BOOLEAN
        BY <1>0, TypeFacts DEF TypeOK
      <4>2. CASE Valid(snap') /\ ~coalesceTimer
        <5>1. coalesceTimer' = TRUE /\ timers' = timers + 1 /\ timers = 0
          BY <1>0, <3>2, <4>1, <4>2 DEF armCoalesceTimer, CoalesceTokenUnique
        <5>. QED  BY <4>1, <4>2, <5>1 DEF CoalesceTokenUnique, TimerOfValid
      <4>3. CASE ~(Valid(snap') /\ ~coalesceTimer)
        <5>1. coalesceTimer' = coalesceTimer /\ timers' = timers
          BY <3>2, <4>3 DEF armCoalesceTimer
        <5>. QED  BY <1>0, <3>1, <4>1, <4>3, <5>1 DEF CoalesceTokenUnique,
                     TimerOfValid
      <4>. QED  BY <4>2, <4>3
    <3>4. TypeOK'
      <4>1. Len(ch') <= InboundCap
        BY <1>0, <2>1, TypeFacts
      <4>. QED  BY <1>0, <2>1, <2>3, <3>1, <3>3, <4>1, Zenon DEF TypeOK
    <3>5. VersionBound'
      BY <1>0, <2>1, <2>3, <3>1, TypeFacts DEF VersionBound
    <3>6. PublishedValid'
      BY <1>0, <2>3 DEF PublishedValid
    <3>. QED  BY <3>3, <3>4, <3>5, <3>6, Assemble
  <2>. QED  BY <2>4, <2>5
<1>6. CASE RunSend
  <2>0. UNCHANGED <<loopState, cancelled, ch, produced, snap, snapChClosed,
                    reqCh, reply, rpc, mu, cpc, received>>
    BY <1>6 DEF RunSend
  <2>1. coalesceTimer /\ timers = 1 /\ Valid(snap)
    BY <1>0, <1>6 DEF RunSend, CoalesceTokenUnique, TimerOfValid, TypeOK
  <2>2. CASE Len(snapCh) < SnapChCap /\ snapCh' = Append(snapCh, snap)
            /\ coalesceTimer' = FALSE /\ timers' = timers - 1
    <3>1. snapCh' \in Seq(Snapshots) /\ Len(snapCh') = Len(snapCh) + 1
      BY <1>0, <2>2, PutLast DEF TypeOK
    <3>2. AllValid(snapCh')
      BY <1>0, <2>1, <2>2, AppendValid DEF TypeOK
    <3>3. TypeOK'
      <4>1. Len(snapCh') <= SnapChCap /\ timers' \in Nat
        BY <1>0, <2>1, <2>2, <3>1, TypeFacts DEF SnapChCap
      <4>. QED  BY <1>0, <2>0, <2>2, <3>1, <4>1, Zenon DEF TypeOK
    <3>4. VersionBound' /\ CoalesceTokenUnique' /\ TimerOfValid'
      BY <2>0, <2>1, <2>2, <1>0 DEF VersionBound, CoalesceTokenUnique,
         TimerOfValid
    <3>5. PublishedValid'
      BY <1>0, <2>0, <3>2 DEF PublishedValid, AllValid
    <3>. QED  BY <3>3, <3>4, <3>5, Assemble
  <2>3. CASE Len(snapCh) = SnapChCap /\ retryCoalesceTimer
            /\ UNCHANGED snapCh
    <3>1. timers' = 0 /\ coalesceTimer' = coalesceTimer
      BY <2>1, <2>3 DEF retryCoalesceTimer
    <3>2. TypeOK'
      BY <1>0, <2>0, <2>3, <3>1 DEF TypeOK
    <3>3. VersionBound' /\ CoalesceTokenUnique' /\ TimerOfValid'
      BY <1>0, <2>0, <2>1, <3>1 DEF VersionBound, CoalesceTokenUnique,
         TimerOfValid
    <3>4. PublishedValid'
      BY <1>0, <2>0, <2>3 DEF PublishedValid
    <3>. QED  BY <3>2, <3>3, <3>4, Assemble
  <2>4. CASE CloneFails /\ timers' = timers - 1
            /\ UNCHANGED <<snapCh, coalesceTimer>>
    <3>1. TypeOK'
      BY <1>0, <2>0, <2>1, <2>4 DEF TypeOK
    <3>2. VersionBound' /\ CoalesceTokenUnique' /\ TimerOfValid'
      BY <1>0, <2>0, <2>1, <2>4 DEF VersionBound, CoalesceTokenUnique,
         TimerOfValid
    <3>3. PublishedValid'
      BY <1>0, <2>0, <2>4 DEF PublishedValid
    <3>. QED  BY <3>1, <3>2, <3>3, Assemble
  <2>. QED  BY <1>6, <2>2, <2>3, <2>4 DEF RunSend
<1>7. CASE RunRequest
  <2>0. reqCh \in Seq(Requesters) /\ reqCh # <<>> /\ reqCh' = Tail(reqCh)
    BY <1>0, <1>7 DEF RunRequest, TypeOK
  <2>1. reqCh' \in Seq(Requesters) /\ Len(reqCh') = Len(reqCh) - 1
        /\ Head(reqCh) \in Requesters
    BY <2>0, TakeHead
  <2>2. /\ reply' \in [Requesters -> Snapshots \cup {NoReply, NilReply}]
        /\ \A r \in Requesters : reply'[r] \notin {NoReply, NilReply}
                                   => Valid(reply'[r])
    BY <1>0, <1>7, <2>1 DEF RunRequest, PublishedValid, TypeOK
  <2>3. UNCHANGED <<loopState, cancelled, ch, produced, snap, coalesceTimer,
                    timers, snapCh, snapChClosed, rpc, mu, cpc, received>>
    BY <1>7 DEF RunRequest
  <2>4. TypeOK'
    <3>1. Len(reqCh') <= ReqChCap
      BY <1>0, <2>1, TypeFacts DEF ReqChCap
    <3>. QED  BY <1>0, <2>1, <2>2, <2>3, <3>1, Zenon DEF TypeOK
  <2>5. VersionBound' /\ CoalesceTokenUnique' /\ TimerOfValid'
    BY <1>0, <2>3 DEF VersionBound, CoalesceTokenUnique, TimerOfValid
  <2>6. PublishedValid'
    BY <1>0, <2>2, <2>3 DEF PublishedValid
  <2>. QED  BY <2>4, <2>5, <2>6, Assemble
<1>8. ASSUME NEW r \in Requesters, ReqLock(r) PROVE IInv'
  BY <1>8, KeepData DEF ReqLock, IInv, TypeOK
<1>9. ASSUME NEW r \in Requesters, ReqSend(r) PROVE IInv'
  <2>1. reqCh' \in Seq(Requesters) /\ Len(reqCh') = Len(reqCh) + 1
    BY <1>0, <1>9, PutLast DEF ReqSend, TypeOK
  <2>2. UNCHANGED <<loopState, cancelled, ch, produced, snap, coalesceTimer,
                    timers, snapCh, snapChClosed, mu, cpc, received>>
    BY <1>9 DEF ReqSend
  <2>3. /\ reply' \in [Requesters -> Snapshots \cup {NoReply, NilReply}]
        /\ \A q \in Requesters : reply'[q] \notin {NoReply, NilReply}
                                   => Valid(reply'[q])
    BY <1>0, <1>9 DEF ReqSend, PublishedValid, TypeOK
  <2>4. rpc' \in [Requesters -> {"idle", "send", "wait"}]
        /\ Len(reqCh) < ReqChCap
    BY <1>0, <1>9 DEF ReqSend, TypeOK
  <2>5. TypeOK'
    <3>1. Len(reqCh') <= ReqChCap
      BY <1>0, <2>1, <2>4, TypeFacts DEF ReqChCap
    <3>. QED  BY <1>0, <2>1, <2>2, <2>3, <2>4, <3>1, Zenon DEF TypeOK
  <2>6. VersionBound' /\ CoalesceTokenUnique' /\ TimerOfValid'
    BY <1>0, <2>2 DEF VersionBound, CoalesceTokenUnique, TimerOfValid
  <2>7. PublishedValid'
    BY <1>0, <2>2, <2>3 DEF PublishedValid
  <2>. QED  BY <2>5, <2>6, <2>7, Assemble
<1>10. ASSUME NEW r \in Requesters, ReqRecv(r) PROVE IInv'
  BY <1>10, KeepData DEF ReqRecv, IInv, TypeOK
<1>11. CASE ConsumerRecv
  <2>0. UNCHANGED <<loopState, cancelled, ch, produced, snap, coalesceTimer,
                    timers, snapChClosed, reqCh, reply, rpc, mu>>
    BY <1>11 DEF ConsumerRecv
  <2>1. CASE snapCh # <<>> /\ received' = Head(snapCh)
            /\ snapCh' = Tail(snapCh) /\ cpc' = "notify"
    <3>1. /\ snapCh' \in Seq(Snapshots) /\ Len(snapCh') = Len(snapCh) - 1
          /\ received' \in Snapshots
      BY <1>0, <2>1, TakeHead DEF TypeOK
    <3>2. Valid(received') /\ AllValid(snapCh')
      BY <1>0, <2>1, TailValid DEF TypeOK
    <3>3. TypeOK'
      <4>1. Len(snapCh') <= SnapChCap
        BY <1>0, <3>1, TypeFacts DEF SnapChCap
      <4>. QED  BY <1>0, <2>0, <2>1, <3>1, <4>1, Zenon DEF TypeOK
    <3>4. VersionBound' /\ CoalesceTokenUnique' /\ TimerOfValid'
      BY <1>0, <2>0 DEF VersionBound, CoalesceTokenUnique, TimerOfValid
    <3>5. PublishedValid'
      BY <1>0, <2>0, <3>2 DEF PublishedValid, AllValid
    <3>. QED  BY <3>3, <3>4, <3>5, Assemble
  <2>2. CASE snapCh = <<>> /\ snapChClosed /\ cpc' = "done"
            /\ UNCHANGED <<received, snapCh>>
    <3>1. cpc' \in {"recv", "notify", "done"}
      BY <2>2
    <3>. QED  BY <2>0, <2>2, <3>1, KeepData DEF IInv, TypeOK
  <2>. QED  BY <1>11, <2>1, <2>2 DEF ConsumerRecv
<1>12. CASE ConsumerNotify
  BY <1>12, KeepData DEF ConsumerNotify, IInv, TypeOK
<1>13. CASE UNCHANGED vars
  BY <1>13, KeepData DEF vars, IInv, TypeOK
<1>. QED
  BY <1>1, <1>2, <1>3, <1>4, <1>5, <1>6, <1>7, <1>8, <1>9, <1>10, <1>11,
     <1>12, <1>13 DEF Next

-----------------------------------------------------------------------------
(* The state goroutine keeps every variable in its type: s.ch, snapCh and  *)
(* reqCh never hold more than make(chan, n) allows.                        *)
THEOREM TypeCorrect == Spec => []TypeOK
<1>1. IInv => TypeOK
  BY DEF IInv
<1>. QED  BY <1>1, InitIInv, NextIInv, PTL DEF Spec

(* run never has more than one AfterFunc goroutine pending on sendCh, and  *)
(* one is pending only while coalesceTimer is set.                         *)
THEOREM CoalesceTokenUniqueHolds == Spec => []CoalesceTokenUnique
<1>1. IInv => CoalesceTokenUnique
  BY DEF IInv
<1>. QED  BY <1>1, InitIInv, NextIInv, PTL DEF Spec

(* Only valid snapshots reach snapCh, the Manager's consumer and the       *)
(* callers of CurrentSnapshot.                                             *)
THEOREM PublishedValidHolds == Spec => []PublishedValid
<1>1. IInv => PublishedValid
  BY DEF IInv
<1>. QED  BY <1>1, InitIInv, NextIInv, PTL DEF Spec

-----------------------------------------------------------------------------
(***************************************************************************)
(* The request channel.  A caller of CurrentSnapshot queued on reqCh waits *)
(* on its reply channel, which is still empty.                             *)
(***************************************************************************)
ReqInv ==
    \A i \in 1..Len(reqCh) : rpc[reqCh[i]] = "wait" /\ reply[reqCh[i]] = NoReply

(* A step that leaves reqCh, rpc and reply alone keeps ReqInv and is a     *)
(* ReplyToWaiter step.                                                     *)
LEMMA ReqUnchanged ==
    ASSUME ReqInv, UNCHANGED <<reqCh, rpc, reply>>
    PROVE  ReqInv' /\ ReplyToWaiter
  BY DEF ReqInv, ReplyToWaiter

LEMMA InitReqInv == Init => ReqInv
  BY DEF Init, ReqInv

(* Every step keeps ReqInv and answers only a waiting caller: ReqSend      *)
(* queues the caller on an empty reqCh, with a fresh reply channel;        *)
(* RunRequest answers the head of reqCh, which ReqInv says is waiting on   *)
(* an empty channel; ReqLock and ReqRecv move a caller that is not queued. *)
LEMMA NextReqInv ==
    IInv /\ ReqInv /\ [Next]_vars => ReqInv' /\ ReplyToWaiter
<1> SUFFICES ASSUME IInv, ReqInv, [Next]_vars PROVE ReqInv' /\ ReplyToWaiter
  OBVIOUS
<1>0. /\ TypeOK
      /\ Len(reqCh) \in Nat /\ Len(reqCh) <= 1
  BY TypeFacts DEF IInv
<1>1. ASSUME NEW r \in Requesters, ReqLock(r) PROVE ReqInv' /\ ReplyToWaiter
  <2>1. UNCHANGED <<reqCh, reply>> /\ rpc' = [rpc EXCEPT ![r] = "send"]
        /\ rpc[r] = "idle"
    BY <1>1 DEF ReqLock
  <2>2. ReqInv'
    BY <1>0, <2>1 DEF ReqInv, TypeOK
  <2>3. ReplyToWaiter
    BY <2>1 DEF ReplyToWaiter
  <2>. QED  BY <2>2, <2>3
<1>2. ASSUME NEW r \in Requesters, ReqSend(r) PROVE ReqInv' /\ ReplyToWaiter
  <2>1. /\ rpc[r] = "send" /\ Len(reqCh) < ReqChCap
        /\ reqCh' = Append(reqCh, r)
        /\ reply' = [reply EXCEPT ![r] = NoReply]
        /\ rpc' = [rpc EXCEPT ![r] = "wait"]
    BY <1>2 DEF ReqSend
  <2>2. reqCh = <<>>
    BY <1>0, <2>1, EmptySeq DEF ReqChCap, TypeOK
  <2>3. reqCh' = <<r>>
    BY <2>1, <2>2
  <2>4. ReqInv'
    BY <1>0, <2>1, <2>3 DEF ReqInv, TypeOK
  <2>5. ReplyToWaiter
    BY <1>0, <2>1 DEF ReplyToWaiter, TypeOK
  <2>. QED  BY <2>4, <2>5
<1>3. ASSUME NEW r \in Requesters, ReqRecv(r) PROVE ReqInv' /\ ReplyToWaiter
  <2>1. /\ UNCHANGED <<reqCh, reply>>
        /\ rpc' = [rpc EXCEPT ![r] = "idle"]
        /\ reply[r] # NoReply
    BY <1>3 DEF ReqRecv
  <2>2. ReqInv'
    BY <1>0, <2>1 DEF ReqInv, TypeOK
  <2>3. ReplyToWaiter
    BY <2>1 DEF ReplyToWaiter
  <2>. QED  BY <2>2, <2>3
<1>4. CASE RunRequest
  <2>1. /\ reqCh # <<>> /\ reqCh' = Tail(reqCh) /\ UNCHANGED rpc
        /\ \/ reply' = reply
           \/ \E v : reply' = [reply EXCEPT ![Head(reqCh)] = v]
    BY <1>4 DEF RunRequest
  <2>2. /\ Len(reqCh) = 1 /\ Head(reqCh) = reqCh[1]
        /\ Len(reqCh') = 0
    <3>1. reqCh \in Seq(Requesters)
      BY <1>0, Zenon DEF TypeOK
    <3>2. Len(reqCh) \in Nat \ {0} /\ Len(Tail(reqCh)) = Len(reqCh) - 1
      BY <2>1, <3>1, TakeHead
    <3>. QED  BY <1>0, <2>1, <3>2
  <2>3. ReqInv'
    BY <2>2 DEF ReqInv
  <2>4. rpc[Head(reqCh)] = "wait" /\ reply[Head(reqCh)] = NoReply
    BY <2>2 DEF ReqInv
  <2>5. ReplyToWaiter
    BY <1>0, <2>1, <2>4 DEF ReplyToWaiter, TypeOK
  <2>. QED  BY <2>3, <2>5
<1>5. CASE UNCHANGED <<reqCh, rpc, reply>>
  BY <1>5, ReqUnchanged
<1>. QED
  BY <1>1, <1>2, <1>3, <1>4, <1>5
  DEF Next, vars, Watch, Close, CacheDeliver, RunDone, RunUpdate, RunSend,
      ConsumerRecv, ConsumerNotify

(* run answers each CurrentSnapshot call at most once and only while its   *)
(* caller is blocked on the reply channel, so its send on that channel     *)
(* never blocks and no answer goes to a caller that has returned.          *)
THEOREM ReplyOnlyToWaiterHolds == Spec => ReplyOnlyToWaiter
<1>1. IInv /\ ReqInv /\ [Next]_vars => (IInv /\ ReqInv)'
  BY NextIInv, NextReqInv
<1>2. IInv /\ ReqInv /\ [Next]_vars => [ReplyToWaiter]_vars
  BY NextReqInv
<1>. QED
  BY <1>1, <1>2, InitIInv, InitReqInv, PTL DEF Spec, ReplyOnlyToWaiter

-----------------------------------------------------------------------------
(***************************************************************************)
(* Refinement of AbstractSnapshot.  DeliveryInv relates the copies in      *)
(* snapCh to the consumer's and to the live snapshot: a queued copy is     *)
(* newer than the received one and contained in the live one, and while    *)
(* the coalesce timer is set the live snapshot is newer than every copy.   *)
(* The last clause is what makes the next send a newer copy: the timer is  *)
(* armed only right after an update and cleared by the send.               *)
(***************************************************************************)
DeliveryInv ==
    /\ received.version <= snap.version
    /\ \A i \in 1..Len(snapCh) :
          /\ received.version < snapCh[i].version
          /\ snapCh[i].version <= snap.version
          /\ snapCh[i].parts \subseteq snap.parts
    /\ coalesceTimer =>
          /\ received.version < snap.version
          /\ \A i \in 1..Len(snapCh) : snapCh[i].version < snap.version

LEMMA InitDeliveryInv == Init => DeliveryInv
  BY DEF Init, DeliveryInv

(* Arithmetic: a version that leaves room for at least one queued event  *)
(* below a produced count within MaxEvents is below MaxEvents.            *)
LEMMA RoomBelowBound ==
    ASSUME NEW v \in 0..MaxEvents, NEW l \in Nat, NEW p \in Int,
           v + l <= p, l >= 1, p <= MaxEvents
    PROVE  v < MaxEvents
  BY Assumptions

(* A step that leaves snap, received, snapCh and coalesceTimer alone keeps *)
(* DeliveryInv.                                                            *)
LEMMA DeliveryUnchanged ==
    ASSUME DeliveryInv, UNCHANGED <<snap, received, snapCh, coalesceTimer>>
    PROVE  DeliveryInv'
  BY DEF DeliveryInv

(* The numeric facts about snapshots that TypeOK gives.                    *)
LEMMA SnapFacts ==
    ASSUME TypeOK
    PROVE  /\ snap.version \in Nat /\ received.version \in Nat
           /\ \A i \in 1..Len(snapCh) : snapCh[i] \in Snapshots
  <1>1. snapCh \in Seq(Snapshots) /\ snap \in Snapshots /\ received \in Snapshots
    BY Zenon DEF TypeOK
  <1>2. snap.version \in Nat /\ received.version \in Nat
    BY <1>1 DEF Snapshots
  <1>3. \A i \in 1..Len(snapCh) : snapCh[i] \in Snapshots
    BY <1>1
  <1>. QED  BY <1>2, <1>3

THEOREM NextDeliveryInv == IInv /\ DeliveryInv /\ [Next]_vars => DeliveryInv'
<1> SUFFICES ASSUME IInv, DeliveryInv, [Next]_vars PROVE DeliveryInv'
  OBVIOUS
<1>0. /\ TypeOK /\ CoalesceTokenUnique
      /\ Len(snapCh) \in Nat /\ Len(snapCh) <= 1
      /\ snap.version \in Nat /\ received.version \in Nat
      /\ \A i \in 1..Len(snapCh) : snapCh[i] \in Snapshots
  BY TypeFacts, SnapFacts DEF IInv
<1>1. CASE RunUpdate
  <2>1. CASE Head(ch).err
    BY <1>1, <2>1, DeliveryUnchanged DEF RunUpdate
  <2>2. CASE ~Head(ch).err
    <3>1. /\ snap' = handleUpdate(snap, Head(ch))
          /\ UNCHANGED <<received, snapCh>>
      BY <1>1, <2>2 DEF RunUpdate
    <3>2. snap'.version = snap.version + 1 /\ snap.parts \subseteq snap'.parts
      BY <3>1 DEF handleUpdate
    <3>. QED  BY <1>0, <3>1, <3>2 DEF DeliveryInv, Snapshots
  <2>. QED  BY <2>1, <2>2
<1>2. CASE RunSend
  <2>0. UNCHANGED <<snap, received>> /\ timers > 0
    BY <1>2 DEF RunSend
  <2>1. coalesceTimer
    <3>1. timers = 1
      BY <1>0, <2>0, TypeFacts DEF CoalesceTokenUnique
    <3>. QED  BY <1>0, <3>1, Zenon DEF CoalesceTokenUnique
  <2>2. CASE Len(snapCh) < SnapChCap /\ snapCh' = Append(snapCh, snap)
             /\ coalesceTimer' = FALSE
    <3>1. snapCh = <<>>
      BY <1>0, <2>2, EmptySeq DEF SnapChCap, TypeOK
    <3>2. snapCh' = <<snap>>
      BY <2>2, <3>1
    <3>3. received.version < snap.version
      BY <2>1 DEF DeliveryInv
    <3>. QED  BY <1>0, <2>0, <2>2, <3>2, <3>3 DEF DeliveryInv
  <2>3. CASE Len(snapCh) = SnapChCap /\ retryCoalesceTimer /\ UNCHANGED snapCh
    <3>1. UNCHANGED coalesceTimer
      BY <2>1, <2>3 DEF retryCoalesceTimer
    <3>. QED  BY <2>0, <2>3, <3>1, DeliveryUnchanged
  <2>4. CASE CloneFails /\ UNCHANGED <<snapCh, coalesceTimer>>
    BY <2>0, <2>4, DeliveryUnchanged
  <2>. QED  BY <1>2, <2>2, <2>3, <2>4 DEF RunSend
<1>3. CASE ConsumerRecv
  <2>0. UNCHANGED <<snap, coalesceTimer>>
    BY <1>3 DEF ConsumerRecv
  <2>1. CASE snapCh # <<>> /\ received' = Head(snapCh) /\ snapCh' = Tail(snapCh)
    <3>1. snapCh \in Seq(Snapshots)
      BY <1>0, Zenon DEF TypeOK
    <3>2. Len(snapCh) \in Nat \ {0} /\ Len(Tail(snapCh)) = Len(snapCh) - 1
      BY <2>1, <3>1, TakeHead
    <3>3. Len(snapCh) = 1 /\ Len(snapCh') = 0 /\ received' = snapCh[1]
      BY <1>0, <2>1, <3>2
    <3>. QED  BY <1>0, <2>0, <3>3 DEF DeliveryInv
  <2>2. CASE UNCHANGED <<received, snapCh>>
    BY <2>0, <2>2, DeliveryUnchanged
  <2>. QED  BY <1>3, <2>1, <2>2 DEF ConsumerRecv
<1>4. CASE UNCHANGED <<snap, received, snapCh, coalesceTimer>>
  BY <1>4, DeliveryUnchanged
<1>. QED
  BY <1>1, <1>2, <1>3, <1>4
  DEF Next, vars, Watch, Close, CacheDeliver, RunDone, RunRequest, ReqLock,
      ReqSend, ReqRecv, ConsumerNotify

(* A step that leaves snap, received and the consumer alone is an         *)
(* abstract stutter.                                                       *)
LEMMA SnapStutter ==
    ASSUME UNCHANGED <<snap, received, cpc>>
    PROVE  [ASnap!Next]_ASnap!avars
  BY DEF ASnap!avars

THEOREM SnapInitRefines == Init => ASnap!Init
  BY DEF Init, ASnap!Init

(* Every step maps to an abstract step or a stutter: a handled event that  *)
(* is not an error is an Update, the consumer's receive of a copy is a     *)
(* Deliver and its notify a Notify, and every other step hides.            *)
THEOREM SnapNextRefines ==
    IInv /\ DeliveryInv /\ [Next]_vars => [ASnap!Next]_ASnap!avars
<1> SUFFICES ASSUME IInv, DeliveryInv, [Next]_vars
             PROVE  [ASnap!Next]_ASnap!avars
  OBVIOUS
<1>0. /\ TypeOK /\ VersionBound /\ AllValid(snapCh)
      /\ Len(ch) \in Nat /\ produced \in 0..MaxEvents
      /\ \A i \in 1..Len(snapCh) : snapCh[i] \in Snapshots
  BY TypeFacts, SnapFacts DEF IInv, PublishedValid, AllValid
<1>1. CASE RunUpdate
  <2>1. CASE Head(ch).err
    BY <1>1, <2>1, SnapStutter DEF RunUpdate
  <2>2. CASE ~Head(ch).err
    <3>1. /\ ch # <<>> /\ ch \in Seq(Events)
          /\ snap' = handleUpdate(snap, Head(ch))
          /\ UNCHANGED <<received, cpc>>
      BY <1>0, <1>1, <2>2, Zenon DEF RunUpdate, TypeOK
    <3>2. Head(ch) \in Events /\ Len(ch) \in Nat \ {0}
      BY <3>1, TakeHead
    <3>3. snap.version < MaxEvents
      <4>1. snap \in Snapshots /\ produced \in 0..MaxEvents /\ VersionBound
        BY <1>0 DEF TypeOK
      <4>2. snap.version \in 0..MaxEvents
        BY <4>1 DEF Snapshots
      <4>3. snap.version + Len(ch) <= produced
        BY <4>1 DEF VersionBound
      <4>4. /\ Len(ch) \in Nat /\ Len(ch) >= 1
            /\ produced \in Int /\ produced <= MaxEvents
        BY <3>2, <4>1
      <4>. QED  BY <4>2, <4>3, <4>4, RoomBelowBound
    <3>4. ASnap!Update(Head(ch).id)
      BY <3>1, <3>3 DEF ASnap!Update, handleUpdate
    <3>5. Head(ch).id \in Watches
      BY <3>2 DEF Events
    <3>. QED  BY <3>4, <3>5 DEF ASnap!Next
  <2>. QED  BY <2>1, <2>2
<1>2. CASE ConsumerRecv
  <2>1. CASE snapCh # <<>> /\ received' = Head(snapCh) /\ snapCh' = Tail(snapCh)
             /\ cpc' = "notify"
    <3>1. /\ cpc = "recv" /\ UNCHANGED snap
          /\ Len(snapCh) \in Nat \ {0} /\ Head(snapCh) = snapCh[1]
      BY <1>2, <2>1, EmptySeq DEF ConsumerRecv
    <3>2. /\ Head(snapCh) \in Snapshots
          /\ Valid(Head(snapCh))
          /\ received.version < Head(snapCh).version
          /\ Head(snapCh).version <= snap.version
          /\ Head(snapCh).parts \subseteq snap.parts
      BY <1>0, <3>1 DEF DeliveryInv, AllValid
    <3>3. ASnap!Snapshots = Snapshots /\ (ASnap!Valid(Head(snapCh)) <=> Valid(Head(snapCh)))
      BY DEF ASnap!Snapshots, Snapshots, ASnap!Valid, Valid
    <3>4. ASnap!Deliver
      BY <2>1, <3>1, <3>2, <3>3 DEF ASnap!Deliver
    <3>. QED  BY <3>4 DEF ASnap!Next
  <2>2. CASE snapCh = <<>> /\ snapChClosed /\ cpc' = "done"
             /\ UNCHANGED <<received, snapCh>>
    <3>1. cpc = "recv" /\ UNCHANGED snap
      BY <1>2 DEF ConsumerRecv
    <3>. QED  BY <2>2, <3>1 DEF ASnap!avars
  <2>. QED  BY <1>2, <2>1, <2>2 DEF ConsumerRecv
<1>3. CASE ConsumerNotify
  <2>1. ASnap!Notify
    BY <1>3 DEF ConsumerNotify, ASnap!Notify
  <2>. QED  BY <2>1 DEF ASnap!Next
<1>4. CASE UNCHANGED <<snap, received, cpc>>
  BY <1>4, SnapStutter
<1>. QED
  BY <1>1, <1>2, <1>3, <1>4
  DEF Next, vars, Watch, Close, CacheDeliver, RunDone, RunSend, RunRequest,
      ReqLock, ReqSend, ReqRecv

(* The state goroutine implements AbstractSnapshot for every set of        *)
(* watches and requesters and every bound: the Manager's consumer receives *)
(* only valid clones, each of a later snapshot than the one before and     *)
(* none of a snapshot later than the live one.                             *)
THEOREM SnapshotRefines == Spec => ImplementsAbstractSnapshot
<1>1. IInv /\ DeliveryInv /\ [Next]_vars => (IInv /\ DeliveryInv)'
  BY NextIInv, NextDeliveryInv
<1>. QED
  BY <1>1, InitIInv, InitDeliveryInv, SnapInitRefines, SnapNextRefines, PTL
  DEF Spec, ImplementsAbstractSnapshot, ASnap!SafetySpec

=============================================================================
