# TLA+ models of Consul's anti-entropy syncer and proxycfg state

This directory models two concurrent components of the agent:

* `src/agent/local/ae/ae.go`: the **StateSyncer**. It keeps the local agent
  state in sync with the catalog. It does this with periodic full syncs,
  triggered partial syncs and a Pause/Resume refcount used during reloads.
* `src/unnamed/part_000` (proxycfg `state.go`): the **per-proxy state
  goroutine**. It watches cache data for one proxy, assembles a
  `ConfigSnapshot` and publishes it on `snapCh`. Its transparent-mode
  connect proxy maintains a tree of cache subscriptions: discovery chains,
  then upstream targets and mesh gateways.

## Parts and how they interact

| Part | Code | Interacts with | Module |
|---|---|---|---|
| StateSyncer Run / sync / fullSync | ae.go 105-173 | SyncFull and SyncChanges triggers, timers, ShutdownCh, `State.SyncFull` / `SyncChanges` | `AntiEntropy` |
| Pause / Resume / isPaused | ae.go 220-257 | the agent's reload (pausers), Run via `isPaused` and the SyncChanges trigger | `AntiEntropy` |
| Trigger (one-slot, non-blocking) | trigger.go, not in the sources | | `AntiEntropy`, from the spec |
| scaleThreshold / scaleFactor / Jitter | ae.go 186-217 | the delays of fullSync (abstracted there to zero / positive) | `Delayer` |
| what the state goroutine promises the snapCh consumer | state.go 138-179, 696-741 | the Manager's consumer | `AbstractSnapshot` |
| state.Watch / Close / run / CurrentSnapshot | state.go 138-240, 678-782, 1949-1955 | cache.Notify goroutines (s.ch), coalesce timer goroutines (sendCh), the Manager's snapCh consumer and lock | `ProxyState` |
| connect-proxy handleUpdate | state.go 784-947 | the snapshot | `ProxyState`, abstracted |
| upstream watch tree | state.go 809-906, 949-1051, 1066-1248, 1849-1881 | cache subscriptions and their cancel funcs | `UpstreamWatches` |
| ingress-gateway gateway-services case | state.go 1768-1809 | watchDiscoveryChain and handleUpdateUpstreams, shared with the connect proxy | `UpstreamWatches` (Kind = ingress-gateway) |
| terminating and mesh gateway handlers, ingress leaf and config cases | state.go 488-660, 1250-1767, 1883-1947 | the same watch-map pattern | not modelled |
| Manager (manager.go) | not in the sources | calls Watch/Close/CurrentSnapshot, drains snapCh under its lock | `ProxyState` environment, from the spec |

## Modules

### `AntiEntropy`: the StateSyncer

State and code correspondence:

* `spc` is where Run is:
  * `"full"`: the top of the fullSync loop.
  * `"syncFull"`: inside `State.SyncFull`.
  * `"loop"`: the select of sync.
  * `"syncChanges"`: inside `State.SyncChanges`.
  * `"stopped"`: Run has returned.
* `delayPos` is fullSync's `delay > 0`. Durations are abstracted to zero versus positive: `Jitter` may return 0, while the retry delay and the interval are positive.
* `nextFullArmed` is `timerNextFullSync`, which will deliver.
* `fullTrig` and `changesTrig` are the buffered values of the two Triggers.
* `paused` is `s.paused`, and `chPaused` is `s.chPaused != nil`.
* Each pauser has a pc (`ppc`). Resume's `SyncChanges.Trigger()` runs after `pauseLock` is released, so it is a separate step (`ResumeTrigger`).
* `isPaused()` is read under `pauseLock`, and the lock is released before `SyncFull` or `SyncChanges` runs. The spec keeps the work under that lock O(1). A Pause that lands during a sync call therefore takes effect at the next check, and the model lets the call finish. No property claims otherwise.
* `dirty` and `drift` abstract the synchronised data:
  * `dirty`: local changes not yet pushed.
  * `drift`: the remote catalog has drifted. Only SyncFull repairs drift.

Actions:

* One action per case of each select: `FullDelayElapsed`, `FullRetrigger`, `FullShutdown`, `LoopFullTrig`, `LoopTimer`, `LoopChanges`, `LoopShutdown`.
* One action per outcome of each sync call: `SyncFullOk`, `SyncFullFail`, `SyncChangesDone`.
* `FullSyncZero` for the `delay == 0` branch, `Pause`, `Resume`, `ResumeTrigger`.
* The environment: `LocalChange`, `ServerJoined`, `RemoteDrift`, `Shutdown`.

Fairness (`Fairness`):

* Weak fairness on the Run goroutine's steps and on the timers.
* Strong fairness on the select cases. Go picks at random among the ready cases, so a case that is ready infinitely often is taken.
* Weak fairness on each pauser's Resume. The agent always resumes after a reload.
* Strong fairness on `SyncFullOk`. This assumes the servers are not unreachable forever.
* The environment is not required to act.

### `ProxyState`: the state goroutine

State:

* `loopState` (not started / running / failed / exited) and `cancelled` (the Watch context).
* `ch` is `s.ch`.
* `snap` is the snapshot, abstracted to the correlation ids that delivered (what `Valid()` reads) plus a version counting successful `handleUpdate` calls.
* `coalesceTimer` is `coalesceTimer != nil`. `timers` counts the AfterFunc goroutines that have not yet sent on `sendCh`.
* `snapCh`, `reqCh` and `snapChClosed` model the channels.
* The environment: each requester's `reply` channel and pc (`rpc`), the manager lock `mu`, the consumer's pc `cpc`, and the last snapshot it `received`.

Actions:

* `RunDone`, `RunUpdate`, `RunSend` and `RunRequest` are the four select cases of `run`. Each includes the code after the select that it reaches. `RunUpdate` includes the trailing `if snap.Valid() { if coalesceTimer == nil {...} }` (`armCoalesceTimer`).
* `RunSend` has three outcomes:
  * the send succeeds;
  * the `default:` branch with `retryCoalesceTimer`;
  * a failed `Clone`.
* `RunRequest` also has three: a nil reply, a clone, or a failed `Clone` without a reply.
* `RunSend` is one atomic step. Its `default:` branch means run never waits on `snapCh`. A blocking send, which would stall the whole select loop (the deadlock of PR #9689), cannot be expressed in a model where the select cases are separate actions. `RequestsAnswered` checks the answer to requests, not that absence.
* `CacheDeliver` models the cache. It sends while the context is live and blocks while `s.ch` is full.
* `ReqLock` / `ReqSend` / `ReqRecv` model `Manager.CurrentSnapshot` around `state.CurrentSnapshot`.
* `ConsumerRecv` / `ConsumerNotify` model the Manager goroutine that drains `snapCh` and takes the lock to notify.

`Valid`, the cache and the Manager are not in the sources. They are modelled from the spec.

Fairness:

* Weak fairness on the run goroutine, on requesters already inside `CurrentSnapshot`, and on the consumer's receive.
* Strong fairness on the consumer's lock acquisition. Go's mutex starvation mode hands the lock to a waiter that keeps losing it.
* The cache, Watch, Close and new calls are not required to happen.

### `UpstreamWatches`: the transparent-proxy upstream watch tree

* `live[w]` counts the cache subscriptions with correlation id `w` whose context is live. A subscription whose cancel func is dropped stays live.
* `wdc`, `wu` and `wg` are the keys of `WatchedDiscoveryChains`, `WatchedUpstreams[svc]` and `WatchedGateways[svc]`, the maps that hold cancel funcs.
* `chains`, `wue` and `wge` are `DiscoveryChain`, `WatchedUpstreamEndpoints` and `WatchedGatewayEndpoints`.

Actions:

* `HandleUpstreams` is the `intentionUpstreamsID` case: the `watchDiscoveryChain` calls, then the five cleanup loops.
* `HandleChain` is the `discovery-chain:` case with the whole of `resetWatchesFromChain`.
* `HandleTarget` and `HandleGateway` store endpoints.
* `HandleGatewayServices` is the ingress gateway's `gatewayServicesWatchID` case: `watchDiscoveryChain` for every listed service, then cancelling the chain watches of services no longer listed. `watchDiscoveryChain`'s already-watched check reads `snap.ConnectProxy.WatchedDiscoveryChains`. That map is empty in an ingress snapshot, so every call opens a new watch.
* `HandleEvent` dispatches on the head of `s.ch`.
* `Deliver` is a live subscription sending on `s.ch`. The root watch that lists the upstreams is intention-upstreams for `Kind = "connect-proxy"` and gateway-services for `Kind = "ingress-gateway"`.

All upstreams are intention-inferred in the local datacenter, so the remote-datacenter `continue` never applies. The model has no fairness: its only properties are invariants.

### `Delayer`: scaleFactor and Jitter

* `scaleFactor(n)` is 1 up to 128 nodes. Above that it is `CeilLog2Excess(n) + 1`, where `CeilLog2Excess(n)` is the least `k` with `n <= doubled[k]`. The recursive function `doubled[k]` is `128 * 2^k`, written out because the provers have no theory of `^`. That is the float expression `ceil(log2(n) - 7)`: `math.Log2` is exact on powers of two, and elsewhere `log2(n) - 7` is not an integer.
* `Jitter` is the set of values `lib.RandomStagger` may return.
* The behaviour walks `nodes` from 0 to `MaxNodes` so that TLC evaluates the properties at every cluster size.
* The scaleThreshold comment (ae.go:199) says the delay doubles with each doubling of the cluster and that the factor is 8 at 8192 nodes. The code, which the spec (section 8) agrees with, adds one per doubling: `ScaleMatchesReference` pins this down, and the factor at 8192 nodes is 7. The comment is stale.
* `refScale`, the reference in `MC_Delayer`, is a halving recursion written as a function over `Nat`, not a `RECURSIVE` operator, so that `DelayerProofs` (which extends `MC_Delayer`) can reason about it.

### `AbstractSnapshot`: what the state goroutine promises its consumer

* `snap` is one snapshot, with the watches that delivered and a version. `Update(w)` applies an event of watch `w` (a `handleUpdate` that did not fail).
* `received` is the copy the consumer last took. `Deliver` hands it a valid copy newer than the one it holds and no newer than, and contained in, the live snapshot.
* `notifying` is true while the consumer passes that copy on. `Notify` ends it, and only then may the next `Deliver` happen.
* It promises no delivery at all: `LatestEventuallyDelivered` is the liveness question, and the run loop fails it (proxystate_stuck).

`ProxyState` defines `ASnap == INSTANCE AbstractSnapshot` with `snap` and `received` mapped to themselves and `notifying` to `cpc = "notify"`.

* Without `notifying`, a snapshot delivered twice would be an abstract stutter. With it, the second copy is a `Deliver` whose version is not newer, which the abstract spec forbids.
* The channels, the coalesce timer, the requests and the lock are hidden. Their steps are stutters.

### MC modules

`MC_AntiEntropy`, `MC_ProxyState`, `MC_UpstreamWatches` and `MC_Delayer` give the
constants model values (or numbers). `MC_UpstreamWatches` declares symmetry over services
and over targets. Every action treats their names alike, and the run checks
no liveness property.

## Runs

| Run | cfg | Checks | Result |
|---|---|---|---|
| ae_safety | MC_AntiEntropy.cfg | TypeOK, PauseRefcount, AntiEntropyArmed, InSyncEventually | pass |
| proxystate_safety | MC_ProxyState.cfg | CoalesceTokenUnique, PublishedValid, ReplyOnlyToWaiter, ImplementsAbstractSnapshot (Clone may fail) | pass |
| proxystate_requests | MC_ProxyState_requests.cfg | RequestsAnswered (Clone never fails) | pass |
| proxystate_stuck | MC_ProxyState_stuck.cfg | LatestEventuallyDelivered | violation |
| proxystate_clone | MC_ProxyState_clone.cfg | RequestsAnswered (Clone may fail) | violation |
| upstreams_safety | MC_UpstreamWatches.cfg | TypeOK, ChainWatchesExact, RegisteredWatchesLive | pass |
| upstreams_leak | MC_UpstreamWatches_leak.cfg | LiveWatchesHeld | violation |
| upstreams_stale | MC_UpstreamWatches_stale.cfg | StoredResultsHeld | violation |
| delayer_reference | MC_Delayer.cfg | ScaleMatchesReference | pass |
| proxystate_timerleak | MC_ProxyState_timerleak.cfg | NoTimerAfterExit | violation |
| upstreams_ingress | MC_UpstreamWatches_ingress.cfg | TypeOK (ingress gateway) | pass |
| upstreams_ingress_chains | MC_UpstreamWatches_ingress_chains.cfg | ChainWatchesExact (ingress gateway) | violation |

What the properties say:

* **PauseRefcount**: `paused` equals the number of pausers between Pause and Resume, and `chPaused` exists exactly while it is positive. With two pausers whose pauses overlap, every interleaving of the two refcount updates is covered.
* **AntiEntropyArmed**: whenever Run waits in sync, the periodic timer is armed.
* **InSyncEventually**: every change is eventually synced unless the agent shuts down. It holds through dropped SyncChanges triggers, while paused, and through failed syncs.
* **CoalesceTokenUnique**: at most one timer goroutine is pending.
* **PublishedValid**: only valid snapshots leave run.
* **ReplyOnlyToWaiter** (action property): a step that changes a requester's reply either consumes it (the requester was in the receive) or fills an empty reply of a requester waiting in `CurrentSnapshot`. Run never answers a request nobody waits for, and never overwrites an answer not yet read.
* **ImplementsAbstractSnapshot**: the state goroutine with the Manager consumer implements `AbstractSnapshot!SafetySpec` under the mapping above. The consumer receives only valid clones, strictly newer each time, and never newer than the live snapshot.
* **RequestsAnswered**: the lock-holding CurrentSnapshot caller always gets its answer. This is the deadlock of PR #9689, which the non-blocking send avoids.
* **ChainWatchesExact**: one chain subscription per watched upstream.
* **RegisteredWatchesLive**: every held cancel func belongs to a live subscription.
* **ScaleMatchesReference**: scaleFactor grows by exactly one (it does not double) each time the cluster doubles past 128 nodes. Proved in `DelayerProofs`.
* **NoTimerAfterExit**: once run has returned, no coalesce timer goroutine is left.
* **LiveWatchesHeld**: every live target or mesh-gateway subscription has its cancel func in `WatchedUpstreams` / `WatchedGateways` (spec section 8).
* **StoredResultsHeld**: stored endpoints have their handle in `WatchedUpstreams` / `WatchedGateways`, and an upstream without a chain watch has no chain and no target or gateway handles (spec sections 3 and 8).

`TypeOK` of `ProxyState` is not checked by a run: its channel bounds hold by the encoding of the channels as bounded sequences, and the proofs use it only as part of their inductive invariant.

The violations are the findings in PROJECT.json:

* **proxystate_stuck**: after one failed send, the `coalesceTimer == nil` check stops the retry. `coalesceTimer` stays non-nil, so no later update re-arms the timer either (line 772 checks the same condition): no snapshot is delivered again.
* **proxystate_clone**: a failed Clone leaves `CurrentSnapshot` blocked while it holds the manager lock.
* **upstreams_leak**: the intention-upstreams cleanup deletes the `WatchedUpstreams` and `WatchedGateways` entries of a dropped upstream without calling their cancel funcs (state.go:871). TLC's trace: s1 is listed, its chain {t1} and then an update listing nothing are queued; the chain is handled (the t1 watch is opened and registered), then the cleanup deletes the handle and the t1 subscription stays live. The stale results below do not break this property: a stale chain registers the watches it opens.
* **upstreams_stale**: a result is applied without checking that the watch that sent it is still held. TLC's trace is the discovery-chain case (state.go:973): s1's chain is queued behind the update that drops s1, and is handled after `cancelFn()`. It stores `DiscoveryChain[s1]` and opens and registers target watches for an upstream that is no longer listed. The upstream-target case (state.go:990) lacks the same check. Its trace is longer (9 states: a t1 result queued before s1 is dropped) and breaks the endpoint conjuncts. The leak above does not break this property, since the cleanup deletes every map entry of the dropped upstream.
* **proxystate_timerleak**: the trace is Close, then a cache event arms the coalesce timer before run sees `ctx.Done()`, then run returns. The AfterFunc goroutine then blocks forever on the unbuffered `sendCh`.
* **upstreams_ingress_chains**: on an ingress gateway every gateway-services update opens a duplicate chain watch and drops the previous cancel func (state.go:1850).

Each property of a passing run also has a mutant in PROJECT.json: a plausible bug in a mapped definition that the property catches.

### Bounds

* **AntiEntropy**: 2 pausers with up to 2 pauses each. This is enough for overlapping pauses, for a Resume that is not the last one, and for the paused retry path.
* **ProxyState**: the three required watches, 4 cache events, `s.ch` capacity 2 and one requester. The snapshot becomes valid after 3 events, and the fourth event updates it while one snapshot is buffered in snapCh: the case that fills snapCh and exercises the `default:` branch. A second requester adds nothing: the manager lock serialises requesters.
* **UpstreamWatches**: 2 services, 2 targets, 1 gateway datacenter, 5 events and capacity 2. This allows an upstream to be added, get a chain, be re-chained with other targets, and be dropped. With capacity 2, a result can be queued behind the update that cancels its watch, which every stale-event trace needs.
* **Delayer**: every cluster size up to 10000 nodes, which spans seven doublings past 128 and all the power-of-two boundaries up to 8192. `MaxDoublings = 7` bounds the search for the least `k`, and `DelayerAssumptions` checks that it is enough.
* **Refinement**: `ImplementsAbstractSnapshot` is checked in proxystate_safety, on the same instance.

`CHECK_DEADLOCK FALSE` is set for ProxyState, UpstreamWatches and Delayer (whose walk ends at `MaxNodes`). Once the bounded events are used up, their loop waits in select, as the real goroutine does.

## Proofs (TLAPS)

`AntiEntropyProofs` proves, for every finite non-empty set of pausers and every bound on their pauses:

* `TypeCorrect`: `Spec => []TypeOK`. This includes `paused \in 0..Cardinality(Pausers)`, so Resume's panic is unreachable.
* `PauseRefcountHolds`: `Spec => []PauseRefcount`.
* `AntiEntropyArmedHolds`: `Spec => []AntiEntropyArmed`.


The inductive invariant is `TypeOK /\ PauseRefcount /\ ArmedFromSyncFull`.

* `ArmedFromSyncFull` says the timer is armed from the SyncFull call on. `AntiEntropyArmed` alone is not inductive: the step from `"syncFull"` to `"loop"` needs it.
* The refcount steps rest on the lemmas `PausedSetBound` and `PausedSetUpdate` and on the library facts `FS_AddElement`, `FS_RemoveElement` and `FS_Subset`.

`UpstreamWatchesProofs` proves, for every set of services, targets and datacenters, every capacity and event bound, and both proxy kinds:

* `UWTypeCorrect`: `Spec => []TypeOK`.
* `RegisteredWatchesLiveHolds`: `Spec => []RegisteredWatchesLive`.
* `ChainWatchesExactHolds`: `Spec => [](Kind = "connect-proxy" => ChainWatchesExact)`.

The inductive invariant `IInv` has two parts.

* `ChanInv`: `s.ch` stays within its capacity, and, for a connect-proxy, it never carries a gateway-services result (`ProxyChannel`).
* `WatchInv`: the types, `ChainWatched`, `RegisteredWatchesLive`, and `ChainWatchesExact` for a connect-proxy.
  * `ChainWatched` says every key of `WatchedDiscoveryChains` has a live chain subscription. It is what keeps the chain counts in `Nat` on an ingress gateway, where they exceed one.
  * `RegisteredWatchesLive` is itself needed for `TypeOK`: resetWatchesFromChain cancels only handles it holds, so no count goes negative.

One lemma per handler shows that it preserves `WatchInv`: `UpstreamsKeepsWatchInv`, `GatewayServicesKeepsWatchInv`, `ChainKeepsWatchInv` and `EndpointsKeepWatchInv`. They rest on:

* `AdjustValue`, `AdjustOutside` and `AdjustType`, about the live-count update;
* the injectivity and disjointness of the correlation ids (`ChainIdInjective`, `TargetIdInjective`, `GatewayIdInjective`, `IdKindsDistinct`);
* `AppendProperties`, `HeadTailProperties` and `EmptySeq` from SequenceTheorems.

`ProxyStateProofs` proves, for all watch sets, requesters, event bounds and capacities:

* `TypeCorrect`, the type part of the inductive invariant.
* `CoalesceTokenUniqueHolds`.
* `PublishedValidHolds`.

The inductive invariant adds two facts:

* `VersionBound`: the snapshot version plus the events in `s.ch` never exceed the events produced, which keeps `snap` in its bounded type.
* `TimerOfValid`: a set `coalesceTimer` implies a valid `snap`. It is needed because the timer's send clones the snapshot of a later state.

The lemmas state how `Tail` and `Append` preserve "every element is valid" (`TailValid`, `AppendValid`), and that `handleUpdate` preserves validity.

It also proves two results about the interaction with the Manager.

* `ReplyOnlyToWaiterHolds`: `Spec => ReplyOnlyToWaiter`.
  * It needs `ReqInv`: every request queued in `reqCh` belongs to a requester waiting for its reply, and that reply is still empty.
  * `NextReqInv` shows that every step preserves `ReqInv` and satisfies `ReplyToWaiter`. `RunRequest` takes the head of `reqCh`, so its requester is waiting and its reply is empty; `ReqSend` queues only the requester that moves to `"wait"`.
* `SnapshotRefines`: `Spec => ImplementsAbstractSnapshot`, the refinement of `AbstractSnapshot`'s safety specification.
  * It needs `DeliveryInv`. The received copy is no newer than the snapshot. Every queued copy is newer than the received one, no newer than `snap`, and contained in it. While the coalesce timer is set, `snap` is strictly newer than the received copy and than every queued one.
  * That last conjunct is the reason the invariant holds: `RunSend` clones `snap` only when the timer fires, and it sets `coalesceTimer` only after an update (`armCoalesceTimer` checks that it is nil). A second clone of the same version is therefore never sent. The mutant that drops the nil check breaks it through exactly that duplicate delivery.
  * `NextDeliveryInv` proves it inductive, with one case per branch of `RunUpdate`, `RunSend` and `ConsumerRecv`.
  * `SnapNextRefines` maps a successful `RunUpdate` to `Update(id)`. The bound `snap.version < MaxEvents` comes from `VersionBound`, since an event is queued. The consumer's receive maps to `Deliver`, with the head of `snapCh` as the witness, and its notify to `Notify`. Every other step is a stutter.

`DelayerProofs` proves `ScaleMatchesReferenceHolds`: `Spec => []ScaleMatchesReference` for every `MaxNodes` and `MaxDoublings` that satisfy `DelayerAssumptions`.

* The inductive invariant is just `nodes \in 0..MaxNodes`. The first lemma, `ScaleHalvingAt`, shows that above 128 nodes `scaleFactor(n) = 1 + scaleFactor((n + 1) \div 2)`:
  * let `k` be the least number of doublings that `n` fits in (`k >= 1`, since `n > 128`);
  * by `HalfFits`, `(n + 1) \div 2` fits in `j` doublings exactly when `n` fits in `j + 1`;
  * so half of `n` fits in `k - 1` doublings and in none fewer, or it is at most 128 and `k = 1`.
* The provers cannot instantiate the operator parameter of NaturalsInduction's induction theorems. The facts "for every `k`" (`DoubledNat`: `doubled[k] \in Nat`) and the existence of a least fitting `k` (`LeastFitExists`) are therefore proved from a least counterexample instead. `NatLeast` derives that from `WFMin` and `NatLessThanWellFounded` of WellFoundedInduction.
* `DoubledDef` takes the recursion equations of `doubled` from `NatInductiveDef`.
* `CeilLog2ExcessLeast` shows that the CHOOSE returns the least fitting `k`.

Then:

* `RefScaleDef` gets the recursion equation of `refScale` from `WFInductiveDef`. The recursion is well-founded on `<` of `Nat`: above 128, `(n + 1) \div 2 < n`.
* `ScaleMatchesAt` takes the least size up to `MaxNodes` where `scaleFactor` and `refScale` differ. It cannot be at most 128, where both are 1. Above 128, `ScaleHalvingAt` and the recursion equation make both one more than at `(n + 1) \div 2`, a smaller size where they agree.
* This least counterexample stands in for the induction over `n` that the provers cannot instantiate.

### Only model-checked

* Liveness stays with TLC: `InSyncEventually`, `RequestsAnswered`, `LatestEventuallyDelivered` (violated) The prover does not handle fairness and `ENABLED`.
* Every safety invariant of a passing run has a theorem. What stays with TLC is the liveness above and the violation runs. A violation run's property is false for the code; its trace is the result.
* `RECURSIVE` operators are kept out of every module a proof module reaches. The delayer's reference is a recursive function for that reason.

## Not modelled

* `NewClusterSizeDelayer`: it only stores the size callback, whose result is `Delayer`'s `nodes`.
* `WaitResume`: a read of `chPaused` under the lock. `PauseRefcount` states what it hands out.
* The terminating and mesh gateway handlers.
* The ingress gateway's roots, config and leaf cases (`watchIngressLeafCert`), and its hosts and listener bookkeeping. The leaf re-issue under the same correlation id (state.go:1927) is therefore not checked.
* Prepared-query and explicit upstreams.
* The data copies of `handleUpdate`, `copyProxyConfig`, `Changed` and `hostnameEndpoints`.

## Plan for later sittings

1. Model the ingress leaf re-issue (state.go:1927) and check the applied leaf against the current watch.
2. Model the terminating and mesh gateway watch maps, with the same live-subscription accounting.
3. Add the liveness of delivery to `AbstractSnapshot` (the latest valid snapshot is eventually received) and check it under a corrected retry.
4. Prove `NoTimerAfterExit`'s corrected form, and `LiveWatchesHeld` and `StoredResultsHeld` for a cleanup that cancels the dropped handles and handlers that check the held watch.
