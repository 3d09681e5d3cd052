--------------------------- MODULE UpstreamWatches ---------------------------
(***************************************************************************)
(* The watch tree of a transparent connect-proxy's upstreams in proxycfg   *)
(* (state.go): the intention-upstreams reconciliation of handleUpdate,     *)
(* watchDiscoveryChain, the discovery-chain / upstream-target /            *)
(* mesh-gateway cases of handleUpdateUpstreams, resetWatchesFromChain and  *)
(* watchUpstreamTarget.                                                    *)
(*                                                                         *)
(* A cache subscription is identified by its correlation id.  live[w]      *)
(* counts the subscriptions with id w whose context is not cancelled: a    *)
(* subscription whose cancel func is dropped without being called stays    *)
(* live, and a second one with the same id may be opened beside it.  The   *)
(* snapshot keeps the cancel funcs (WatchedDiscoveryChains,                *)
(* WatchedUpstreams, WatchedGateways) and the data (DiscoveryChain,        *)
(* WatchedUpstreamEndpoints, WatchedGatewayEndpoints); a Go map of maps    *)
(* is a function to the set of its inner keys, a deleted entry the empty   *)
(* set.  All upstreams are intention-inferred in the local datacenter, so  *)
(* the remote-datacenter skip of the cleanup loops never applies.          *)
(*                                                                         *)
(* Kind selects the handler: a connect-proxy lists its upstreams in the    *)
(* intention-upstreams watch, an ingress-gateway in the gateway-services   *)
(* watch; both share watchDiscoveryChain and handleUpdateUpstreams.  The   *)
(* ingress leaf re-watch of the gateway-services case is left out: it      *)
(* cancels the previous leaf watch before opening the next one.            *)
(***************************************************************************)
EXTENDS Naturals, Sequences, FiniteSets

CONSTANTS
    Services,    \* upstream service names intention-upstreams may list
    Targets,     \* discovery chain target ids
    DCs,         \* datacenters a target's mesh gateway mode may need
    MaxEvents,   \* bound on the events the cache delivers
    InboundCap,  \* capacity of s.ch
    NoChain,     \* DiscoveryChain[svc] absent
    Kind         \* the proxy kind of the state

ASSUME UWAssumptions ==
    /\ MaxEvents \in Nat
    /\ InboundCap \in Nat \ {0}
    /\ NoChain \notin [targets : SUBSET Targets, gws : SUBSET DCs]
    /\ Kind \in {"connect-proxy", "ingress-gateway"}

\* A compiled chain: its target ids and the dcs its targets' gateway modes need.
Chains == [targets : SUBSET Targets \ {{}}, gws : SUBSET DCs]

\* Correlation ids of the child subscriptions.
ChainId(s) == [kind |-> "chain", svc |-> s]
TargetId(t, s) == [kind |-> "target", svc |-> s, t |-> t]
GatewayId(dc, s) == [kind |-> "gw", svc |-> s, dc |-> dc]
WatchIds ==
    {ChainId(s) : s \in Services}
    \cup {TargetId(t, s) : t \in Targets, s \in Services}
    \cup {GatewayId(dc, s) : dc \in DCs, s \in Services}

\* The events a subscription sends on s.ch.
Events ==
    [kind : {"upstreams", "gwsvcs"}, svcs : SUBSET Services]
    \cup [kind : {"chain"}, svc : Services, chain : Chains]
    \cup [kind : {"target"}, svc : Services, t : Targets]
    \cup [kind : {"gw"}, svc : Services, dc : DCs]

VARIABLES
    live,       \* live subscriptions per correlation id
    ch,         \* s.ch
    produced,   \* events delivered so far
    wdc,        \* keys of WatchedDiscoveryChains
    chains,     \* DiscoveryChain
    wu,         \* WatchedUpstreams[svc]: target ids holding a cancel func
    wue,        \* WatchedUpstreamEndpoints[svc]: target ids with endpoints
    wg,         \* WatchedGateways[svc]: dcs holding a cancel func
    wge         \* WatchedGatewayEndpoints[svc]: dcs with endpoints

vars == <<live, ch, produced, wdc, chains, wu, wue, wg, wge>>

(* Open the subscriptions in `add` and cancel one of each id in `del`.     *)
Adjust(l, add, del) ==
    [w \in WatchIds |-> l[w] + (IF w \in add THEN 1 ELSE 0)
                            - (IF w \in del THEN 1 ELSE 0)]

(* After initialize: the intention-upstreams watch is open (it is not a    *)
(* child subscription and is never cancelled), the snapshot maps empty.    *)
Init ==
    /\ live = [w \in WatchIds |-> 0]
    /\ ch = <<>>
    /\ produced = 0
    /\ wdc = {}
    /\ chains = [s \in Services |-> NoChain]
    /\ wu = [s \in Services |-> {}]
    /\ wue = [s \in Services |-> {}]
    /\ wg = [s \in Services |-> {}]
    /\ wge = [s \in Services |-> {}]

-----------------------------------------------------------------------------
(* A subscription with id w (or the root watch listing the upstreams of  *)
(* this kind) delivers a result on s.ch while its context is live.         *)
Deliver(e) ==
    /\ produced < MaxEvents
    /\ Len(ch) < InboundCap
    /\ \/ e.kind = "upstreams" /\ Kind = "connect-proxy"
       \/ e.kind = "gwsvcs" /\ Kind = "ingress-gateway"
       \/ e.kind = "chain" /\ live[ChainId(e.svc)] > 0
       \/ e.kind = "target" /\ live[TargetId(e.t, e.svc)] > 0
       \/ e.kind = "gw" /\ live[GatewayId(e.dc, e.svc)] > 0
    /\ ch' = Append(ch, e)
    /\ produced' = produced + 1
    /\ UNCHANGED <<live, wdc, chains, wu, wue, wg, wge>>

(* Mutant of HandleUpstreams: the chain watch of a dropped service is      *)
(* deleted from WatchedDiscoveryChains without calling its cancel func.    *)
HandleUpstreamsNoChainCancel(e) ==
    LET seen == e.svcs
    IN  /\ live' = Adjust(live, {ChainId(s) : s \in seen \ wdc}, {})
        /\ wdc' = seen
        /\ chains' = [s \in Services |-> IF s \in wdc \ seen THEN NoChain
                                                           ELSE chains[s]]
        /\ wu' = [s \in Services |-> IF s \in seen THEN wu[s] ELSE {}]
        /\ wue' = [s \in Services |-> IF s \in seen THEN wue[s] ELSE {}]
        /\ wg' = [s \in Services |-> IF s \in seen THEN wg[s] ELSE {}]
        /\ wge' = [s \in Services |-> IF s \in seen THEN wge[s] ELSE {}]

(* case intentionUpstreamsID: watchDiscoveryChain for every listed service *)
(* that has no chain watch yet; then, for every service not listed, delete *)
(* its entries of WatchedUpstreams, WatchedUpstreamEndpoints,              *)
(* WatchedGateways and WatchedGatewayEndpoints, and cancel and delete its  *)
(* chain watch and DiscoveryChain.  The cancel funcs held in the deleted   *)
(* WatchedUpstreams and WatchedGateways entries are not called.            *)
HandleUpstreams(e) ==
    LET seen == e.svcs
    IN  /\ live' = Adjust(live, {ChainId(s) : s \in seen \ wdc},
                                {ChainId(s) : s \in wdc \ seen})
        /\ wdc' = seen
        /\ chains' = [s \in Services |-> IF s \in wdc \ seen THEN NoChain
                                                           ELSE chains[s]]
        /\ wu' = [s \in Services |-> IF s \in seen THEN wu[s] ELSE {}]
        /\ wue' = [s \in Services |-> IF s \in seen THEN wue[s] ELSE {}]
        /\ wg' = [s \in Services |-> IF s \in seen THEN wg[s] ELSE {}]
        /\ wge' = [s \in Services |-> IF s \in seen THEN wge[s] ELSE {}]

(***************************************************************************)
(* ingress-gateway, case gatewayServicesWatchID: watchDiscoveryChain for   *)
(* every listed service, then cancel and delete the chain watches of the   *)
(* services no longer listed.  watchDiscoveryChain's already-watched check *)
(* reads snap.ConnectProxy.WatchedDiscoveryChains, which an ingress        *)
(* snapshot leaves empty, so every listed service gets a new chain watch   *)
(* and its cancel func replaces the one in IngressGateway's map.  Nothing  *)
(* else of a removed service is deleted.                                   *)
(***************************************************************************)
HandleGatewayServices(e) ==
    LET seen == e.svcs
    IN  /\ live' = Adjust(live, {ChainId(s) : s \in seen},
                                {ChainId(s) : s \in wdc \ seen})
        /\ wdc' = seen
        /\ UNCHANGED <<chains, wu, wue, wg, wge>>

(* Mutant of HandleChain: the old target handles are cancelled but not     *)
(* deleted from WatchedUpstreams.                                          *)
HandleChainKeepsOld(e) ==
    LET s == e.svc
        old == wu[s]
        new == e.chain.targets
        need == e.chain.gws
    IN  /\ chains' = [chains EXCEPT ![s] = e.chain]
        /\ live' = Adjust(live,
                          {TargetId(t, s) : t \in new}
                            \cup {GatewayId(dc, s) : dc \in need \ wg[s]},
                          {TargetId(t, s) : t \in old}
                            \cup {GatewayId(dc, s) : dc \in wg[s] \ need})
        /\ wu' = [wu EXCEPT ![s] = old \cup new]
        /\ wue' = [wue EXCEPT ![s] = @ \ old]
        /\ wg' = [wg EXCEPT ![s] = need]
        /\ wge' = [wge EXCEPT ![s] = @ \ (wg[s] \ need)]
        /\ UNCHANGED wdc

(* case "discovery-chain:": store the chain, then resetWatchesFromChain:   *)
(* cancel and delete every target watch of the upstream and its endpoints, *)
(* open one watch per chain target (watchUpstreamTarget), open the         *)
(* mesh-gateway watches of needed dcs not yet watched, and cancel and      *)
(* delete those of dcs no longer needed with their endpoints.              *)
HandleChain(e) ==
    LET s == e.svc
        old == wu[s]
        new == e.chain.targets
        need == e.chain.gws
    IN  /\ chains' = [chains EXCEPT ![s] = e.chain]
        /\ live' = Adjust(live,
                          {TargetId(t, s) : t \in new}
                            \cup {GatewayId(dc, s) : dc \in need \ wg[s]},
                          {TargetId(t, s) : t \in old}
                            \cup {GatewayId(dc, s) : dc \in wg[s] \ need})
        /\ wu' = [wu EXCEPT ![s] = new]
        /\ wue' = [wue EXCEPT ![s] = @ \ old]
        /\ wg' = [wg EXCEPT ![s] = need]
        /\ wge' = [wge EXCEPT ![s] = @ \ (wg[s] \ need)]
        /\ UNCHANGED wdc

(* case "upstream-target:": store the endpoints under the upstream and     *)
(* target, creating the inner map if it is missing.                        *)
HandleTarget(e) ==
    /\ wue' = [wue EXCEPT ![e.svc] = @ \cup {e.t}]
    /\ UNCHANGED <<live, wdc, chains, wu, wg, wge>>

(* case "mesh-gateway:": store the gateway endpoints under upstream and dc. *)
HandleGateway(e) ==
    /\ wge' = [wge EXCEPT ![e.svc] = @ \cup {e.dc}]
    /\ UNCHANGED <<live, wdc, chains, wu, wue, wg>>

(* run, case u := <-s.ch: handleUpdate dispatches on the correlation id.   *)
HandleEvent ==
    /\ ch # <<>>
    /\ ch' = Tail(ch)
    /\ LET e == Head(ch)
       IN  CASE e.kind = "upstreams" -> HandleUpstreams(e)
             [] e.kind = "chain"     -> HandleChain(e)
             [] e.kind = "target"    -> HandleTarget(e)
             [] e.kind = "gw"        -> HandleGateway(e)
             [] e.kind = "gwsvcs"    -> HandleGatewayServices(e)
    /\ UNCHANGED produced

Next ==
    \/ \E e \in Events : Deliver(e)
    \/ HandleEvent

Spec == Init /\ [][Next]_vars

-----------------------------------------------------------------------------
(* Every variable has its type.                                            *)
TypeOK ==
    /\ live \in [WatchIds -> Nat]
    /\ ch \in Seq(Events) /\ Len(ch) <= InboundCap
    /\ produced \in 0..MaxEvents
    /\ wdc \in SUBSET Services
    /\ chains \in [Services -> Chains \cup {NoChain}]
    /\ wu \in [Services -> SUBSET Targets]
    /\ wue \in [Services -> SUBSET Targets]
    /\ wg \in [Services -> SUBSET DCs]
    /\ wge \in [Services -> SUBSET DCs]

(***************************************************************************)
(* There is exactly one live discovery-chain subscription for each key of  *)
(* WatchedDiscoveryChains and none for any other upstream: the             *)
(* already-watched check of watchDiscoveryChain and the cancelFn() of the  *)
(* intention-upstreams cleanup keep the two in step.                       *)
(***************************************************************************)
ChainWatchesExact ==
    \A s \in Services : live[ChainId(s)] = IF s \in wdc THEN 1 ELSE 0

(***************************************************************************)
(* Every cancel func the snapshot holds in WatchedUpstreams or             *)
(* WatchedGateways belongs to a live subscription: resetWatchesFromChain   *)
(* deletes each handle it cancels, so a later reset or cleanup never       *)
(* cancels a subscription twice or keeps a dead one as the upstream's.     *)
(***************************************************************************)
RegisteredWatchesLive ==
    \A s \in Services :
        /\ \A t \in wu[s] : live[TargetId(t, s)] >= 1
        /\ \A dc \in wg[s] : live[GatewayId(dc, s)] >= 1

(***************************************************************************)
(* No subscription outlives its handle (spec 8: the live subscriptions are *)
(* the ones the current snapshot calls for): every live target or          *)
(* mesh-gateway subscription has its cancel func in WatchedUpstreams or     *)
(* WatchedGateways, where a later resetWatchesFromChain or cleanup of the   *)
(* intention-upstreams case can reach it.                                   *)
(***************************************************************************)
LiveWatchesHeld ==
    \A s \in Services :
        /\ \A t \in Targets : live[TargetId(t, s)] > 0 => t \in wu[s]
        /\ \A dc \in DCs : live[GatewayId(dc, s)] > 0 => dc \in wg[s]

(***************************************************************************)
(* handleUpdateUpstreams stores only results of watches the snapshot still *)
(* holds (spec 3: endpoints only for entries of WatchedUpstreams; spec 8):  *)
(* stored target and gateway endpoints have their handle in                 *)
(* WatchedUpstreams or WatchedGateways, and an upstream without a chain     *)
(* watch has no DiscoveryChain entry and no target or gateway handles,      *)
(* although results of cancelled watches may still be queued on s.ch.       *)
(***************************************************************************)
StoredResultsHeld ==
    \A s \in Services :
        /\ wue[s] \subseteq wu[s]
        /\ wge[s] \subseteq wg[s]
        /\ s \notin wdc => chains[s] = NoChain /\ wu[s] = {} /\ wg[s] = {}

=============================================================================
