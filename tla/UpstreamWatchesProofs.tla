----------------------- MODULE UpstreamWatchesProofs -----------------------
(***************************************************************************)
(* Proofs about the upstream watch tree, for every set of services,        *)
(* targets and datacenters, every channel capacity and both proxy kinds:   *)
(* every variable keeps its type (no live count goes below zero, so no     *)
(* cancel func is called on a subscription that is already gone), every    *)
(* handle in WatchedUpstreams and WatchedGateways is live, and for a       *)
(* connect-proxy the chain watches match WatchedDiscoveryChains exactly.   *)
(***************************************************************************)
EXTENDS UpstreamWatches, SequenceTheorems, TLAPS

(* Every key of WatchedDiscoveryChains has a live chain subscription: the  *)
(* cleanups of both kinds cancel only watches they find in that map.       *)
ChainWatched == \A s \in wdc : live[ChainId(s)] >= 1

(* A connect-proxy's channel never carries a gateway-services result.      *)
ProxyChannel ==
    Kind = "connect-proxy" => \A i \in 1..Len(ch) : ch[i].kind # "gwsvcs"

(* What the channel and the event bound satisfy.                           *)
ChanInv ==
    /\ ch \in Seq(Events) /\ Len(ch) <= InboundCap
    /\ produced \in 0..MaxEvents
    /\ ProxyChannel

(* What the watch tree satisfies.  ChainWatched is needed for an ingress   *)
(* gateway, whose chain counts may exceed one, to keep them in Nat.        *)
WatchInv ==
    /\ live \in [WatchIds -> Nat]
    /\ wdc \in SUBSET Services
    /\ chains \in [Services -> Chains \cup {NoChain}]
    /\ wu \in [Services -> SUBSET Targets]
    /\ wue \in [Services -> SUBSET Targets]
    /\ wg \in [Services -> SUBSET DCs]
    /\ wge \in [Services -> SUBSET DCs]
    /\ ChainWatched
    /\ RegisteredWatchesLive
    /\ (Kind = "connect-proxy" => ChainWatchesExact)

(* The inductive invariant.                                                *)
IInv == ChanInv /\ WatchInv


-----------------------------------------------------------------------------
(* Correlation ids of different kinds, or of different upstreams, differ.  *)
LEMMA ChainIdInjective ==
    ASSUME NEW s, NEW s2, ChainId(s) = ChainId(s2) PROVE s = s2
  BY DEF ChainId

LEMMA TargetIdInjective ==
    ASSUME NEW s, NEW s2, NEW t, NEW t2, TargetId(t, s) = TargetId(t2, s2)
    PROVE  t = t2 /\ s = s2
  BY DEF TargetId

LEMMA GatewayIdInjective ==
    ASSUME NEW s, NEW s2, NEW dc, NEW dc2, GatewayId(dc, s) = GatewayId(dc2, s2)
    PROVE  dc = dc2 /\ s = s2
  BY DEF GatewayId

LEMMA IdKindsDistinct ==
    ASSUME NEW s, NEW s2, NEW t, NEW dc
    PROVE  /\ ChainId(s) # TargetId(t, s2)
           /\ ChainId(s) # GatewayId(dc, s2)
           /\ TargetId(t, s) # GatewayId(dc, s2)
  BY DEF ChainId, TargetId, GatewayId

(* Adjust opens one subscription of each id in add and cancels one of     *)
(* each id in del; the counts stay natural when every cancelled id is     *)
(* live.                                                                   *)
LEMMA AdjustValue ==
    ASSUME NEW l \in [WatchIds -> Nat], NEW add, NEW del, NEW w \in WatchIds
    PROVE  Adjust(l, add, del)[w] = l[w] + (IF w \in add THEN 1 ELSE 0)
                                         - (IF w \in del THEN 1 ELSE 0)
  BY DEF Adjust

LEMMA AdjustType ==
    ASSUME NEW l \in [WatchIds -> Nat], NEW add, NEW del,
           \A w \in del \cap WatchIds : l[w] >= 1
    PROVE  Adjust(l, add, del) \in [WatchIds -> Nat]
  BY DEF Adjust

LEMMA AdjustOutside ==
    ASSUME NEW l \in [WatchIds -> Nat], NEW add, NEW del, NEW w \in WatchIds,
           w \notin add, w \notin del
    PROVE  Adjust(l, add, del)[w] = l[w]
  BY DEF Adjust

(* The three id families lie in WatchIds.                                  *)
LEMMA ChainIdIn ==
    ASSUME NEW s \in Services PROVE ChainId(s) \in WatchIds
  BY DEF WatchIds

LEMMA TargetIdIn ==
    ASSUME NEW s \in Services, NEW t \in Targets PROVE TargetId(t, s) \in WatchIds
  BY DEF WatchIds

LEMMA GatewayIdIn ==
    ASSUME NEW s \in Services, NEW dc \in DCs PROVE GatewayId(dc, s) \in WatchIds
  BY DEF WatchIds

-----------------------------------------------------------------------------
(* The intention-upstreams case keeps the watch tree invariant.            *)
LEMMA UpstreamsKeepsWatchInv ==
    ASSUME WatchInv, NEW e \in Events, e.kind = "upstreams",
           HandleUpstreams(e)
    PROVE  WatchInv'
<1> DEFINE seen == e.svcs
           add == {ChainId(s) : s \in seen \ wdc}
           del == {ChainId(s) : s \in wdc \ seen}
<1>1. seen \in SUBSET Services
  BY DEF Events
<1>2. live \in [WatchIds -> Nat] /\ wdc \in SUBSET Services
      /\ live' = Adjust(live, add, del) /\ wdc' = seen
  BY DEF WatchInv, HandleUpstreams
<1>3. ASSUME NEW s \in Services
      PROVE  live'[ChainId(s)] =
               live[ChainId(s)] + (IF s \in seen \ wdc THEN 1 ELSE 0)
                                - (IF s \in wdc \ seen THEN 1 ELSE 0)
  <2>1. ChainId(s) \in add <=> s \in seen \ wdc
    BY <1>1, <1>2, ChainIdInjective
  <2>2. ChainId(s) \in del <=> s \in wdc \ seen
    BY <1>1, <1>2, ChainIdInjective
  <2>3. ChainId(s) \in WatchIds
    BY ChainIdIn
  <2>4. live'[ChainId(s)] = live[ChainId(s)]
                              + (IF ChainId(s) \in add THEN 1 ELSE 0)
                              - (IF ChainId(s) \in del THEN 1 ELSE 0)
    BY <1>2, <2>3, AdjustValue
  <2>. QED  BY <2>1, <2>2, <2>4
<1>4. ASSUME NEW s \in Services
      PROVE  /\ \A t \in Targets : live'[TargetId(t, s)] = live[TargetId(t, s)]
             /\ \A dc \in DCs : live'[GatewayId(dc, s)] = live[GatewayId(dc, s)]
  <2>1. ASSUME NEW t \in Targets
        PROVE  live'[TargetId(t, s)] = live[TargetId(t, s)]
    <3>1. TargetId(t, s) \notin add /\ TargetId(t, s) \notin del
      BY IdKindsDistinct
    <3>. QED  BY <1>2, <3>1, TargetIdIn, AdjustValue
  <2>2. ASSUME NEW dc \in DCs
        PROVE  live'[GatewayId(dc, s)] = live[GatewayId(dc, s)]
    <3>1. GatewayId(dc, s) \notin add /\ GatewayId(dc, s) \notin del
      BY IdKindsDistinct
    <3>. QED  BY <1>2, <3>1, GatewayIdIn, AdjustValue
  <2>. QED  BY <2>1, <2>2
<1>5. live' \in [WatchIds -> Nat]
  BY <1>1, <1>2, AdjustType, ChainIdIn DEF WatchInv, ChainWatched
<1>6. ChainWatched'
  <2> SUFFICES ASSUME NEW s \in seen PROVE live'[ChainId(s)] >= 1
    BY <1>2 DEF ChainWatched
  <2>1. s \in Services /\ live[ChainId(s)] \in Nat
    BY <1>1, <1>2, ChainIdIn
  <2>2. s \in wdc => live[ChainId(s)] >= 1
    BY DEF WatchInv, ChainWatched
  <2>. QED  BY <2>1, <2>2, <1>3
<1>7. RegisteredWatchesLive'
  <2> SUFFICES ASSUME NEW s \in Services
               PROVE  /\ \A t \in wu'[s] : live'[TargetId(t, s)] >= 1
                      /\ \A dc \in wg'[s] : live'[GatewayId(dc, s)] >= 1
    BY DEF RegisteredWatchesLive
  <2>1. wu'[s] \subseteq wu[s] /\ wg'[s] \subseteq wg[s]
    BY DEF HandleUpstreams
  <2>2. wu[s] \subseteq Targets /\ wg[s] \subseteq DCs
    BY DEF WatchInv
  <2>3. /\ \A t \in wu[s] : live[TargetId(t, s)] >= 1
        /\ \A dc \in wg[s] : live[GatewayId(dc, s)] >= 1
    BY DEF WatchInv, RegisteredWatchesLive
  <2>. QED  BY <1>4, <2>1, <2>2, <2>3
<1>8. Kind = "connect-proxy" => ChainWatchesExact'
  BY <1>1, <1>2, <1>3 DEF WatchInv, ChainWatchesExact
<1>9. /\ chains' \in [Services -> Chains \cup {NoChain}]
      /\ wu' \in [Services -> SUBSET Targets]
      /\ wue' \in [Services -> SUBSET Targets]
      /\ wg' \in [Services -> SUBSET DCs]
      /\ wge' \in [Services -> SUBSET DCs]
  BY DEF WatchInv, HandleUpstreams
<1>. QED  BY <1>1, <1>2, <1>5, <1>6, <1>7, <1>8, <1>9 DEF WatchInv


(* The ingress gateway-services case keeps the watch tree invariant.  A    *)
(* connect-proxy never sees it, so only ChainWatched is at stake for the   *)
(* chain counts.                                                           *)
LEMMA GatewayServicesKeepsWatchInv ==
    ASSUME WatchInv, NEW e \in Events, e.kind = "gwsvcs",
           Kind # "connect-proxy", HandleGatewayServices(e)
    PROVE  WatchInv'
<1> DEFINE seen == e.svcs
           add == {ChainId(s) : s \in seen}
           del == {ChainId(s) : s \in wdc \ seen}
<1>1. seen \in SUBSET Services
  BY DEF Events
<1>2. live \in [WatchIds -> Nat] /\ wdc \in SUBSET Services
      /\ live' = Adjust(live, add, del) /\ wdc' = seen
  BY DEF WatchInv, HandleGatewayServices
<1>3. ASSUME NEW s \in seen PROVE live'[ChainId(s)] = live[ChainId(s)] + 1
  <2>1. ChainId(s) \in add /\ ChainId(s) \notin del
    BY <1>1, <1>2, ChainIdInjective
  <2>2. ChainId(s) \in WatchIds /\ live[ChainId(s)] \in Nat
    BY <1>1, <1>2, ChainIdIn
  <2>. QED  BY <1>2, <2>1, <2>2, AdjustValue
<1>4. ASSUME NEW s \in Services
      PROVE  /\ \A t \in Targets : live'[TargetId(t, s)] = live[TargetId(t, s)]
             /\ \A dc \in DCs : live'[GatewayId(dc, s)] = live[GatewayId(dc, s)]
  <2>1. ASSUME NEW t \in Targets
        PROVE  live'[TargetId(t, s)] = live[TargetId(t, s)]
    <3>1. TargetId(t, s) \notin add /\ TargetId(t, s) \notin del
      BY IdKindsDistinct
    <3>. QED  BY <1>2, <3>1, TargetIdIn, AdjustOutside
  <2>2. ASSUME NEW dc \in DCs
        PROVE  live'[GatewayId(dc, s)] = live[GatewayId(dc, s)]
    <3>1. GatewayId(dc, s) \notin add /\ GatewayId(dc, s) \notin del
      BY IdKindsDistinct
    <3>. QED  BY <1>2, <3>1, GatewayIdIn, AdjustOutside
  <2>. QED  BY <2>1, <2>2
<1>5. live' \in [WatchIds -> Nat]
  BY <1>1, <1>2, AdjustType, ChainIdIn DEF WatchInv, ChainWatched
<1>6. ChainWatched'
  <2> SUFFICES ASSUME NEW s \in seen PROVE live'[ChainId(s)] >= 1
    BY <1>2 DEF ChainWatched
  <2>1. live[ChainId(s)] \in Nat
    BY <1>1, <1>2, ChainIdIn
  <2>. QED  BY <2>1, <1>3
<1>7. RegisteredWatchesLive'
  <2> SUFFICES ASSUME NEW s \in Services
               PROVE  /\ \A t \in wu'[s] : live'[TargetId(t, s)] >= 1
                      /\ \A dc \in wg'[s] : live'[GatewayId(dc, s)] >= 1
    BY DEF RegisteredWatchesLive
  <2>1. wu' = wu /\ wg' = wg
    BY DEF HandleGatewayServices
  <2>2. wu[s] \subseteq Targets /\ wg[s] \subseteq DCs
    BY DEF WatchInv
  <2>3. /\ \A t \in wu[s] : live[TargetId(t, s)] >= 1
        /\ \A dc \in wg[s] : live[GatewayId(dc, s)] >= 1
    BY DEF WatchInv, RegisteredWatchesLive
  <2>. QED  BY <1>4, <2>1, <2>2, <2>3
<1>8. UNCHANGED <<chains, wu, wue, wg, wge>>
  BY DEF HandleGatewayServices
<1>. QED  BY <1>1, <1>2, <1>5, <1>6, <1>7, <1>8 DEF WatchInv

(* The upstream-target and mesh-gateway cases only record endpoints.       *)
LEMMA EndpointsKeepWatchInv ==
    ASSUME WatchInv, NEW e \in Events,
           \/ e.kind = "target" /\ HandleTarget(e)
           \/ e.kind = "gw" /\ HandleGateway(e)
    PROVE  WatchInv'
<1>1. CASE e.kind = "target" /\ HandleTarget(e)
  <2>1. e.svc \in Services /\ e.t \in Targets
    BY <1>1 DEF Events
  <2>. QED  BY <1>1, <2>1 DEF WatchInv, HandleTarget, ChainWatched,
              RegisteredWatchesLive, ChainWatchesExact
<1>2. CASE e.kind = "gw" /\ HandleGateway(e)
  <2>1. e.svc \in Services /\ e.dc \in DCs
    BY <1>2 DEF Events
  <2>. QED  BY <1>2, <2>1 DEF WatchInv, HandleGateway, ChainWatched,
              RegisteredWatchesLive, ChainWatchesExact
<1>. QED  BY <1>1, <1>2


(* The discovery-chain case keeps the watch tree invariant: each handle   *)
(* resetWatchesFromChain cancels is deleted, and each one it stores is     *)
(* freshly opened or was already live.                                     *)
LEMMA ChainKeepsWatchInv ==
    ASSUME WatchInv, NEW e \in Events, e.kind = "chain", HandleChain(e)
    PROVE  WatchInv'
<1> DEFINE s == e.svc
           old == wu[s]
           new == e.chain.targets
           need == e.chain.gws
           add == {TargetId(t, s) : t \in new}
                    \cup {GatewayId(dc, s) : dc \in need \ wg[s]}
           del == {TargetId(t, s) : t \in old}
                    \cup {GatewayId(dc, s) : dc \in wg[s] \ need}
<1>1. s \in Services /\ e.chain \in Chains
      /\ new \subseteq Targets /\ need \subseteq DCs
  BY DEF Events, Chains
<1>2. /\ live \in [WatchIds -> Nat]
      /\ old \subseteq Targets /\ wg[s] \subseteq DCs
      /\ live' = Adjust(live, add, del)
  BY <1>1 DEF WatchInv, HandleChain
<1>3. ASSUME NEW x \in Services PROVE ChainId(x) \notin add /\ ChainId(x) \notin del
  BY IdKindsDistinct
<1>4. ASSUME NEW x \in Services, NEW t \in Targets, x # s
      PROVE  TargetId(t, x) \notin add /\ TargetId(t, x) \notin del
  BY <1>4, TargetIdInjective, IdKindsDistinct
<1>5. ASSUME NEW x \in Services, NEW dc \in DCs, x # s
      PROVE  GatewayId(dc, x) \notin add /\ GatewayId(dc, x) \notin del
  BY <1>5, GatewayIdInjective, IdKindsDistinct
<1>6. ASSUME NEW t \in Targets
      PROVE  /\ TargetId(t, s) \in add <=> t \in new
             /\ TargetId(t, s) \in del <=> t \in old
  BY TargetIdInjective, IdKindsDistinct
<1>7. ASSUME NEW dc \in DCs
      PROVE  /\ GatewayId(dc, s) \in add <=> dc \in need \ wg[s]
             /\ GatewayId(dc, s) \in del <=> dc \in wg[s] \ need
  BY GatewayIdInjective, IdKindsDistinct
<1>8. live' \in [WatchIds -> Nat]
  <2>1. ASSUME NEW w \in del \cap WatchIds PROVE live[w] >= 1
    <3>1. CASE \E t \in old : w = TargetId(t, s)
      BY <1>1, <1>2, <3>1 DEF WatchInv, RegisteredWatchesLive
    <3>2. CASE \E dc \in wg[s] \ need : w = GatewayId(dc, s)
      BY <1>1, <1>2, <3>2 DEF WatchInv, RegisteredWatchesLive
    <3>. QED  BY <3>1, <3>2
  <2>. QED  BY <1>2, <2>1, AdjustType
<1>9. ASSUME NEW x \in Services
      PROVE  live'[ChainId(x)] = live[ChainId(x)]
  BY <1>2, <1>3, ChainIdIn, AdjustOutside
<1>10. ChainWatched' /\ (Kind = "connect-proxy" => ChainWatchesExact')
  <2>1. wdc' = wdc /\ wdc \subseteq Services
    BY DEF WatchInv, HandleChain
  <2>. QED  BY <1>9, <2>1 DEF WatchInv, ChainWatched, ChainWatchesExact
<1>11. ASSUME NEW x \in Services, x # s PROVE
         /\ \A t \in wu'[x] : live'[TargetId(t, x)] >= 1
         /\ \A dc \in wg'[x] : live'[GatewayId(dc, x)] >= 1
  <2>1. wu'[x] = wu[x] /\ wg'[x] = wg[x]
        /\ wu[x] \subseteq Targets /\ wg[x] \subseteq DCs
    BY <1>1, <1>11 DEF WatchInv, HandleChain
  <2>2. /\ \A t \in wu[x] : live[TargetId(t, x)] >= 1
        /\ \A dc \in wg[x] : live[GatewayId(dc, x)] >= 1
    BY DEF WatchInv, RegisteredWatchesLive
  <2>3. /\ \A t \in Targets : live'[TargetId(t, x)] = live[TargetId(t, x)]
        /\ \A dc \in DCs : live'[GatewayId(dc, x)] = live[GatewayId(dc, x)]
    BY <1>2, <1>4, <1>5, <1>11, TargetIdIn, GatewayIdIn, AdjustOutside
  <2>. QED  BY <2>1, <2>2, <2>3
<1>12. /\ \A t \in wu'[s] : live'[TargetId(t, s)] >= 1
       /\ \A dc \in wg'[s] : live'[GatewayId(dc, s)] >= 1
  <2>1. wu'[s] = new /\ wg'[s] = need
    BY <1>1 DEF WatchInv, HandleChain
  <2>2. ASSUME NEW t \in new PROVE live'[TargetId(t, s)] >= 1
    <3>1. TargetId(t, s) \in WatchIds /\ live[TargetId(t, s)] \in Nat
      BY <1>1, <1>2, TargetIdIn
    <3>2. t \in old => live[TargetId(t, s)] >= 1
      BY <1>1 DEF WatchInv, RegisteredWatchesLive
    <3>3. live'[TargetId(t, s)] = live[TargetId(t, s)] + 1
                                   - (IF t \in old THEN 1 ELSE 0)
      BY <1>1, <1>2, <1>6, <3>1, AdjustValue
    <3>. QED  BY <3>1, <3>2, <3>3
  <2>3. ASSUME NEW dc \in need PROVE live'[GatewayId(dc, s)] >= 1
    <3>1. GatewayId(dc, s) \in WatchIds /\ live[GatewayId(dc, s)] \in Nat
      BY <1>1, <1>2, GatewayIdIn
    <3>2. dc \in wg[s] => live[GatewayId(dc, s)] >= 1
      BY <1>1 DEF WatchInv, RegisteredWatchesLive
    <3>3. live'[GatewayId(dc, s)] = live[GatewayId(dc, s)]
                                     + (IF dc \in wg[s] THEN 0 ELSE 1)
      BY <1>1, <1>2, <1>7, <3>1, AdjustValue
    <3>. QED  BY <3>1, <3>2, <3>3
  <2>. QED  BY <2>1, <2>2, <2>3
<1>13. RegisteredWatchesLive'
  BY <1>11, <1>12 DEF RegisteredWatchesLive
<1>14. /\ chains' \in [Services -> Chains \cup {NoChain}]
       /\ wu' \in [Services -> SUBSET Targets]
       /\ wue' \in [Services -> SUBSET Targets]
       /\ wg' \in [Services -> SUBSET DCs]
       /\ wge' \in [Services -> SUBSET DCs]
       /\ wdc' \in SUBSET Services
  BY <1>1 DEF WatchInv, HandleChain
<1>. QED  BY <1>8, <1>10, <1>13, <1>14 DEF WatchInv


-----------------------------------------------------------------------------
THEOREM UWInitIInv == Init => IInv
<1> SUFFICES ASSUME Init PROVE IInv
  OBVIOUS
<1>1. ChanInv
  BY UWAssumptions DEF Init, ChanInv, ProxyChannel
<1>2. live \in [WatchIds -> Nat] /\ wdc = {}
      /\ \A w \in WatchIds : live[w] = 0
  BY DEF Init
<1>3. ChainWatchesExact
  BY <1>2, ChainIdIn DEF ChainWatchesExact
<1>4. WatchInv
  BY <1>2, <1>3 DEF Init, WatchInv, ChainWatched, RegisteredWatchesLive
<1>. QED  BY <1>1, <1>4 DEF IInv

(* A cache result is appended to s.ch.                                     *)
LEMMA DeliverKeepsIInv ==
    ASSUME IInv, NEW e \in Events, Deliver(e) PROVE IInv'
<1>1. ch \in Seq(Events) /\ Len(ch) <= InboundCap /\ produced \in 0..MaxEvents
  BY DEF IInv, ChanInv
<1>2. ch' \in Seq(Events) /\ Len(ch') <= InboundCap /\ produced' \in 0..MaxEvents
  <2>1. Append(ch, e) \in Seq(Events) /\ Len(Append(ch, e)) = Len(ch) + 1
    BY <1>1, AppendProperties
  <2>2. Len(ch) \in Nat /\ InboundCap \in Nat
    BY <1>1, UWAssumptions
  <2>3. /\ ch' = Append(ch, e) /\ produced' = produced + 1
        /\ produced < MaxEvents /\ Len(ch) < InboundCap
    BY DEF Deliver
  <2>4. ch' \in Seq(Events)
    BY <2>1, <2>3, Zenon
  <2>5. Len(ch') <= InboundCap
    BY <2>1, <2>2, <2>3
  <2>6. produced' \in 0..MaxEvents
    BY <1>1, <2>3, UWAssumptions
  <2>. QED  BY <2>4, <2>5, <2>6
<1>3. ProxyChannel'
  <2> SUFFICES ASSUME Kind = "connect-proxy", NEW i \in 1..Len(ch')
               PROVE  ch'[i].kind # "gwsvcs"
    BY DEF ProxyChannel
  <2>1. e.kind # "gwsvcs"
    BY DEF Deliver
  <2>2. i <= Len(ch) => ch[i].kind # "gwsvcs"
    BY DEF IInv, ChanInv, ProxyChannel
  <2>. QED  BY <1>1, <2>1, <2>2, AppendProperties DEF Deliver
<1>4. WatchInv'
  BY DEF IInv, Deliver, WatchInv, ChainWatched, RegisteredWatchesLive,
     ChainWatchesExact
<1>. QED  BY <1>2, <1>3, <1>4 DEF IInv, ChanInv

(* The loop of run takes the head of s.ch and handles it.                  *)
LEMMA HandleEventKeepsIInv ==
    ASSUME IInv, HandleEvent PROVE IInv'
<1> DEFINE e == Head(ch)
<1>1. ch \in Seq(Events) /\ ch # <<>> /\ Len(ch) <= InboundCap
      /\ ch' = Tail(ch) /\ produced' = produced
  BY DEF IInv, ChanInv, HandleEvent
<1>2. e \in Events
  BY <1>1, HeadTailProperties
<1>3. ChanInv'
  <2>1. ch' \in Seq(Events) /\ Len(ch') <= InboundCap
    <3>1. Tail(ch) \in Seq(Events) /\ Len(Tail(ch)) = Len(ch) - 1
      BY <1>1, HeadTailProperties
    <3>2. Len(ch) \in Nat /\ InboundCap \in Nat
      BY <1>1, UWAssumptions
    <3>. QED  BY <1>1, <3>1, <3>2
  <2>2. ProxyChannel'
    <3> SUFFICES ASSUME Kind = "connect-proxy", NEW i \in 1..Len(ch')
                 PROVE  ch'[i].kind # "gwsvcs"
      BY DEF ProxyChannel
    <3>1. ch'[i] = ch[i + 1] /\ i + 1 \in 1..Len(ch)
      BY <1>1, HeadTailProperties
    <3>. QED  BY <3>1 DEF IInv, ChanInv, ProxyChannel
  <2>. QED  BY <1>1, <2>1, <2>2 DEF IInv, ChanInv
<1>4. Kind = "connect-proxy" => e.kind # "gwsvcs"
  BY <1>1, EmptySeq DEF IInv, ChanInv, ProxyChannel
<1>5. WatchInv
  BY DEF IInv
<1>6. WatchInv'
  <2>1. CASE e.kind = "upstreams"
    BY <1>2, <1>5, <2>1, UpstreamsKeepsWatchInv DEF HandleEvent
  <2>2. CASE e.kind = "chain"
    BY <1>2, <1>5, <2>2, ChainKeepsWatchInv DEF HandleEvent
  <2>3. CASE e.kind = "target"
    BY <1>2, <1>5, <2>3, EndpointsKeepWatchInv DEF HandleEvent
  <2>4. CASE e.kind = "gw"
    BY <1>2, <1>5, <2>4, EndpointsKeepWatchInv DEF HandleEvent
  <2>5. CASE e.kind = "gwsvcs"
    <3>1. Kind # "connect-proxy"
      BY <1>4, <2>5
    <3>. QED  BY <1>2, <1>5, <2>5, <3>1, GatewayServicesKeepsWatchInv
                 DEF HandleEvent
  <2>. QED  BY <1>2, <2>1, <2>2, <2>3, <2>4, <2>5 DEF Events
<1>. QED  BY <1>3, <1>6 DEF IInv

THEOREM UWNextIInv == IInv /\ [Next]_vars => IInv'
<1> SUFFICES ASSUME IInv, [Next]_vars PROVE IInv'
  OBVIOUS
<1>1. CASE \E e \in Events : Deliver(e)
  BY <1>1, DeliverKeepsIInv
<1>2. CASE HandleEvent
  BY <1>2, HandleEventKeepsIInv
<1>3. CASE UNCHANGED vars
  BY <1>3 DEF vars, IInv, ChanInv, ProxyChannel, WatchInv, ChainWatched,
     RegisteredWatchesLive, ChainWatchesExact
<1>. QED  BY <1>1, <1>2, <1>3 DEF Next

-----------------------------------------------------------------------------
(* The watch tree keeps its type for either proxy kind: s.ch never holds   *)
(* more than its capacity, and no live count goes below zero, so every     *)
(* cancel func the handlers call belongs to a live subscription.           *)
THEOREM UWTypeCorrect == Spec => []TypeOK
<1>1. IInv => TypeOK
  BY DEF IInv, ChanInv, WatchInv, TypeOK
<1>. QED  BY <1>1, UWInitIInv, UWNextIInv, PTL DEF Spec

(* For either proxy kind every cancel func kept in WatchedUpstreams and    *)
(* WatchedGateways belongs to a live subscription (resetWatchesFromChain  *)
(* deletes the handles it cancels).                                        *)
THEOREM RegisteredWatchesLiveHolds == Spec => []RegisteredWatchesLive
<1>1. IInv => RegisteredWatchesLive
  BY DEF IInv, WatchInv
<1>. QED  BY <1>1, UWInitIInv, UWNextIInv, PTL DEF Spec

(* For a connect-proxy, the live discovery-chain subscriptions are exactly *)
(* the keys of WatchedDiscoveryChains: watchDiscoveryChain's               *)
(* already-watched check and the intention-upstreams cleanup's cancelFn(). *)
THEOREM ChainWatchesExactHolds ==
    Spec => [](Kind = "connect-proxy" => ChainWatchesExact)
<1>1. IInv => (Kind = "connect-proxy" => ChainWatchesExact)
  BY DEF IInv, WatchInv
<1>. QED  BY <1>1, UWInitIInv, UWNextIInv, PTL DEF Spec

=============================================================================
