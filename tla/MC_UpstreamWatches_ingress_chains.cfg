\* Ingress gateway: one discovery-chain watch per listed service?
CONSTANTS
    s1 = s1
    s2 = s2
    t1 = t1
    t2 = t2
    dc1 = dc1
    NoChain = NoChain
    Kind = "ingress-gateway"
    Services <- MCServices
    Targets <- MCTargets
    DCs <- MCDCs
    MaxEvents = 5
    InboundCap = 2
SYMMETRY MCSymmetry
SPECIFICATION Spec
\* The loop waits in select once the bounded cache events are used up.
CHECK_DEADLOCK FALSE
INVARIANT ChainWatchesExact
