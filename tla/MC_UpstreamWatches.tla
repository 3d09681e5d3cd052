------------------------- MODULE MC_UpstreamWatches -------------------------
(* Two upstream services, two chain targets, one gateway datacenter.       *)
EXTENDS UpstreamWatches, TLC

CONSTANTS s1, s2, t1, t2, dc1

MCServices == {s1, s2}
MCTargets == {t1, t2}
MCDCs == {dc1}

\* Services and targets are interchangeable names in every action.
MCSymmetry == Permutations(MCServices) \cup Permutations(MCTargets)
=============================================================================
