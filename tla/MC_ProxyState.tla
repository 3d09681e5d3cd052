--------------------------- MODULE MC_ProxyState ---------------------------
(* A connect-proxy whose three initial watches (roots, leaf, intentions)   *)
(* are all required, one CurrentSnapshot caller.                           *)
EXTENDS ProxyState

CONSTANTS roots, leaf, intentions, r1

MCWatches == {roots, leaf, intentions}
MCRequesters == {r1}
=============================================================================
