---------------------------- MODULE MCCacheManager ----------------------------
(* Three keys, two of which share a prefix, two values and two lifetimes. *)
EXTENDS CacheManager, TLC

CONSTANTS c1, c2, p, v1, v2

MCKeys == {c1, c2, p}
MCValues == {v1, v2}
MCTtls == {1, 2}
MCPrefixes == {{c1, c2}}
Symmetry == Permutations(MCValues) \cup Permutations({c1, c2})
=============================================================================
