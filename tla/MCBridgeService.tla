--------------------------- MODULE MCBridgeService ---------------------------
(* BridgeService on small instances. *)
EXTENDS BridgeService, TLC

CONSTANTS j1, j2, s1, s2, m1, m2, h1, h2

\* Every job finds every media.
MCCatalog == [j \in Job |-> Media]

\* j2 has the URL of m2.
MCDirectCatalog == [j \in Job |-> IF j = j2 THEN {m2} ELSE Media]

MCSymmetry ==
    Permutations({h1, h2}) \union Permutations({m1, m2})
        \union Permutations({s1, s2}) \union Permutations({j1, j2})
=============================================================================
