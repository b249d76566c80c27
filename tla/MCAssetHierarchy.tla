--------------------------- MODULE MCAssetHierarchy ---------------------------
(***************************************************************************)
(* Three assets, two sectors and two requests at a time.  An update says   *)
(* one thing.  A node is as a relay without a parent, so only the          *)
(* provisioning makes one, and a device comes with a parent.               *)
(***************************************************************************)
EXTENDS AssetHierarchy, TLC

CONSTANTS a1, a2, a3, s1, s2, r1, r2

ThreeAssets == {a1, a2, a3}
TwoSectors == {s1, s2}
TwoRequests == {r1, r2}

SmallCreates == {row \in Rows : row.listed /\ row.type # "node"
                                /\ (row.type = "device" => row.parent # None)}
Nothing == [sector |-> Keep, parent |-> Keep, type |-> Keep, listed |-> Keep]
SmallUpdates ==
    {[Nothing EXCEPT !.sector = s] : s \in TwoSectors}
    \cup {[Nothing EXCEPT !.parent = p] : p \in ThreeAssets \cup {None}}
    \cup {[Nothing EXCEPT !.type = "device"], [Nothing EXCEPT !.listed = TRUE]}

Swaps == Permutations(ThreeAssets) \cup Permutations(TwoSectors) \cup Permutations(TwoRequests)
=============================================================================
