------------------------------ MODULE MCChain ------------------------------
(* Chain on a small tree:                                                  *)
(*    g - p1 - p2       peers' blocks, with f2, a heavier fork, on p1 and  *)
(*                      m3, which has height 3, on p1                      *)
(*    g - o1 - o2       own blocks, with m1, which is a peer's and has     *)
(*                      height 1, on o1; o3, an own block, is on p1        *)
EXTENDS Chain, TLC

CONSTANTS g, p1, p2, f2, m1, m3, o1, o2, o3

MCParent ==
    p1 :> g @@ p2 :> p1 @@ f2 :> p1 @@ m3 :> p1 @@ o3 :> p1 @@ o1 :> g @@ o2 :> o1 @@ m1 :> o1
MCHeight ==
    g :> 0 @@ p1 :> 1 @@ p2 :> 2 @@ f2 :> 2 @@ m3 :> 3 @@ o3 :> 2 @@ o1 :> 1 @@ o2 :> 2 @@ m1 :> 1
MCWeight == [b \in Blocks |-> IF b = g THEN 0 ELSE IF b = f2 THEN 3 ELSE 2]
=============================================================================
