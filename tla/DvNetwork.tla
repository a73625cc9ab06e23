----------------------------- MODULE DvNetwork ------------------------------
\* The network of node0.c to node3.c and the link changes of dv.c.
EXTENDS Integers, TLC

NoRoute == 999

CodeVectors == (0 :> (0 :> 0 @@ 1 :> 1 @@ 2 :> 3 @@ 3 :> 7)) @@
               (1 :> (0 :> 1 @@ 1 :> 0 @@ 2 :> 1 @@ 3 :> NoRoute)) @@
               (2 :> (0 :> 3 @@ 1 :> 1 @@ 2 :> 0 @@ 3 :> 2)) @@
               (3 :> (0 :> 7 @@ 1 :> NoRoute @@ 2 :> 2 @@ 3 :> 0))

CodeNeighbors == 0 :> {1, 2, 3} @@ 1 :> {0, 2} @@ 2 :> {0, 1, 3} @@ 3 :> {0, 2}

CodeCosts == 0 :> (1 :> 1 @@ 2 :> 3 @@ 3 :> 7) @@
             1 :> (0 :> 1 @@ 2 :> 1) @@
             2 :> (0 :> 3 @@ 1 :> 1 @@ 3 :> 2) @@
             3 :> (0 :> 7 @@ 2 :> 2)

\* The part of it without router 3.
TriangleVectors == [r \in 0..2 |-> [j \in 0..2 |-> CodeVectors[r][j]]]
TriangleNeighbors == [r \in 0..2 |-> CodeNeighbors[r] \ {3}]
TriangleCosts ==
  [r \in 0..2 |-> [j \in TriangleNeighbors[r] |-> CodeCosts[r][j]]]

\* The link 0-1 costs 20 at time 10000 and 1 again at 20000.
CodeLink == <<0, 1>>
CodeChanges == <<20, 1>>
=============================================================================
