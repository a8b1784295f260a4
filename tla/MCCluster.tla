----------------------------- MODULE MCCluster ------------------------------
(* A small instance of Cluster for TLC.                                     *)
EXTENDS Cluster

\* Two virtual nodes each, interleaved so that each node has a neighbour on
\* both sides; no collision.
TwoEach == [n \in {"a", "b", "c"} |->
              CASE n = "a" -> {1, 8} [] n = "b" -> {3, 10} [] n = "c" -> {5, 7}]

\* On a virtual node, between two, before the first and past the last.
Hashes == [k \in {"k0", "k1", "k2", "k3", "k4"} |->
             CASE k = "k0" -> 0 [] k = "k1" -> 3 [] k = "k2" -> 4 [] k = "k3" -> 9 [] k = "k4" -> 11]
\* A snapshot is worth several joins.
Bounds == [o \in {"client", "mesh"} |-> IF o = "client" THEN 5 ELSE 3]
=============================================================================
