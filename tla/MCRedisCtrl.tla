----------------------------- MODULE MCRedisCtrl ------------------------------
(* Instances of RedisCtrl for TLC.                                         *)
EXTENDS RedisCtrl

(* One cluster of two servers and one of a single server.                  *)
TwoClusters == 0 :> {1, 2} @@ 1 :> {3}

(* One cluster.                                                            *)
OneCluster == 0 :> {1, 2}

Symmetry == Permutations(Ctrl)
===============================================================================
